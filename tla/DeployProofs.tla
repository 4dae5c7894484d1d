---------------------------- MODULE DeployProofs ----------------------------
(***************************************************************************)
(* The safety of deploy.sh for any versions, schema revisions, services    *)
(* and faults, on a host of dev or prod: no code of an image on an older   *)
(* schema, a good version to go back to, a uniform result of a success and *)
(* of a completed rollback, and no good version rejected.                  *)
(***************************************************************************)
EXTENDS Deploy, TLAPS

Forward  == {"pull", "migrate", "free", "upMigrate", "up", "smoke"}
Backward == {"undoMigrate", "undo"}

TypeOK ==
    /\ env \in {"dev", "prod", "prodUrl"} /\ checkout \in Tags \cup {NoTag}
    /\ step \in {"idle"} \cup Forward \cup Backward
    /\ tag \in Tags \cup {NoTag} /\ prev \in Tags \cup {NoTag} /\ skip \in BOOLEAN
    /\ todo \subseteq Services
    /\ running \in [Services -> Tags \cup {NoTag}]
    /\ code \in [Services -> Tags \cup {NoTag}]
    /\ schema \in Nat
    /\ lastGood \in Tags \cup {NoTag}
    /\ outcome \in {"none", "ok", "rolledback", "stuck", "died", "killed"}
    /\ calm \in BOOLEAN /\ mixed \in BOOLEAN

\* While the script runs it has a tag and no outcome; what it goes back to is
\* a tag as well.
InRun ==
    /\ step # "idle" => tag \in Tags /\ outcome = "none"
    /\ step \in Backward => prev \in Tags

\* A container runs a version, whose image the database has been migrated for,
\* and the code of that image unless the checkout is mounted over it.
Loaded ==
    /\ Mounted => checkout \in Tags
    /\ ~Mounted => code = running
    /\ \A s \in Services : running[s] # NoTag =>
          code[s] \in Tags /\ Head[running[s]] <= schema

\* What answers the smoke test was started by this run: the api was removed
\* before, so its code is the checkout's, the tag's in a run that mixes nothing.
FreshApi ==
    /\ step = "upMigrate" => running["api"] = NoTag
    /\ step \in {"up", "smoke"} /\ running["api"] = tag /\ Mounted => code["api"] = checkout
    /\ step # "idle" /\ Mounted /\ ~mixed => checkout = tag

\* What `up -d` has left behind it: containers of its image, on its schema.
Recreated ==
    /\ step \in {"up", "smoke"} =>
          schema = Head[tag] /\ \A s \in Services \ todo : running[s] = tag
    /\ step = "smoke" => todo = {}
    /\ step \in {"upMigrate", "undoMigrate"} => todo = Services
    /\ step = "undo" =>
          schema = Head[prev] /\ \A s \in Services \ todo : running[s] = prev

\* The runs of which GoodDeploySucceeds speaks.
Fair == calm /\ Reachable /\ ~mixed /\ tag \in Good

\* Without a fault, a good version is only turned away by a newer schema.
TurnedAway ==
    Fair /\ (step \in Backward \/ outcome \notin {"none", "ok"}) => Head[tag] < schema

IInv == /\ TypeOK /\ InRun /\ Loaded /\ FreshApi /\ Recreated /\ TurnedAway
        /\ LastGoodIsGood /\ OkIsUniform /\ RollbackRestores

-----------------------------------------------------------------------------
\* Nothing runs and nothing is recorded at first.
LEMMA InitIInv == Init => IInv
<1> SUFFICES ASSUME Init PROVE IInv
  OBVIOUS
<1> USE DEF Init
<1>1. TypeOK /\ Loaded
  BY DEF TypeOK, Loaded, Mounted
<1>2. InRun /\ FreshApi /\ Recreated /\ TurnedAway
  BY DEF InRun, FreshApi, Recreated, TurnedAway, Forward, Backward
<1>3. LastGoodIsGood /\ OkIsUniform /\ RollbackRestores
  BY DEF LastGoodIsGood, OkIsUniform, RollbackRestores
<1> QED
  BY <1>1, <1>2, <1>3 DEF IInv

\* The schema never goes back, so what runs stays on a schema it knows.
LEMMA UpgradeKeeps ==
    ASSUME TypeOK, Loaded, NEW t \in Tags, Knows(t), Upgrade(t), UNCHANGED <<env, checkout>>
    PROVE  /\ schema' \in Nat /\ schema <= schema' /\ schema' = Head[t]
           /\ Loaded' /\ running' = running /\ code' = code
<1>1. /\ Head[t] \in Nat /\ schema \in Nat /\ schema <= Head[t]
      /\ schema' = Head[t] /\ running' = running /\ code' = code
  BY DeployAssumption DEF DeployAssumption, TypeOK, Knows, Upgrade, containerVars
<1>2. \A s \in Services : running[s] # NoTag => Head[running[s]] \in Nat
  BY DeployAssumption DEF DeployAssumption, TypeOK
<1> QED
  BY <1>1, <1>2 DEF Loaded, Mounted

\* The ERR trap: back to the previous tag, or the end when there is none.  Without
\* a fault it is reached when the version is bad or does not know the schema.
LEMMA ErrTrapStep ==
    ASSUME IInv, step \in Forward, ErrTrap, calm' \in BOOLEAN, Fair' => Fair /\ ~Knows(tag),
           UNCHANGED <<argVars, hostVars, lastGood>>
    PROVE  IInv'
<1> USE DEF IInv, Forward, Backward, argVars, hostVars, containerVars, Mounted
<1>1. /\ step' \in {"idle", "undoMigrate"} /\ todo' \subseteq Services
      /\ step' = "undoMigrate" => prev \notin {NoTag, tag} /\ todo' = Services
                                  /\ outcome' = outcome
      /\ step' = "idle" => prev \in {NoTag, tag} /\ outcome' = "rolledback"
  BY DEF ErrTrap, End
<1>2. tag \in Tags /\ outcome = "none" /\ Head[tag] \in Nat /\ schema \in Nat
  BY DeployAssumption DEF DeployAssumption, InRun, TypeOK
<1>3. TypeOK' /\ InRun' /\ Loaded' /\ FreshApi'
  BY <1>1, <1>2 DEF TypeOK, InRun, Loaded, FreshApi
<1>4. Recreated' /\ OkIsUniform' /\ RollbackRestores' /\ LastGoodIsGood'
  BY <1>1, <1>2 DEF Recreated, OkIsUniform, RollbackRestores, LastGoodIsGood
<1>5. TurnedAway'
  BY <1>1, <1>2 DEF TurnedAway, Knows
<1> QED
  BY <1>3, <1>4, <1>5

\* The end of a run that neither succeeded nor rolled back: it met a fault, or
\* was on its way back already, or is none of the runs that must succeed.
LEMMA BadEnd ==
    ASSUME IInv, step # "idle", NEW o \in {"stuck", "died", "killed"}, End(o),
           calm' \in BOOLEAN, Fair' => Fair /\ step \in Backward,
           lastGood' \in Tags \cup {NoTag}, LastGoodIsGood',
           UNCHANGED <<argVars, hostVars>>
    PROVE  IInv'
<1> USE DEF End, IInv, Forward, Backward, argVars, hostVars, containerVars, Mounted
<1>1. TypeOK' /\ InRun' /\ Loaded' /\ FreshApi' /\ Recreated'
  BY DEF TypeOK, InRun, Loaded, FreshApi, Recreated
<1>2. TurnedAway'
  BY DEF TurnedAway
<1>3. OkIsUniform' /\ RollbackRestores'
  BY DEF OkIsUniform, RollbackRestores
<1> QED
  BY <1>1, <1>2, <1>3

\* A container gets image t, whose schema the database has.
LEMMA RecreateKeeps ==
    ASSUME TypeOK, Loaded, NEW s \in Services, NEW t \in Tags, Recreate(s, t),
           schema = Head[t], UNCHANGED <<schema, env, checkout>>,
           \A q \in Services \ todo : running[q] = t
    PROVE  /\ running' \in [Services -> Tags \cup {NoTag}] /\ todo' \subseteq Services
           /\ code' \in [Services -> Tags \cup {NoTag}] /\ Loaded'
           /\ \A q \in Services \ todo' : running'[q] = t
<1> USE DEF Mounted
<1>1. /\ running' = [running EXCEPT ![s] = t] /\ todo' = todo \ {s}
      /\ \/ code' = [code EXCEPT ![s] = IF Mounted THEN checkout ELSE t]
         \/ running[s] = t /\ code' = code
  BY DEF Recreate
<1>2. \A q \in Services : running'[q] = IF q = s THEN t ELSE running[q]
  BY <1>1 DEF TypeOK
<1>3. \A q \in Services : q # s => code'[q] = code[q]
  BY <1>1 DEF TypeOK
<1>4. /\ running' \in [Services -> Tags \cup {NoTag}] /\ todo' \subseteq Services
      /\ code' \in [Services -> Tags \cup {NoTag}]
  BY <1>1 DEF TypeOK
<1>5. code'[s] \in Tags /\ (~Mounted => code'[s] = t)
  BY <1>1, DeployAssumption DEF DeployAssumption, TypeOK, Loaded
<1>6. ~Mounted => code' = running'
  BY <1>2, <1>3, <1>4, <1>5 DEF Loaded
<1>7. Head[t] \in Nat
  BY DeployAssumption DEF DeployAssumption
<1>8. Loaded'
  BY <1>2, <1>3, <1>5, <1>6, <1>7 DEF Loaded
<1> QED
  BY <1>1, <1>2, <1>4, <1>8

\* In the smoke test the api answers for the tag of the run.
LEMMA SmokeTestsTag ==
    ASSUME IInv, step = "smoke"
    PROVE  /\ tag \in Tags /\ \A s \in Services : running[s] = tag
           /\ ApiServes /\ ~mixed => tag \in Good
           /\ Reachable /\ ~mixed /\ tag \in Good => ApiServes
<1>1. tag \in Tags /\ \A s \in Services : running[s] = tag
  BY DEF IInv, InRun, Recreated
<1>2. "api" \in Services /\ tag # NoTag
  BY <1>1, DeployAssumption DEF DeployAssumption
<1>3. ~mixed => code["api"] = tag
  BY <1>1, <1>2 DEF IInv, FreshApi, Loaded
<1> QED
  BY <1>1, <1>2, <1>3 DEF ApiServes

\* The way forward, action by action.
LEMMA ForwardStep ==
    ASSUME IInv,
           Pull \/ Migrate \/ FreePort \/ UpMigrate \/ ApiUnhealthy \/ UpDone
             \/ SmokePasses \/ SmokeFails \/ \E s \in Services : UpService(s)
    PROVE  IInv'
<1> USE DEF IInv, Forward, Backward, NoFault, argVars, hostVars, containerVars, Mounted,
        Reachable, Fair
<1>0. /\ TypeOK /\ InRun /\ Loaded
      /\ "api" \in Services /\ \A t \in Tags : Head[t] \in Nat
  BY DeployAssumption DEF DeployAssumption
<1>1. CASE Pull
  BY <1>1 DEF Pull, TypeOK, InRun, Loaded, FreshApi, Recreated, TurnedAway, LastGoodIsGood,
     OkIsUniform, RollbackRestores
<1>2. ASSUME Knows(tag), Upgrade(tag), step \in {"migrate", "upMigrate"},
             step' = (IF step = "migrate" THEN "free" ELSE "up"),
             UNCHANGED <<todo, outcome, argVars, lastGood, calm>>
      PROVE  IInv'
  <2>1. tag \in Tags /\ outcome = "none" /\ tag # NoTag
    BY <1>0, <1>2, DeployAssumption DEF DeployAssumption, InRun
  <2>2. /\ schema' = Head[tag] /\ schema' \in Nat /\ Loaded'
        /\ running' = running /\ code' = code
    BY <1>0, <1>2, <2>1, UpgradeKeeps
  <2>3. TypeOK' /\ InRun'
    BY <1>0, <1>2, <2>1, <2>2 DEF TypeOK, InRun
  <2>4. FreshApi' /\ Recreated'
    BY <1>2, <2>1, <2>2 DEF FreshApi, Recreated
  <2>5. TurnedAway' /\ LastGoodIsGood' /\ OkIsUniform' /\ RollbackRestores'
    BY <1>2, <2>1 DEF TurnedAway, LastGoodIsGood, OkIsUniform, RollbackRestores
  <2> QED
    BY <2>2, <2>3, <2>4, <2>5
<1>3. CASE Migrate
  <2>1. CASE ~Knows(tag) /\ ErrTrap /\ UNCHANGED hostVars
    BY <1>0, <1>3, <2>1, ErrTrapStep DEF Migrate, TypeOK
  <2> QED
    BY <1>2, <1>3, <2>1 DEF Migrate
<1>4. CASE UpMigrate
  <2>1. CASE ~Knows(tag) /\ ErrTrap /\ UNCHANGED hostVars
    BY <1>0, <1>4, <2>1, ErrTrapStep DEF UpMigrate, TypeOK
  <2> QED
    BY <1>2, <1>4, <2>1 DEF UpMigrate
<1>5. CASE FreePort
  <2>1. /\ step' = "upMigrate" /\ todo' = Services /\ step = "free"
        /\ running' = [running EXCEPT !["api"] = NoTag] /\ code' = [code EXCEPT !["api"] = NoTag]
        /\ UNCHANGED <<env, checkout, mixed, tag, prev, skip, schema, lastGood, outcome, calm>>
    BY <1>5 DEF FreePort
  <2>2. TypeOK' /\ InRun'
    BY <1>0, <2>1 DEF TypeOK, InRun
  <2>3. Loaded' /\ FreshApi'
    BY <1>0, <2>1 DEF Loaded, FreshApi, TypeOK
  <2>4. Recreated' /\ TurnedAway'
    BY <2>1 DEF Recreated, TurnedAway
  <2>5. LastGoodIsGood' /\ OkIsUniform' /\ RollbackRestores'
    BY <1>0, <2>1 DEF InRun, LastGoodIsGood, OkIsUniform, RollbackRestores
  <2> QED
    BY <2>2, <2>3, <2>4, <2>5
<1>6. CASE ApiUnhealthy
  <2>1. step = "up" /\ running["api"] = tag /\ code["api"] \notin Good /\ calm' = calm
        /\ ErrTrap /\ UNCHANGED <<argVars, hostVars, lastGood>>
    BY <1>6 DEF ApiUnhealthy
  <2>2. ~(~mixed /\ tag \in Good)
    BY <1>0, <2>1 DEF FreshApi, Loaded
  <2> QED
    BY <1>0, <2>1, <2>2, ErrTrapStep DEF TypeOK
<1>7. CASE UpDone
  BY <1>7 DEF UpDone, TypeOK, InRun, Loaded, FreshApi, Recreated, TurnedAway, LastGoodIsGood,
     OkIsUniform, RollbackRestores
<1>8. CASE SmokePasses
  <2>1. /\ step = "smoke" /\ ApiServes /\ tag \in Tags /\ \A s \in Services : running[s] = tag
        /\ ~mixed => tag \in Good
    BY <1>8, SmokeTestsTag DEF SmokePasses
  <2>2. /\ step' = "idle" /\ outcome' = "ok" /\ todo' = {} /\ lastGood' \in {lastGood, tag, NoTag}
        /\ UNCHANGED <<env, checkout, mixed, tag, prev, skip, running, code, schema>>
    BY <1>8 DEF SmokePasses, End
  <2>3. calm' \in BOOLEAN
    BY <1>0, <1>8 DEF SmokePasses, Fault, TypeOK
  <2>4. TypeOK' /\ InRun' /\ Loaded' /\ FreshApi' /\ Recreated' /\ TurnedAway'
    BY <2>1, <2>2, <2>3 DEF TypeOK, InRun, Loaded, FreshApi, Recreated, TurnedAway
  <2>5. LastGoodIsGood' /\ OkIsUniform' /\ RollbackRestores'
    BY <2>1, <2>2 DEF LastGoodIsGood, OkIsUniform, RollbackRestores, Loaded
  <2> QED
    BY <2>4, <2>5
<1>9. CASE SmokeFails
  <2>1. /\ step = "smoke" /\ End("died") /\ UNCHANGED <<argVars, hostVars, lastGood>>
        /\ calm' = FALSE \/ (~ApiServes /\ calm' = calm)
    BY <1>9 DEF SmokeFails, Fault
  <2>2. ~Fair' /\ calm' \in BOOLEAN
    BY <1>0, <2>1, SmokeTestsTag DEF TypeOK
  <2>3. lastGood' \in Tags \cup {NoTag} /\ LastGoodIsGood'
    BY <1>0, <2>1 DEF TypeOK, LastGoodIsGood
  <2> QED
    BY <2>1, <2>2, <2>3, BadEnd
<1>10. ASSUME NEW s \in Services, UpService(s) PROVE IInv'
  <2>1. /\ step = "up" /\ tag \in Tags /\ outcome = "none" /\ Recreate(s, tag)
        /\ UNCHANGED <<argVars, step, schema, lastGood, outcome, calm>>
    BY <1>0, <1>10 DEF UpService, InRun
  <2>2. /\ running' \in [Services -> Tags \cup {NoTag}] /\ todo' \subseteq Services
        /\ code' \in [Services -> Tags \cup {NoTag}] /\ Loaded'
        /\ \A q \in Services \ todo' : running'[q] = tag
    BY <1>0, <2>1, RecreateKeeps DEF Recreated
  <2>3. FreshApi'
    BY <1>0, <2>1 DEF FreshApi, Recreate, TypeOK
  <2>4. TypeOK' /\ InRun' /\ Recreated' /\ TurnedAway'
    BY <2>1, <2>2 DEF TypeOK, InRun, Recreated, TurnedAway
  <2>5. LastGoodIsGood' /\ OkIsUniform' /\ RollbackRestores'
    BY <2>1 DEF LastGoodIsGood, OkIsUniform, RollbackRestores
  <2> QED
    BY <2>2, <2>3, <2>4, <2>5
<1> QED
  BY <1>1, <1>3, <1>4, <1>5, <1>6, <1>7, <1>8, <1>9, <1>10

\* The way back, action by action.
LEMMA BackwardStep ==
    ASSUME IInv,
           UndoMigrate \/ UndoDone \/ UndoUnhealthy \/ UndoFails
             \/ \E s \in Services : UndoService(s)
    PROVE  IInv'
<1> USE DEF IInv, Forward, Backward, NoFault, argVars, hostVars, containerVars, Mounted,
        Reachable, Fair
<1>0. /\ TypeOK /\ InRun /\ Loaded
      /\ \A t \in Tags : Head[t] \in Nat
  BY DeployAssumption DEF DeployAssumption
<1>1. CASE UndoMigrate
  <2>1. CASE Knows(prev) /\ Upgrade(prev) /\ step' = "undo" /\ UNCHANGED <<todo, outcome>>
    <3>1. step = "undoMigrate" /\ tag \in Tags /\ prev \in Tags /\ outcome = "none"
          /\ UNCHANGED <<env, checkout, mixed, tag, prev, skip, lastGood, calm>>
      BY <1>0, <1>1 DEF UndoMigrate, InRun
    <3>2. /\ schema' = Head[prev] /\ schema' \in Nat /\ schema <= schema' /\ Loaded'
          /\ running' = running /\ code' = code
      BY <1>0, <2>1, <3>1, UpgradeKeeps
    <3>3. TypeOK' /\ InRun' /\ FreshApi' /\ Recreated'
      BY <1>0, <2>1, <3>1, <3>2 DEF TypeOK, InRun, FreshApi, Recreated
    <3>4. TurnedAway'
      BY <1>0, <2>1, <3>1, <3>2 DEF TurnedAway, TypeOK
    <3> QED
      BY <2>1, <3>1, <3>2, <3>3, <3>4 DEF LastGoodIsGood, OkIsUniform, RollbackRestores
  <2>2. CASE ~Knows(prev) /\ End("stuck") /\ UNCHANGED hostVars
    BY <1>0, <1>1, <2>2, BadEnd DEF UndoMigrate, TypeOK, LastGoodIsGood
  <2> QED
    BY <1>1, <2>1, <2>2 DEF UndoMigrate
<1>2. CASE UndoDone
  <2>1. /\ step = "undo" /\ tag \in Tags /\ prev \in Tags /\ outcome = "none"
        /\ schema = Head[prev] /\ \A s \in Services : running[s] = prev
    BY <1>0, <1>2 DEF UndoDone, InRun, Recreated
  <2>2. /\ step' = "idle" /\ outcome' = "rolledback" /\ todo' = {}
        /\ UNCHANGED <<argVars, hostVars, lastGood, calm>>
    BY <1>2 DEF UndoDone, End
  <2>3. TypeOK' /\ InRun' /\ Loaded' /\ FreshApi' /\ Recreated' /\ TurnedAway'
    BY <2>1, <2>2 DEF TypeOK, InRun, Loaded, FreshApi, Recreated, TurnedAway
  <2> QED
    BY <2>1, <2>2, <2>3 DEF LastGoodIsGood, OkIsUniform, RollbackRestores, Loaded
<1>3. CASE UndoUnhealthy
  <2>1. /\ step \in Backward /\ End("stuck") /\ UNCHANGED <<argVars, hostVars, lastGood, calm>>
    BY <1>3 DEF UndoUnhealthy
  <2> QED
    BY <1>0, <2>1, BadEnd DEF TypeOK, LastGoodIsGood
<1>4. CASE UndoFails
  <2>1. /\ step # "idle" /\ End("stuck") /\ UNCHANGED <<argVars, hostVars, lastGood>>
        /\ calm' = FALSE
    BY <1>4 DEF UndoFails, Fault
  <2> QED
    BY <1>0, <2>1, BadEnd DEF TypeOK, LastGoodIsGood
<1>5. ASSUME NEW s \in Services, UndoService(s) PROVE IInv'
  <2>1. /\ step = "undo" /\ tag \in Tags /\ prev \in Tags /\ outcome = "none" /\ Recreate(s, prev)
        /\ UNCHANGED <<argVars, step, schema, lastGood, outcome, calm>>
    BY <1>0, <1>5 DEF UndoService, InRun
  <2>2. /\ running' \in [Services -> Tags \cup {NoTag}] /\ todo' \subseteq Services
        /\ code' \in [Services -> Tags \cup {NoTag}] /\ Loaded'
        /\ \A q \in Services \ todo' : running'[q] = prev
    BY <1>0, <2>1, RecreateKeeps DEF Recreated
  <2>3. TypeOK' /\ InRun' /\ FreshApi' /\ Recreated' /\ TurnedAway'
    BY <2>1, <2>2 DEF TypeOK, InRun, FreshApi, Recreated, TurnedAway
  <2> QED
    BY <2>1, <2>2, <2>3 DEF LastGoodIsGood, OkIsUniform, RollbackRestores
<1> QED
  BY <1>1, <1>2, <1>3, <1>4, <1>5

LEMMA IInvStep == IInv /\ [Next]_vars => IInv'
<1> SUFFICES ASSUME IInv, [Next]_vars PROVE IInv'
  OBVIOUS
<1> USE DEF argVars, hostVars, containerVars, Mounted, Reachable, Fair
<1>0. TypeOK /\ Loaded
  BY DEF IInv
<1>1. ASSUME NEW t \in Tags, NEW s \in BOOLEAN, Begin(t, s) PROVE IInv'
  BY <1>1 DEF Begin, IInv, TypeOK, InRun, Loaded, FreshApi, Recreated, TurnedAway,
     LastGoodIsGood, OkIsUniform, RollbackRestores, Forward, Backward
<1>2. CASE Script \/ UndoFails
  BY <1>2, ForwardStep, BackwardStep DEF Script
<1>3. CASE CommandFails
  BY <1>3, ErrTrapStep DEF CommandFails, Fault, Forward
<1>4. CASE ScriptKilled
  <2>1. /\ step # "idle" /\ End("killed") /\ UNCHANGED <<argVars, hostVars>> /\ calm' = FALSE
        /\ lastGood' = lastGood \/ (step = "smoke" /\ ApiServes /\ lastGood' \in {NoTag, tag})
    BY <1>4 DEF ScriptKilled, Fault
  <2>2. lastGood' \in Tags \cup {NoTag} /\ LastGoodIsGood'
    BY <1>0, <2>1, SmokeTestsTag DEF IInv, TypeOK, LastGoodIsGood
  <2> QED
    BY <2>1, <2>2, BadEnd
<1>5. ASSUME NEW c \in Tags, MoveCheckout(c) PROVE IInv'
  BY <1>5 DEF MoveCheckout, NoFault, IInv, TypeOK, InRun, Loaded, FreshApi, Recreated, TurnedAway,
     LastGoodIsGood, OkIsUniform, RollbackRestores, Forward, Backward
<1>6. ASSUME NEW s \in Services, ServiceRestarts(s) PROVE IInv'
  <2>1. /\ Mounted /\ running[s] # NoTag /\ code' = [code EXCEPT ![s] = checkout]
        /\ UNCHANGED <<argVars, step, todo, running, schema, lastGood, outcome, calm>>
    BY <1>6 DEF ServiceRestarts, NoFault
  <2>2. /\ code' \in [Services -> Tags \cup {NoTag}]
        /\ \A q \in Services : code'[q] \in {code[q], checkout}
    BY <1>0, <2>1 DEF TypeOK
  <2>3. TypeOK' /\ Loaded' /\ InRun' /\ Recreated' /\ TurnedAway'
    BY <2>1, <2>2 DEF IInv, TypeOK, Loaded, InRun, Recreated, TurnedAway
  <2>4. FreshApi'
    BY <2>1, <2>2, DeployAssumption DEF DeployAssumption, IInv, FreshApi
  <2>5. LastGoodIsGood' /\ OkIsUniform' /\ RollbackRestores'
    BY <2>1 DEF IInv, LastGoodIsGood, OkIsUniform, RollbackRestores
  <2> QED
    BY <2>3, <2>4, <2>5 DEF IInv
<1>7. CASE UNCHANGED vars
  BY <1>7 DEF vars, IInv, TypeOK, InRun, Loaded, FreshApi, Recreated, TurnedAway,
     LastGoodIsGood, OkIsUniform, RollbackRestores
<1> QED
  BY <1>1, <1>2, <1>3, <1>4, <1>5, <1>6, <1>7 DEF Next

LEMMA Invariance == Spec => []IInv
  BY InitIInv, IInvStep, PTL DEF Spec

-----------------------------------------------------------------------------
\* No process ever has the code of its image ahead of the database, over failed
\* deploys, killed scripts, restarts and rollbacks of any versions: only source
\* that dev mounts over the image of another version can be.
THEOREM SchemaKeepsUp == Spec => []SchemaNotBehindCode
<1>1. IInv => SchemaNotBehindCode
  BY DEF IInv, Loaded, SchemaNotBehindCode
<1> QED
  BY <1>1, Invariance, PTL

\* A rollback has a version to go to that has served, if dev never served the
\* mounted source of another one for it.
THEOREM RecordedIsGood == Spec => []LastGoodIsGood
  BY Invariance, PTL DEF IInv

\* A success leaves the services on one image, and on its code without a mount.
THEOREM SuccessIsUniform == Spec => []OkIsUniform
  BY Invariance, PTL DEF IInv

\* A rollback that completes has met no newer schema and leaves the previous
\* image everywhere, and without a mount the previous version.
THEOREM RollbackIsComplete == Spec => []RollbackRestores
  BY Invariance, PTL DEF IInv

\* Where the smoke test reaches the api, the script turns no good version away
\* that knows the schema.
THEOREM GoodIsDeployed == Spec => []GoodDeploySucceeds
<1>1. IInv => GoodDeploySucceeds
  BY DeployAssumption DEF DeployAssumption, IInv, TypeOK, TurnedAway, Fair, GoodDeploySucceeds
<1> QED
  BY <1>1, Invariance, PTL
=============================================================================
