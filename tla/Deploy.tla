------------------------------- MODULE Deploy -------------------------------
(***************************************************************************)
(* infra/scripts/deploy.sh on one host: one run of the script after the    *)
(* other (the CD workflows form a concurrency group), each with an image   *)
(* tag, over the containers of the compose file and the database schema.   *)
(*                                                                         *)
(* Every backend service of the compose file depends on the migrate        *)
(* service ("service_completed_successfully"), so `up -d` runs migrate     *)
(* with the same tag first; the bot depends on a healthy api.  Alembic     *)
(* fails on a schema revision its image does not know.                     *)
(*                                                                         *)
(* The overrides differ in what matters here.  dev mounts the source of    *)
(* the host's checkout over the code in the images of the four services    *)
(* (not of migrate) and binds the api's port on the host.  prod runs the   *)
(* code of the images and binds no port, so that the smoke test reaches    *)
(* the api only if whoever runs the script sets HEALTH_URL; the workflow   *)
(* does not.                                                               *)
(***************************************************************************)
EXTENDS Naturals, FiniteSets

CONSTANTS Tags,      \* versions: a commit, with its source and its image
          Head,      \* the newest schema revision each version knows
          Good,      \* versions whose api becomes healthy
          Services,  \* the services that are rolled out
          MaxFaults, \* bound: failing commands and killed scripts
          NoTag

ASSUME DeployAssumption ==
    /\ Head \in [Tags -> Nat] /\ Good \subseteq Tags /\ NoTag \notin Tags
    /\ {"api", "bot"} \subseteq Services
    /\ MaxFaults \in Nat

VARIABLES env,      \* "dev", "prod", or "prodUrl" (prod with a HEALTH_URL)
          checkout, \* the version of the checkout dev mounts, or NoTag
          step,     \* where the script is, "idle" between two runs
          tag, prev, \* IMAGE_TAG and PREVIOUS_TAG
          skip,     \* --skip-migrations
          todo,     \* services the current `up -d` has not recreated
          running,  \* the image tag of each service's container, or NoTag
          code,     \* the version whose code the process in it has loaded
          schema,   \* the revision of the database
          lastGood, \* LAST_GOOD_TAG_FILE
          outcome,  \* of the last run: "none", "ok", "rolledback" (ERR trap),
                    \* "stuck" (in a rollback), "died" (die) or "killed"
          calm,     \* history: no fault in the current or last run
          mixed,    \* history: some run deployed an image over the mounted
                    \* source of another version
          faults

vars == <<env, checkout, step, tag, prev, skip, todo, running, code, schema,
          lastGood, outcome, calm, mixed, faults>>

argVars  == <<env, checkout, mixed, tag, prev, skip>>
containerVars == <<running, code>>
hostVars == <<containerVars, schema>>

Mounted   == env = "dev"
Reachable == env # "prod"

Fault == faults < MaxFaults /\ faults' = faults + 1 /\ calm' = FALSE
NoFault == UNCHANGED <<faults, calm>>

Init ==
    /\ env \in {"dev", "prod", "prodUrl"}
    /\ checkout \in IF Mounted THEN Tags ELSE {NoTag}
    /\ step = "idle" /\ tag = NoTag /\ prev = NoTag /\ skip = FALSE
    /\ todo = {} /\ running = [s \in Services |-> NoTag] /\ code = running
    /\ schema = 0 /\ lastGood = NoTag /\ outcome = "none"
    /\ calm = TRUE /\ mixed = FALSE /\ faults = 0

\* git checkout -f origin/develop, before the script is started: the head of
\* the branch by then, which need not be the commit the image was built from.
MoveCheckout(c) ==
    /\ Mounted /\ step = "idle"
    /\ checkout' = c
    /\ UNCHANGED <<env, mixed, tag, prev, skip, step, todo, hostVars, lastGood, outcome>>
    /\ NoFault

\* A process ends and docker starts it again (restart: unless-stopped): it
\* loads what is mounted by now.
ServiceRestarts(s) ==
    /\ Mounted /\ running[s] # NoTag
    /\ code' = [code EXCEPT ![s] = checkout]
    /\ UNCHANGED <<argVars, step, todo, running, schema, lastGood, outcome>> /\ NoFault

\* The arguments, and PREVIOUS_TAG, read from the file before anything else.
Begin(t, s) ==
    /\ step = "idle"
    /\ step' = "pull" /\ tag' = t /\ skip' = s /\ prev' = lastGood
    /\ outcome' = "none" /\ calm' = TRUE
    /\ mixed' = (mixed \/ (Mounted /\ checkout # t))
    /\ UNCHANGED <<env, checkout, todo, hostVars, lastGood, faults>>

-----------------------------------------------------------------------------
(* The ERR trap, and die *)

End(o) == step' = "idle" /\ outcome' = o /\ todo' = {}

\* A command failed: roll back if there is another tag to roll back to.
ErrTrap ==
    IF prev # NoTag /\ prev # tag
    THEN step' = "undoMigrate" /\ todo' = Services /\ UNCHANGED outcome
    ELSE End("rolledback")

CommandFails ==
    /\ step \in {"pull", "migrate", "upMigrate", "up"}
    /\ Fault
    /\ ErrTrap
    /\ UNCHANGED <<argVars, hostVars, lastGood>>

\* curl reaches the api through the host's port, or at HEALTH_URL.
ApiServes == Reachable /\ running["api"] # NoTag /\ code["api"] \in Good

\* The ssh session or the host goes away: between the truncation and the
\* write of the tag, the file is empty.
ScriptKilled ==
    /\ step # "idle" /\ Fault
    /\ \/ lastGood' = lastGood
       \/ step = "smoke" /\ ApiServes /\ lastGood' \in {NoTag, tag}
    /\ End("killed")
    /\ UNCHANGED <<argVars, hostVars>>

-----------------------------------------------------------------------------
(* The way forward *)

Pull ==
    /\ step = "pull"
    /\ step' = IF skip THEN "free" ELSE "migrate"
    /\ UNCHANGED <<argVars, todo, hostVars, lastGood, outcome>> /\ NoFault

\* alembic upgrade head with the image of tag t.
Knows(t) == schema <= Head[t]

Upgrade(t) == schema' = Head[t] /\ UNCHANGED containerVars

Migrate ==
    /\ step = "migrate"
    /\ \/ Knows(tag) /\ Upgrade(tag) /\ step' = "free" /\ UNCHANGED <<todo, outcome>>
       \/ ~Knows(tag) /\ ErrTrap /\ UNCHANGED hostVars
    /\ UNCHANGED <<argVars, lastGood>> /\ NoFault

\* Mutant: the worker is missing from the list of services.
FreePortNoWorker ==
    /\ step = "free"
    /\ running' = [running EXCEPT !["api"] = NoTag]
    /\ code' = [code EXCEPT !["api"] = NoTag]
    /\ step' = "upMigrate" /\ todo' = Services \ {"worker"}
    /\ UNCHANGED <<argVars, schema, lastGood, outcome>> /\ NoFault

\* rm -fs backend-api || true: the port is free, and nobody serves.
FreePort ==
    /\ step = "free"
    /\ running' = [running EXCEPT !["api"] = NoTag]
    /\ code' = [code EXCEPT !["api"] = NoTag]
    /\ step' = "upMigrate" /\ todo' = Services
    /\ UNCHANGED <<argVars, schema, lastGood, outcome>> /\ NoFault

\* Mutant: the services do not depend on the migrate service.
UpUnmigrated ==
    /\ step = "upMigrate"
    /\ step' = "up" /\ UNCHANGED <<todo, outcome, hostVars>>
    /\ UNCHANGED <<argVars, lastGood>> /\ NoFault

\* up -d: first the services the others depend on.
UpMigrate ==
    /\ step = "upMigrate"
    /\ \/ Knows(tag) /\ Upgrade(tag) /\ step' = "up" /\ UNCHANGED <<todo, outcome>>
       \/ ~Knows(tag) /\ ErrTrap /\ UNCHANGED hostVars
    /\ UNCHANGED <<argVars, lastGood>> /\ NoFault

\* up -d puts a container of the image in the place of the old one; one whose
\* configuration, the image included, is unchanged may be left alone.
Recreate(s, t) ==
    /\ s \in todo
    /\ s = "bot" => running["api"] = t /\ code["api"] \in Good
    /\ running' = [running EXCEPT ![s] = t] /\ todo' = todo \ {s}
    /\ \/ code' = [code EXCEPT ![s] = IF Mounted THEN checkout ELSE t]
       \/ running[s] = t /\ UNCHANGED code

UpService(s) ==
    /\ step = "up" /\ Recreate(s, tag)
    /\ UNCHANGED <<step, argVars, schema, lastGood, outcome>> /\ NoFault

\* Mutant: up -d waits for a healthy api for ever.
WaitForHealthy == step = "up" /\ code["api"] \notin Good /\ UNCHANGED vars

\* The api does not get healthy: up -d fails on the bot's dependency.
ApiUnhealthy ==
    /\ step = "up" /\ running["api"] = tag /\ code["api"] \notin Good
    /\ ErrTrap
    /\ UNCHANGED <<argVars, hostVars, lastGood>> /\ NoFault

\* Mutant: the tag is recorded as soon as the containers are up.
RecordEarly ==
    /\ step = "up" /\ todo \subseteq {"bot"}
    /\ step' = "smoke" /\ lastGood' = tag
    /\ UNCHANGED <<argVars, todo, hostVars, outcome>> /\ NoFault

UpDone ==
    /\ step = "up" /\ todo = {}
    /\ step' = "smoke"
    /\ UNCHANGED <<argVars, todo, hostVars, lastGood, outcome>> /\ NoFault

\* One of the attempts reaches the api: record the tag and exit 0.  The write
\* may fail (|| true), before or after the file was truncated.
SmokePasses ==
    /\ step = "smoke" /\ ApiServes
    /\ \/ lastGood' = tag /\ NoFault
       \/ lastGood' \in {lastGood, NoTag} /\ Fault
    /\ End("ok")
    /\ UNCHANGED <<argVars, hostVars>>

\* Mutant: a single attempt, which an api that is still starting misses.
SmokeOnce ==
    /\ step = "smoke"
    /\ End("died")
    /\ UNCHANGED <<argVars, hostVars, lastGood>> /\ NoFault

\* All attempts fail, as they always do where nothing listens: die calls exit,
\* which is no failing command, and so the ERR trap does not run.
SmokeFails ==
    /\ step = "smoke"
    /\ IF ApiServes THEN Fault ELSE NoFault
    /\ End("died")
    /\ UNCHANGED <<argVars, hostVars, lastGood>>

-----------------------------------------------------------------------------
(* The way back: BACKEND_TAG=prev ... up -d ... || true *)

\* The migrate service comes first here as well, with the old image.
UndoMigrate ==
    /\ step = "undoMigrate"
    /\ \/ Knows(prev) /\ Upgrade(prev) /\ step' = "undo" /\ UNCHANGED <<todo, outcome>>
       \/ ~Knows(prev) /\ End("stuck") /\ UNCHANGED hostVars
    /\ UNCHANGED <<argVars, lastGood>> /\ NoFault

\* Mutant: BACKEND_TAG is not overridden.
UndoWithNewTag(s) ==
    /\ step = "undo" /\ Recreate(s, tag)
    /\ UNCHANGED <<step, argVars, schema, lastGood, outcome>> /\ NoFault

UndoService(s) ==
    /\ step = "undo" /\ Recreate(s, prev)
    /\ UNCHANGED <<step, argVars, schema, lastGood, outcome>> /\ NoFault

UndoDone ==
    /\ step = "undo" /\ todo = {}
    /\ End("rolledback")
    /\ UNCHANGED <<argVars, hostVars, lastGood>> /\ NoFault

\* The api of the previous image does not get healthy, with the source that is
\* mounted: up -d fails on the bot's dependency, which || true hides.
UndoUnhealthy ==
    /\ step = "undo" /\ running["api"] = prev /\ code["api"] \notin Good
    /\ End("stuck")
    /\ UNCHANGED <<argVars, hostVars, lastGood>> /\ NoFault

UndoFails ==
    /\ step \in {"undoMigrate", "undo"} /\ Fault
    /\ End("stuck")
    /\ UNCHANGED <<argVars, hostVars, lastGood>>

-----------------------------------------------------------------------------
Script ==
    \/ Pull \/ Migrate \/ FreePort \/ UpMigrate \/ ApiUnhealthy \/ UpDone
    \/ SmokePasses \/ SmokeFails
    \/ UndoMigrate \/ UndoUnhealthy \/ UndoDone
    \/ \E s \in Services : UpService(s) \/ UndoService(s)

Next ==
    \/ \E t \in Tags, s \in BOOLEAN : Begin(t, s)
    \/ \E c \in Tags : MoveCheckout(c)
    \/ \E s \in Services : ServiceRestarts(s)
    \/ Script
    \/ CommandFails \/ UndoFails \/ ScriptKilled

Spec == Init /\ [][Next]_vars

\* The script goes on.  Nobody is obliged to deploy.
FairSpec == Spec /\ WF_vars(Script)

-----------------------------------------------------------------------------
(* Properties *)

\* "MUST finish before listener/worker/api/bot start": no service has loaded
\* code that is newer than the schema, through failed deploys, killed scripts,
\* rollbacks, restarts and --skip-migrations, unless dev has mounted source
\* over an image of another version (which migrate never saw).
SchemaNotBehindCode ==
    \A s \in Services : running[s] # NoTag =>
        \/ Head[code[s]] <= schema
        \/ Mounted /\ code[s] # running[s]

\* What a rollback goes back to has served before: the recorded version is
\* good, if no run served the mounted source of another one in its place.
LastGoodIsGood == lastGood # NoTag /\ ~mixed => lastGood \in Good

\* A deploy that reports success has left one image in the four services, and
\* its code where no source is mounted.
OkIsUniform ==
    outcome = "ok" =>
        \A s \in Services : running[s] = tag /\ (Mounted \/ code[s] = tag)

\* A good version that knows the schema is deployed successfully when no
\* command fails and the smoke test can reach the api at all.
GoodDeploySucceeds ==
    step = "idle" /\ outcome # "none" /\ calm /\ Reachable /\ ~mixed
      /\ tag \in Good /\ schema = Head[tag] => outcome = "ok"

\* "On failure - rolls back to the previous tag": when a deploy has failed,
\* and no rollback got stuck, its tag is not left running.
RolledBack ==
    step = "idle" /\ outcome \in {"rolledback", "died"} /\ prev \notin {NoTag, tag} =>
        \A s \in Services : running[s] # tag

\* A rollback that completes has put the previous image into all services, over
\* the schema of that image: it never completes once the failed version has
\* migrated.  Only where no source is mounted is it the previous version that
\* runs; in dev what comes back runs the checkout that failed.
RollbackRestores ==
    step = "idle" /\ outcome = "rolledback" /\ prev \notin {NoTag, tag} =>
        /\ schema = Head[prev]
        /\ \A s \in Services : running[s] = prev /\ (Mounted \/ code[s] = prev)

\* The script always comes to its end.
DeployEnds == step # "idle" ~> step = "idle"
=============================================================================
