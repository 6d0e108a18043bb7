------------------------------- MODULE Startup -------------------------------
(***************************************************************************)
(* From "docker-compose up" (or a new task of the service) to a running    *)
(* execute.  Several containers start at the same time against a database  *)
(* that may not be there yet: each waits for it, runs the migrations of    *)
(* the core and of this repository, and starts execute.  Header sync runs  *)
(* the core's migrations too.  goose takes no lock: it reads the version,  *)
(* then applies one migration after the other, each in a transaction.      *)
(*                                                                         *)
(* A schema is the number of migrations applied to it, an image the number *)
(* of migrations it brings.                                                *)
(***************************************************************************)
EXTENDS Integers

CONSTANTS
  Executes,    \* containers of this repository's image
  Syncs,       \* containers of header sync
  CoreOf,      \* container -> how many core migrations its image brings
  OasisOf,     \* execute container -> how many oasis migrations its image brings
  CoreNeeded,  \* core migrations that create headers, event_logs and addresses
  MaxFaults    \* bound on crashes and returns of containers and outages of the database

Containers == Executes \cup Syncs

ASSUME ImagesAssumption ==
  /\ Executes \cap Syncs = {}
  /\ CoreOf \in [Containers -> Nat] /\ OasisOf \in [Executes -> Nat \ {0}]
  /\ CoreNeeded \in Nat /\ \A e \in Executes : CoreOf[e] >= CoreNeeded
  /\ MaxFaults \in Nat

VARIABLES
  db,         \* does the database accept connections
  core,       \* migrations recorded in public.goose_db_version
  schema,     \* is there a schema oasis
  oasis,      \* migrations recorded in oasis.goose_db_version
  container,  \* container -> its process
  check,      \* execute container -> what check_execute has found out, if it asked
  faults

vars == <<db, core, schema, oasis, container, check, faults>>

Unread == -1

\* Where the script of a container that is there is: wait-for-it, goose, psql, goose,
\* vulcanizedb; "exited" with an error, or "returned", with status 0.
Stages == {"absent", "created", "waiting", "core", "schema", "oasis", "running",
           "exited", "returned"}

Process ==
  [at      : Stages,
   version : Int,      \* the version goose believes the schema has
   file    : BOOLEAN,  \* /tmp/execute_health_check, kept when the container restarts
   health  : {"starting", "healthy", "unhealthy"}]

TypeOK ==
  /\ db \in BOOLEAN /\ schema \in BOOLEAN
  /\ core \in Nat /\ oasis \in Nat
  /\ container \in [Containers -> Process]
  /\ check \in [Executes -> {"no", "launched", "watching", "passed", "failed"}]
  /\ faults \in 0 .. MaxFaults

Is(c, stage) == container[c].at = stage

Over(c) == Is(c, "exited") \/ Is(c, "returned")

Up(c) == ~ (Is(c, "absent") \/ Is(c, "created") \/ Over(c))

\* Was c launched by check_execute, rather than docker-compose or the service.
Watched(c) == c \in Executes /\ check[c] # "no"

\* The script of c goes on to a stage; goose has read nothing there.
GoTo(c, stage) ==
  container' = [container EXCEPT ![c].at = stage, ![c].version = Unread]

-----------------------------------------------------------------------------
(* The database container, and faults.                                     *)

DbUp ==
  /\ ~db
  /\ db' = TRUE
  /\ UNCHANGED <<core, schema, oasis, container, check, faults>>

DbDown ==
  /\ db /\ faults < MaxFaults
  /\ db' = FALSE
  /\ faults' = faults + 1
  /\ UNCHANGED <<core, schema, oasis, container, check>>

Crash(c) ==
  /\ Up(c)
  /\ faults < MaxFaults
  /\ GoTo(c, "exited")
  /\ faults' = faults + 1
  /\ UNCHANGED <<db, core, schema, oasis, check>>

\* vulcanizedb execute ends without an error, its status is the script's.  Nothing
\* here says when it would: it may at any time.
Returns(c) ==
  /\ c \in Executes /\ Is(c, "running")
  /\ faults < MaxFaults
  /\ GoTo(c, "returned")
  /\ faults' = faults + 1
  /\ UNCHANGED <<db, core, schema, oasis, check>>

-----------------------------------------------------------------------------
(* Containers.                                                             *)

\* Mutant: no restart policy, a container is started once.
Start_Once(c) ==
  /\ Is(c, "created")
  /\ container' = [container EXCEPT ![c].at = IF Watched(c) THEN "core" ELSE "waiting",
                                   ![c].health = "starting"]
  /\ UNCHANGED <<db, core, schema, oasis, check, faults>>

\* The first start, and restart: unless-stopped.  The files stay, the health
\* status does not.  check_execute runs the image as it is: no waiting, no restart.
Start(c) ==
  /\ Is(c, "created") \/ (Over(c) /\ ~Watched(c))
  /\ container' = [container EXCEPT ![c].at = IF Watched(c) THEN "core" ELSE "waiting",
                                   ![c].health = "starting"]
  /\ UNCHANGED <<db, core, schema, oasis, check, faults>>

\* wait-for-it: the port answers, the command is executed in its place.
Available(c) ==
  /\ Is(c, "waiting") /\ db
  /\ GoTo(c, "core")
  /\ UNCHANGED <<db, core, schema, oasis, check, faults>>

\* 15 seconds without an answer; --strict: the command is not executed.
GiveUp(c) ==
  /\ Is(c, "waiting") /\ ~db
  /\ GoTo(c, "exited")
  /\ UNCHANGED <<db, core, schema, oasis, check, faults>>

-----------------------------------------------------------------------------
(* Migrations.                                                             *)

\* goose reads the version of a schema ...
ReadVersion(c, stage, version) ==
  /\ Is(c, stage) /\ db /\ container[c].version = Unread
  /\ container' = [container EXCEPT ![c].version = version]
  /\ UNCHANGED <<db, core, schema, oasis, check, faults>>

\* ... applies the migration that follows, unless another goose has done so ...
Applies(c, stage, version, brought) ==
  /\ Is(c, stage) /\ db
  /\ container[c].version = version /\ version < brought
  /\ container' = [container EXCEPT ![c].version = @ + 1]

\* ... and is done when its image brings no more,
Done(c, stage, brought) ==
  Is(c, stage) /\ container[c].version >= brought

\* or fails: CREATE TABLE finds the table, or goose loses the database.
Fails(c, stage, version, brought) ==
  /\ Is(c, stage)
  /\ \/ ~db
     \/ container[c].version \in Nat /\ container[c].version < version
                                     /\ container[c].version < brought

ApplyCore(c) ==
  /\ Applies(c, "core", core, CoreOf[c])
  /\ core' = core + 1
  /\ UNCHANGED <<db, schema, oasis, check, faults>>

CoreDone(c) ==
  /\ Done(c, "core", CoreOf[c])
  /\ GoTo(c, IF c \in Syncs THEN "running" ELSE "schema")
  /\ UNCHANGED <<db, core, schema, oasis, check, faults>>

\* Mutant: header sync goes on as well.
CoreFails_GoesOn(c) ==
  /\ Fails(c, "core", core, CoreOf[c])
  /\ GoTo(c, IF c \in Syncs THEN "running" ELSE "schema")
  /\ UNCHANGED <<db, core, schema, oasis, check, faults>>

\* run_migrations.sh goes on when the core's migrations fail, header sync stops.
CoreFails(c) ==
  /\ Fails(c, "core", core, CoreOf[c])
  /\ GoTo(c, IF c \in Syncs THEN "exited" ELSE "schema")
  /\ UNCHANGED <<db, core, schema, oasis, check, faults>>

\* CREATE SCHEMA IF NOT EXISTS; nor is its failure looked at.
CreateSchema(c) ==
  /\ Is(c, "schema")
  /\ schema' = (schema \/ db)
  /\ GoTo(c, "oasis")
  /\ UNCHANGED <<db, core, oasis, check, faults>>

\* The tables refer to headers, event_logs and addresses.
ApplyOasis(c) ==
  /\ Applies(c, "oasis", oasis, OasisOf[c])
  /\ core >= CoreNeeded
  /\ oasis' = oasis + 1
  /\ UNCHANGED <<db, core, schema, check, faults>>

OasisDone(c) ==
  /\ Done(c, "oasis", OasisOf[c])
  /\ GoTo(c, "running")
  /\ UNCHANGED <<db, core, schema, oasis, check, faults>>

\* Mutant: the exit status is not tested.
OasisFails_GoesOn(c) ==
  /\ \/ Fails(c, "oasis", oasis, OasisOf[c])
     \/ Is(c, "oasis") /\ (~schema \/ core < CoreNeeded)
  /\ GoTo(c, "running")
  /\ UNCHANGED <<db, core, schema, oasis, check, faults>>

\* Mutant: what could not be migrated is rolled back by one migration.
OasisFails_RollsBack(c) ==
  /\ \/ Fails(c, "oasis", oasis, OasisOf[c])
     \/ Is(c, "oasis") /\ (~schema \/ core < CoreNeeded)
  /\ GoTo(c, "exited")
  /\ oasis' = oasis - 1
  /\ UNCHANGED <<db, core, schema, check, faults>>

\* Mutant: exit without a status, which is that of the echo before it.
OasisFails_Exit(c) ==
  /\ \/ Fails(c, "oasis", oasis, OasisOf[c])
     \/ Is(c, "oasis") /\ (~schema \/ core < CoreNeeded)
  /\ GoTo(c, "returned")
  /\ UNCHANGED <<db, core, schema, oasis, check, faults>>

\* Without the schema there is nowhere to keep the version.  if [ $? -ne 0 ]
OasisFails(c) ==
  /\ \/ Fails(c, "oasis", oasis, OasisOf[c])
     \/ Is(c, "oasis") /\ (~schema \/ core < CoreNeeded)
  /\ GoTo(c, "exited")
  /\ UNCHANGED <<db, core, schema, oasis, check, faults>>

Migrate(c) ==
  \/ ReadVersion(c, "core", core) \/ ApplyCore(c) \/ CoreDone(c) \/ CoreFails(c)
  \/ /\ c \in Executes
     /\ \/ CreateSchema(c) \/ ApplyOasis(c) \/ OasisDone(c) \/ OasisFails(c)
        \/ schema /\ ReadVersion(c, "oasis", oasis)

-----------------------------------------------------------------------------
(* Health, and who looks at it.                                            *)

\* Mutant: the script writes the file before the migrations.
WatcherStarts_Early(c) ==
  /\ c \in Executes /\ Up(c)
  /\ ~container[c].file
  /\ container' = [container EXCEPT ![c].file = TRUE]
  /\ UNCHANGED <<db, core, schema, oasis, check, faults>>

\* execute writes "event watcher starting".
WatcherStarts(c) ==
  /\ c \in Executes /\ Is(c, "running")
  /\ ~container[c].file
  /\ container' = [container EXCEPT ![c].file = TRUE]
  /\ UNCHANGED <<db, core, schema, oasis, check, faults>>

\* HEALTHCHECK: grep finds the line, or has failed often enough.
Probe(c) ==
  /\ c \in Executes /\ Up(c)
  /\ container' = [container EXCEPT
                     ![c].health = IF container[c].file THEN "healthy" ELSE "unhealthy"]
  /\ container' # container
  /\ UNCHANGED <<db, core, schema, oasis, check, faults>>

Found(c, verdict) ==
  /\ check' = [check EXCEPT ![c] = verdict]
  /\ UNCHANGED <<db, core, schema, oasis, container, faults>>

\* communicate(timeout=5), then sys.exit(popen.returncode): the status of a container
\* that is over already is that of the check, 0 included.
Communicate(c) ==
  /\ check[c] = "launched"
  /\ Found(c, CASE Is(c, "exited")   -> "failed"
               [] Is(c, "returned") -> "passed"
               [] OTHER             -> "watching")

\* Mutant: 'healthy' in status.
Poll_NoParentheses(c) ==
  /\ check[c] = "watching"
  /\ Up(c)
  /\ container[c].health \in {"healthy", "unhealthy"}
  /\ Found(c, "passed")

\* '(healthy)' in status, which docker ps shows of containers that run.
Poll(c) ==
  /\ check[c] = "watching"
  /\ Up(c)
  /\ container[c].health = "healthy"
  /\ Found(c, "passed")

NeverHealthy(c) ==
  /\ check[c] = "watching"
  /\ Found(c, "failed")

-----------------------------------------------------------------------------

Created(containers) ==
  container = [c \in Containers |->
                 [at      |-> IF c \in containers THEN "created" ELSE "absent",
                  version |-> Unread, file |-> FALSE, health |-> "starting"]]

\* An empty database, or what an earlier release left; docker-compose up, or
\* check_execute with the image of one container.
Init ==
  /\ db \in BOOLEAN
  /\ core \in {0} \cup {CoreOf[c] : c \in Containers}
  /\ oasis \in {0} \cup {OasisOf[c] : c \in Executes}
  /\ oasis > 0 => core >= CoreNeeded
  /\ schema = (oasis > 0)
  /\ \/ check = [e \in Executes |-> "no"] /\ Created(Containers)
     \/ \E c \in Executes :
          /\ check = [e \in Executes |-> IF e = c THEN "launched" ELSE "no"]
          /\ Created({c})
  /\ faults = 0

Step(c) ==
  \/ Start(c) \/ Available(c) \/ GiveUp(c)
  \/ Migrate(c)
  \/ WatcherStarts(c) \/ Probe(c)

Check(c) == Communicate(c) \/ Poll(c) \/ NeverHealthy(c)

Next ==
  \/ DbUp \/ DbDown
  \/ \E c \in Containers : Step(c) \/ Crash(c) \/ Returns(c)
  \/ \E c \in Executes : Check(c)

Spec == Init /\ [][Next]_vars

FairSpec == Spec /\ WF_vars(DbUp) /\ \A c \in Containers : WF_vars(Step(c))

-----------------------------------------------------------------------------
(* Properties.                                                             *)

\* However the starts of several containers, outages and restarts interleave, an
\* execute runs on every oasis migration of its image (run_migrations.sh:32-37).
ExecuteMigrated ==
  \A e \in Executes : Is(e, "running") =>
    schema /\ oasis >= OasisOf[e] /\ core >= CoreNeeded

\* Even a stale health file says that the schema of the image is there: it is
\* kept over restarts, but so are the migrations (Dockerfile:41).
HealthyMeansMigrated ==
  \A e \in Executes : container[e].health = "healthy" => oasis >= OasisOf[e]

\* No build passes on a failed migration: what check_execute has let through, by
\* a health status or by an exit status that the script handed on, ran execute on
\* the migrated database.  Whether the watcher started is another matter: execute
\* may also have returned before (check_execute:33, run_migrations.sh:34-37).
PassedMeansMigrated ==
  \A e \in Executes : check[e] = "passed" =>
    /\ schema /\ oasis >= OasisOf[e] /\ core >= CoreNeeded
    /\ container[e].file \/ Is(e, "returned")

\* Slow databases, outages, crashes and lost races between migrations delay a
\* container, but it runs in the end (docker-compose.yml: restart).
EveryoneRuns ==
  <>[](\A c \in Containers : Watched(c) \/ Is(c, "absent") \/ Is(c, "running"))

\* Header sync repeats the core's migrations until they succeed, so an execute
\* that went on without them has them in the end.
CoreCompletes == <>[](\A s \in Syncs : Is(s, "absent") \/ core >= CoreOf[s])

\* run_migrations.sh:2, "Runs the migrations and executes transformers": execute
\* runs on every core migration of its image.
CoreMigratedBeforeExecute ==
  \A e \in Executes : Is(e, "running") => core >= CoreOf[e]
=============================================================================
