---------------------------- MODULE Startup_proofs ----------------------------
(* An execute runs on the oasis migrations of its image, docker does not show *)
(* it as healthy before, and check_execute does not let it pass: for any      *)
(* number of containers, images and faults.                                   *)
EXTENDS Startup, TLAPS

\* What is recorded of the oasis migrations was applied to a schema that is there,
\* on the tables they refer to.
SchemaInv == oasis > 0 => schema /\ core >= CoreNeeded

\* Is the database migrated as far as the image of e brings.
Migrated(e) == schema /\ oasis >= OasisOf[e]

\* What a goose has read it does not lose by what others apply; and everything
\* that is said of a container after its migrations is said of its image's schema.
MigratedInv(e) ==
  /\ Is(e, "oasis") =>
       container[e].version <= oasis /\ (container[e].version # Unread => schema)
  /\ Is(e, "running") \/ Is(e, "returned") \/ container[e].file => Migrated(e)
  /\ container[e].health = "healthy" => container[e].file
  /\ check[e] = "passed" => container[e].file \/ Is(e, "returned")

Inv == TypeOK /\ SchemaInv /\ \A e \in Executes : MigratedInv(e)

\* No step takes a migration back.
Forward == core' >= core /\ oasis' >= oasis /\ (schema => schema')

-----------------------------------------------------------------------------
(* Steps of one container.                                                 *)

\* A container whose record changes to r, where r is a process.
LEMMA RecordTypes ==
  ASSUME TypeOK, NEW c \in Containers, NEW r \in Process,
         container' = [container EXCEPT ![c] = r]
  PROVE  /\ container' \in [Containers -> Process]
         /\ container'[c] = r
         /\ \A d \in Containers \ {c} : container'[d] = container[d]
PROOF
  <1> QED BY DEF TypeOK

\* A step of one container that takes nothing back and is in order itself.
LEMMA OneKeeps ==
  ASSUME Inv, Forward, TypeOK', SchemaInv', NEW c \in Containers,
         \A d \in Executes \ {c} : container'[d] = container[d] /\ check'[d] = check[d],
         c \in Executes => MigratedInv(c)'
  PROVE  Inv'
PROOF
  <1> SUFFICES ASSUME NEW d \in Executes, d # c PROVE MigratedInv(d)'
    BY DEF Inv
  <1>1. MigratedInv(d) /\ container'[d] = container[d] /\ check'[d] = check[d]
    BY DEF Inv
  <1>2. /\ oasis \in Nat /\ oasis' \in Nat /\ OasisOf[d] \in Nat
        /\ container[d].version \in Int
    BY ImagesAssumption DEF Inv, TypeOK, Process, Containers
  <1> QED BY <1>1, <1>2 DEF MigratedInv, Migrated, Forward, Is

LEMMA InvInit == Init => Inv
PROOF
  <1> SUFFICES ASSUME Init PROVE Inv
    OBVIOUS
  <1>1. core \in Nat /\ oasis \in Nat /\ faults \in 0 .. MaxFaults
    BY ImagesAssumption DEF Init
  <1>2. PICK C : Created(C)
    BY DEF Init
  <1>3. \A c \in Containers :
          /\ container[c] \in Process /\ container[c].at \in {"created", "absent"}
          /\ ~container[c].file /\ container[c].health = "starting"
    BY <1>2 DEF Created, Process, Stages, Unread
  <1>4. container \in [Containers -> Process]
    BY <1>2, <1>3 DEF Created
  <1>5. /\ check \in [Executes -> {"no", "launched", "watching", "passed", "failed"}]
        /\ \A e \in Executes : check[e] # "passed"
    BY DEF Init
  <1>6. TypeOK
    BY <1>1, <1>4, <1>5 DEF TypeOK, Init
  <1>7. SchemaInv
    BY DEF Init, SchemaInv
  <1>8. \A e \in Executes : MigratedInv(e)
    BY <1>3, <1>5 DEF MigratedInv, Is, Containers
  <1> QED BY <1>6, <1>7, <1>8 DEF Inv

\* GoTo as a change of one record.
LEMMA GoToTypes ==
  ASSUME TypeOK, NEW c \in Containers, NEW stage \in Stages, GoTo(c, stage)
  PROVE  /\ container' \in [Containers -> Process]
         /\ container'[c].at = stage /\ container'[c].version = Unread
         /\ container'[c].file = container[c].file
         /\ container'[c].health = container[c].health
         /\ \A d \in Containers \ {c} : container'[d] = container[d]
PROOF
  <1> DEFINE r == [container[c] EXCEPT !.at = stage, !.version = Unread]
  <1>1. r \in Process /\ r.at = stage /\ r.version = Unread
        /\ r.file = container[c].file /\ r.health = container[c].health
    <2>1. container[c] \in Process /\ Unread \in Int
      BY DEF TypeOK, Unread
    <2> HIDE DEF Unread
    <2> QED BY <2>1 DEF Process
  <1>2. container' = [container EXCEPT ![c] = r]
    BY DEF GoTo, TypeOK
  <1> HIDE DEF r
  <1> QED BY <1>1, <1>2, RecordTypes

\* A container that goes on, or ends, while the tables stay as they are.
LEMMA GoToKeeps ==
  ASSUME Inv, NEW c \in Containers, NEW stage \in Stages, GoTo(c, stage),
         UNCHANGED <<core, oasis, check>>, schema' \in BOOLEAN, schema => schema',
         db' \in BOOLEAN, faults' \in 0 .. MaxFaults,
         c \in Executes /\ stage \in {"running", "returned"} => Migrated(c),
         c \in Executes /\ check[c] = "passed" => container[c].file \/ stage = "returned"
  PROVE  Inv'
PROOF
  <1>1. TypeOK
    BY DEF Inv
  <1>2. TypeOK'
    BY <1>1, GoToTypes DEF TypeOK
  <1>3. SchemaInv' /\ Forward
    BY <1>1 DEF Inv, SchemaInv, Forward, TypeOK
  <1>4. c \in Executes => MigratedInv(c)'
    <2> HAVE c \in Executes
    <2>1. MigratedInv(c) /\ oasis \in Nat
      BY DEF Inv, TypeOK
    <2> QED BY <1>1, <2>1, GoToTypes DEF MigratedInv, Migrated, Is, Unread
  <1>5. \A d \in Executes \ {c} : container'[d] = container[d] /\ check'[d] = check[d]
    BY <1>1, GoToTypes DEF Containers
  <1> QED BY <1>2, <1>3, <1>4, <1>5, OneKeeps

\* A container whose version or health is noted; the tables stay as they are.
LEMMA NoteKeeps ==
  ASSUME Inv, NEW c \in Containers, NEW r \in Process,
         container' = [container EXCEPT ![c] = r],
         UNCHANGED <<db, core, schema, oasis, check, faults>>,
         c \in Executes =>
           /\ r.at = "oasis" => r.version <= oasis /\ (r.version # Unread => schema)
           /\ r.at \in {"running", "returned"} \/ r.file => Migrated(c)
           /\ r.health = "healthy" => r.file
           /\ check[c] = "passed" => r.file \/ r.at = "returned"
  PROVE  Inv'
PROOF
  <1>1. TypeOK
    BY DEF Inv
  <1>2. TypeOK'
    BY <1>1, RecordTypes DEF TypeOK
  <1>3. SchemaInv' /\ Forward
    BY <1>1 DEF Inv, SchemaInv, Forward, TypeOK
  <1>4. c \in Executes => MigratedInv(c)'
    BY <1>1, RecordTypes DEF MigratedInv, Migrated, Is
  <1>5. \A d \in Executes \ {c} : container'[d] = container[d] /\ check'[d] = check[d]
    BY <1>1, RecordTypes DEF Containers
  <1> QED BY <1>2, <1>3, <1>4, <1>5, OneKeeps

-----------------------------------------------------------------------------
(* The actions.                                                            *)

LEMMA StartKeeps == ASSUME Inv, NEW c \in Containers, Start(c) PROVE Inv'
PROOF
  <1> DEFINE stage == IF Watched(c) THEN "core" ELSE "waiting"
             r == [container[c] EXCEPT !.at = stage, !.health = "starting"]
  <1>1. TypeOK /\ stage \in Stages \ {"oasis", "running", "returned"} /\ container[c] \in Process
    BY DEF Inv, TypeOK, Stages
  <1>2. container' = [container EXCEPT ![c] = r]
    BY <1>1 DEF Start, TypeOK
  <1>3. r \in Process /\ r.at = stage /\ r.health = "starting"
        /\ r.file = container[c].file
    <2> HIDE DEF stage
    <2> QED BY <1>1 DEF Process
  <1>4. c \in Executes => /\ container[c].file => Migrated(c)
                          /\ check[c] = "passed" => container[c].file
    BY DEF Inv, MigratedInv, Start, Over, Watched, Is
  <1> HIDE DEF r, stage
  <1> QED BY <1>1, <1>2, <1>3, <1>4, NoteKeeps DEF Start

\* The container waits no longer, or is over.
LEMMA WaitKeeps ==
  ASSUME Inv, NEW c \in Containers,
         Available(c) \/ GiveUp(c) \/ Crash(c) \/ Returns(c)
  PROVE  Inv'
PROOF
  <1>1. PICK stage \in {"core", "exited", "returned"} :
          GoTo(c, stage) /\ (stage = "returned" => c \in Executes /\ Is(c, "running"))
    BY DEF Available, GiveUp, Crash, Returns
  <1>2. /\ UNCHANGED <<db, core, schema, oasis, check>> /\ TypeOK
        /\ faults' \in 0 .. MaxFaults
    BY ImagesAssumption DEF Available, GiveUp, Crash, Returns, Inv, TypeOK
  <1>3. stage \in Stages /\ stage # "running" /\ db' \in BOOLEAN /\ schema' \in BOOLEAN
    BY <1>2 DEF Stages, TypeOK
  <1>4. ~ Is(c, "returned")
    BY DEF Available, GiveUp, Crash, Returns, Up, Over, Is
  <1>5. c \in Executes => MigratedInv(c)
    BY DEF Inv
  <1> QED BY <1>1, <1>2, <1>3, <1>4, <1>5, GoToKeeps DEF MigratedInv

\* goose reads, on the schema it is for.
LEMMA ReadKeeps ==
  ASSUME Inv, NEW c \in Containers, NEW stage, NEW version \in Nat,
         ReadVersion(c, stage, version),
         c \in Executes /\ stage = "oasis" => version = oasis /\ schema,
         stage \in {"core", "oasis"}
  PROVE  Inv'
PROOF
  <1> DEFINE r == [container[c] EXCEPT !.version = version]
  <1>1. TypeOK /\ container[c] \in Process /\ version \in Int /\ oasis \in Nat
    BY DEF Inv, TypeOK
  <1>2. container' = [container EXCEPT ![c] = r]
    BY <1>1 DEF ReadVersion, TypeOK
  <1>3. r \in Process /\ r.at = stage /\ r.version = version
        /\ r.file = container[c].file /\ r.health = container[c].health
    BY <1>1 DEF Process, ReadVersion, Is
  <1>4. c \in Executes =>
          /\ container[c].file => Migrated(c)
          /\ container[c].health = "healthy" \/ check[c] = "passed" => container[c].file
    BY DEF Inv, MigratedInv, ReadVersion, Is
  <1>5. c \in Executes /\ r.at = "oasis" => r.version <= oasis /\ schema
    BY <1>1, <1>3
  <1> HIDE DEF r
  <1> QED BY <1>2, <1>3, <1>4, <1>5, NoteKeeps DEF ReadVersion

\* goose applies a migration.
LEMMA ApplyKeeps ==
  ASSUME Inv, NEW c \in Containers,
         ApplyCore(c) \/ (c \in Executes /\ ApplyOasis(c))
  PROVE  Inv'
PROOF
  <1> DEFINE r == [container[c] EXCEPT !.version = @ + 1]
  <1>1. /\ TypeOK /\ container[c] \in Process /\ container[c].version \in Int
        /\ core \in Nat /\ oasis \in Nat /\ CoreNeeded \in Nat
    BY ImagesAssumption DEF Inv, TypeOK, Process
  <1>2. container' = [container EXCEPT ![c] = r]
    BY <1>1 DEF ApplyCore, ApplyOasis, Applies, TypeOK
  <1>3. r \in Process /\ r.at = container[c].at /\ r.version = container[c].version + 1
        /\ r.file = container[c].file /\ r.health = container[c].health
    BY <1>1 DEF Process
  <1> HIDE DEF r
  <1>4. /\ container' \in [Containers -> Process] /\ container'[c] = r
        /\ \A d \in Containers \ {c} : container'[d] = container[d]
    BY <1>1, <1>2, <1>3, RecordTypes
  <1>5. UNCHANGED <<db, schema, check, faults>> /\ Forward /\ core' \in Nat /\ oasis' \in Nat
    BY <1>1 DEF ApplyCore, ApplyOasis, Forward
  <1>6. TypeOK'
    BY <1>1, <1>4, <1>5 DEF TypeOK
  <1>7. c \in Executes => MigratedInv(c)
    BY DEF Inv
  <1>8. CASE ApplyCore(c)
    <2>1. SchemaInv'
      BY <1>1, <1>5, <1>8 DEF ApplyCore, Inv, SchemaInv, Forward
    <2>2. c \in Executes => MigratedInv(c)'
      BY <1>3, <1>4, <1>5, <1>7, <1>8
         DEF ApplyCore, Applies, MigratedInv, Migrated, Is
    <2> QED BY <1>4, <1>5, <1>6, <2>1, <2>2, OneKeeps DEF Containers
  <1>9. CASE c \in Executes /\ ApplyOasis(c)
    <2>1. container[c].at = "oasis" /\ container[c].version = oasis /\ oasis' = oasis + 1
          /\ core >= CoreNeeded /\ core' = core
      BY <1>9 DEF ApplyOasis, Applies, Is
    <2>2. schema
      BY <1>1, <1>7, <1>9, <2>1 DEF MigratedInv, Is, Unread
    <2>3. SchemaInv'
      BY <1>5, <2>1, <2>2 DEF SchemaInv
    <2>4. OasisOf[c] \in Nat
      BY <1>9, ImagesAssumption
    <2>5. MigratedInv(c)'
      BY <1>1, <1>3, <1>4, <1>5, <1>7, <1>9, <2>1, <2>2, <2>4
         DEF MigratedInv, Migrated, Is
    <2> QED BY <1>4, <1>5, <1>6, <2>3, <2>5, OneKeeps DEF Containers
  <1> QED BY <1>8, <1>9

\* A stage of the script is over, one way or the other.
LEMMA StageKeeps ==
  ASSUME Inv, NEW c \in Containers,
         \/ CoreDone(c) \/ CoreFails(c)
         \/ c \in Executes /\ (CreateSchema(c) \/ OasisDone(c) \/ OasisFails(c))
  PROVE  Inv'
PROOF
  <1>1. TypeOK /\ oasis \in Nat /\ container[c].version \in Int
    BY DEF Inv, TypeOK, Process
  <1>2. UNCHANGED <<db, core, oasis, check, faults>> /\ schema' \in BOOLEAN
        /\ (schema => schema')
    BY <1>1 DEF CoreDone, CoreFails, CreateSchema, OasisDone, OasisFails, TypeOK
  <1>3. c \in Executes /\ check[c] = "passed" => container[c].file
    BY DEF Inv, MigratedInv, Is, CoreDone, CoreFails, CreateSchema, OasisDone, OasisFails,
           Done, Fails
  <1>4. CASE c \in Executes /\ OasisDone(c)
    <2>1. OasisOf[c] \in Nat \ {0} /\ container[c].version >= OasisOf[c]
      BY <1>4, ImagesAssumption DEF OasisDone, Done
    <2>2. container[c].version <= oasis /\ schema
      BY <1>1, <1>4, <2>1 DEF Inv, MigratedInv, OasisDone, Done, Unread
    <2>3. Migrated(c)
      BY <1>1, <2>1, <2>2 DEF Migrated
    <2> QED BY <1>1, <1>2, <1>3, <1>4, <2>3, GoToKeeps DEF OasisDone, TypeOK, Stages
  <1>5. CASE ~ (c \in Executes /\ OasisDone(c))
    <2>1. PICK stage \in Stages :
          GoTo(c, stage) /\ (c \in Executes => stage \notin {"running", "returned"})
      BY <1>5, ImagesAssumption DEF CoreDone, CoreFails, CreateSchema, OasisFails, Stages
    <2> QED BY <1>1, <1>2, <1>3, <2>1, GoToKeeps DEF TypeOK
  <1> QED BY <1>4, <1>5

LEMMA MigrateKeeps == ASSUME Inv, NEW c \in Containers, Migrate(c) PROVE Inv'
PROOF
  <1>1. core \in Nat /\ oasis \in Nat
    BY DEF Inv, TypeOK
  <1>2. CASE ReadVersion(c, "core", core)
    BY <1>1, <1>2, ReadKeeps
  <1>3. CASE c \in Executes /\ schema /\ ReadVersion(c, "oasis", oasis)
    BY <1>1, <1>3, ReadKeeps
  <1>4. CASE ApplyCore(c) \/ (c \in Executes /\ ApplyOasis(c))
    BY <1>4, ApplyKeeps
  <1>5. CASE \/ CoreDone(c) \/ CoreFails(c)
             \/ c \in Executes /\ (CreateSchema(c) \/ OasisDone(c) \/ OasisFails(c))
    BY <1>5, StageKeeps
  <1> QED BY <1>2, <1>3, <1>4, <1>5 DEF Migrate

\* The file is written by a running execute, and is all the probe looks at.
LEMMA HealthKeeps ==
  ASSUME Inv, NEW c \in Containers, WatcherStarts(c) \/ Probe(c) PROVE Inv'
PROOF
  <1>1. TypeOK /\ container[c] \in Process /\ MigratedInv(c) /\ c \in Executes
    BY DEF Inv, TypeOK, WatcherStarts, Probe
  <1>2. CASE WatcherStarts(c)
    <2> DEFINE r == [container[c] EXCEPT !.file = TRUE]
    <2>1. container' = [container EXCEPT ![c] = r]
      BY <1>1, <1>2 DEF WatcherStarts, TypeOK
    <2>2. r \in Process /\ r.file /\ r.at = "running"
      BY <1>1, <1>2 DEF Process, WatcherStarts, Is
    <2>3. Migrated(c)
      BY <1>1, <1>2 DEF WatcherStarts, MigratedInv
    <2> HIDE DEF r
    <2> QED BY <1>2, <2>1, <2>2, <2>3, NoteKeeps DEF WatcherStarts
  <1>3. CASE Probe(c)
    <2> DEFINE health == IF container[c].file THEN "healthy" ELSE "unhealthy"
               r == [container[c] EXCEPT !.health = health]
    <2>1. container' = [container EXCEPT ![c] = r]
      BY <1>1, <1>3 DEF Probe, TypeOK
    <2>2. r \in Process /\ r.file = container[c].file /\ r.at = container[c].at
          /\ r.version = container[c].version
          /\ (r.health = "healthy" => container[c].file)
      BY <1>1 DEF Process
    <2> HIDE DEF r, health
    <2> QED BY <1>1, <1>3, <2>1, <2>2, NoteKeeps DEF Probe, MigratedInv, Is
  <1> QED BY <1>2, <1>3

\* check_execute passes what is healthy, and what has returned.
LEMMA CheckKeeps == ASSUME Inv, NEW c \in Executes, Check(c) PROVE Inv'
PROOF
  <1>1. PICK verdict \in {"watching", "passed", "failed"} :
          /\ Found(c, verdict)
          /\ verdict = "passed" => container[c].health = "healthy" \/ Is(c, "returned")
    BY DEF Check, Communicate, Poll, NeverHealthy
  <1>2. TypeOK
    BY DEF Inv
  <1>3. TypeOK' /\ check'[c] = verdict /\ \A d \in Executes \ {c} : check'[d] = check[d]
    BY <1>1, <1>2 DEF Found, TypeOK
  <1>4. UNCHANGED <<db, core, schema, oasis, container, faults>>
    BY <1>1 DEF Found
  <1>5. \A d \in Executes : MigratedInv(d)'
    <2> TAKE d \in Executes
    <2>1. MigratedInv(d)
      BY DEF Inv
    <2> QED BY <1>1, <1>3, <1>4, <2>1 DEF MigratedInv, Migrated, Is
  <1>6. SchemaInv'
    BY <1>4 DEF Inv, SchemaInv
  <1> QED BY <1>3, <1>5, <1>6 DEF Inv

LEMMA InvStep == Inv /\ [Next]_vars => Inv'
PROOF
  <1> SUFFICES ASSUME Inv, [Next]_vars PROVE Inv'
    OBVIOUS
  <1>1. CASE UNCHANGED vars
    BY <1>1 DEF vars, Inv, TypeOK, SchemaInv, MigratedInv, Migrated, Is
  <1>2. CASE DbUp \/ DbDown
    <2>1. UNCHANGED <<core, schema, oasis, container, check>>
      BY <1>2 DEF DbUp, DbDown
    <2>2. TypeOK'
      <3>1. TypeOK /\ MaxFaults \in Nat /\ faults \in 0 .. MaxFaults
        BY ImagesAssumption DEF Inv, TypeOK
      <3>2. /\ db' = TRUE \/ db' = FALSE
            /\ faults' = faults \/ (faults < MaxFaults /\ faults' = faults + 1)
        BY <1>2, Zenon DEF DbUp, DbDown
      <3>3. db' \in BOOLEAN
        BY <3>2
      <3>4. faults' \in 0 .. MaxFaults
        BY <3>1, <3>2
      <3> QED BY <2>1, <3>1, <3>3, <3>4 DEF TypeOK
    <2> QED BY <2>1, <2>2 DEF Inv, SchemaInv, MigratedInv, Migrated, Is
  <1>3. ASSUME NEW c \in Containers, Step(c) \/ Crash(c) \/ Returns(c) PROVE Inv'
    BY <1>3, StartKeeps, WaitKeeps, MigrateKeeps, HealthKeeps DEF Step
  <1>4. ASSUME NEW c \in Executes, Check(c) PROVE Inv'
    BY <1>4, CheckKeeps
  <1> QED BY <1>1, <1>2, <1>3, <1>4 DEF Next

-----------------------------------------------------------------------------
(* Theorems.                                                               *)

\* The invariant holds in every behaviour.
THEOREM Invariance == Spec => []Inv
PROOF
  <1> QED BY InvInit, InvStep, PTL DEF Spec

\* Type correctness of the start-up for any containers and images.
THEOREM TypeCorrect == Spec => []TypeOK
PROOF
  <1>1. Inv => TypeOK
    BY DEF Inv
  <1> QED BY <1>1, Invariance, PTL

\* However many containers migrate at the same time, an execute runs on all oasis
\* migrations of its image (run_migrations.sh:32-37).
THEOREM ExecutesAreMigrated == Spec => []ExecuteMigrated
PROOF
  <1>1. Inv => ExecuteMigrated
    <2> SUFFICES ASSUME Inv, NEW e \in Executes, Is(e, "running")
                 PROVE  schema /\ oasis >= OasisOf[e] /\ core >= CoreNeeded
      BY DEF ExecuteMigrated
    <2>1. Migrated(e) /\ SchemaInv /\ oasis \in Nat
      BY DEF Inv, MigratedInv, TypeOK
    <2>2. OasisOf[e] \in Nat \ {0}
      BY ImagesAssumption
    <2> QED BY <2>1, <2>2 DEF Migrated, SchemaInv
  <1> QED BY <1>1, Invariance, PTL

\* A container docker shows as healthy, even by a file of its former life, has the
\* schema of its image (Dockerfile:41).
THEOREM HealthyIsMigrated == Spec => []HealthyMeansMigrated
PROOF
  <1>1. Inv => HealthyMeansMigrated
    BY DEF Inv, MigratedInv, Migrated, HealthyMeansMigrated
  <1> QED BY <1>1, Invariance, PTL

\* What check_execute passes, whichever way, has run execute on the migrated database:
\* a failed migration never ends with the status 0 that would be handed on.
THEOREM PassedIsMigrated == Spec => []PassedMeansMigrated
PROOF
  <1>1. Inv => PassedMeansMigrated
    <2> SUFFICES ASSUME Inv, NEW e \in Executes, check[e] = "passed"
                 PROVE  /\ schema /\ oasis >= OasisOf[e] /\ core >= CoreNeeded
                        /\ container[e].file \/ Is(e, "returned")
      BY DEF PassedMeansMigrated
    <2>1. /\ container[e].file \/ Is(e, "returned")
          /\ Migrated(e) /\ SchemaInv /\ oasis \in Nat
      BY DEF Inv, MigratedInv, TypeOK
    <2>2. OasisOf[e] \in Nat \ {0}
      BY ImagesAssumption
    <2> QED BY <2>1, <2>2 DEF Migrated, SchemaInv
  <1> QED BY <1>1, Invariance, PTL
=============================================================================
