----------------------------- MODULE Operations -----------------------------
(***************************************************************************)
(* The worker processes as their operators see them: startWorker and       *)
(* shutdownWorker of worker.ts, runMigrations of the graph package,        *)
(* healthcheck.ts and the bucket check of s3.storage.ts, over services     *)
(* that come and go.  What a worker does with a job is NFWorker.           *)
(*                                                                         *)
(* A tick is HEARTBEAT_INTERVAL_MS: in every tick each worker that is not  *)
(* hung and reaches Redis writes one heartbeat.  A command to Redis waits  *)
(* while Redis is down (maxRetriesPerRequest is null) and never rejects.   *)
(***************************************************************************)
EXTENDS Naturals

CONSTANTS Replica,
          Attempts,    \* attempts of runMigrations
          Statements,  \* how many MIGRATIONS there are
          BeatTTL,     \* HEARTBEAT_TTL_SECONDS in ticks
          MaxOutages   \* bound of the outages

ASSUME OperationsAssumption ==
  /\ {Attempts, Statements, BeatTTL} \subseteq Nat \ {0}
  /\ MaxOutages \in Nat

VARIABLES up,       \* the services that are reachable
          fell,     \* the services that were ever unreachable
          outages,
          schema,   \* statements of MIGRATIONS the graph has had applied
          phase,    \* of each replica
          attempt,  \* of its migrations
          next,     \* the statement its migrations run next
          beat,     \* whether it has written its heartbeat in this tick
          silence,  \* ticks since it wrote one
          key,      \* age of worker:heartbeat, NoKey when it is not there
          erased,   \* replicas whose last heartbeat a shutdown deleted
          bucket,   \* whether the bucket exists
          check     \* bucketGarantido of each replica

vars == <<up, fell, outages, schema, phase, attempt, next, beat, silence, key, erased, bucket, check>>
services == <<up, fell, outages>>
boot == <<schema, attempt, next>>
heartbeat == <<beat, silence, key, erased>>
storage == <<bucket, check>>

Service == {"neo4j", "redis", "storage"}
NoKey == BeatTTL
Asleep == BeatTTL + 1
Consuming == {"running", "hung", "closing"}

TypeOK ==
  /\ up \subseteq Service /\ fell \subseteq Service /\ outages \in 0..MaxOutages
  /\ schema \subseteq 1..Statements
  /\ phase \in [Replica -> {"off", "migrating"} \cup Consuming]
  /\ attempt \in [Replica -> 1..Attempts]
  /\ next \in [Replica -> 1..Statements]
  /\ beat \in [Replica -> BOOLEAN]
  /\ silence \in [Replica -> 0..Asleep]
  /\ key \in 0..NoKey
  /\ erased \subseteq Replica
  /\ bucket \in BOOLEAN
  /\ check \in [Replica -> {"unset", "head", "create", "ready", "rejected"}]

Init ==
  /\ up = Service /\ fell = {} /\ outages = 0
  /\ schema = {}
  /\ phase = [r \in Replica |-> "off"]
  /\ attempt = [r \in Replica |-> 1]
  /\ next = [r \in Replica |-> 1]
  /\ beat = [r \in Replica |-> FALSE]
  /\ silence = [r \in Replica |-> Asleep]
  /\ key = NoKey
  /\ erased = {}
  /\ bucket = FALSE
  /\ check = [r \in Replica |-> "unset"]

-----------------------------------------------------------------------------
(* Services *)

Outage(s) ==
  /\ s \in up
  /\ outages < MaxOutages
  /\ up' = up \ {s}
  /\ fell' = fell \cup {s}
  /\ outages' = outages + 1
  /\ UNCHANGED <<boot, phase, heartbeat, storage>>

Recovery(s) ==
  /\ s \notin up
  /\ up' = up \cup {s}
  /\ UNCHANGED <<fell, outages, boot, phase, heartbeat, storage>>

-----------------------------------------------------------------------------
(* A worker process *)

Start(r) ==
  /\ phase[r] = "off"
  /\ phase' = [phase EXCEPT ![r] = "migrating"]
  /\ attempt' = [attempt EXCEPT ![r] = 1]
  /\ next' = [next EXCEPT ![r] = 1]
  /\ UNCHANGED <<services, schema, heartbeat, storage>>

Migrate(r) ==
  /\ phase[r] = "migrating"
  /\ "neo4j" \in up
  /\ schema' = schema \cup {next[r]}
  /\ IF next[r] = Statements
       THEN phase' = [phase EXCEPT ![r] = "running"] /\ UNCHANGED next
       ELSE next' = [next EXCEPT ![r] = @ + 1] /\ UNCHANGED phase
  /\ UNCHANGED <<services, attempt, heartbeat, storage>>

AttemptFails(r, last) ==
  /\ phase[r] = "migrating"
  /\ "neo4j" \notin up
  /\ next' = [next EXCEPT ![r] = 1]
  /\ IF attempt[r] = Attempts
       THEN phase' = [phase EXCEPT ![r] = last] /\ UNCHANGED attempt
       ELSE attempt' = [attempt EXCEPT ![r] = @ + 1] /\ UNCHANGED phase
  /\ UNCHANGED <<services, schema, heartbeat, storage>>

\* Mutant of MigrationFails: the last failure is not thrown.
MigrationFailsQuietly(r) == AttemptFails(r, "running")

\* The delay, and the attempts start the statements over.
MigrationFails(r) == AttemptFails(r, "off")

\* Mutant of WriteHeartbeat: the key that is there is not renewed (SET NX).
WriteHeartbeatOnce(r) ==
  /\ phase[r] = "running"
  /\ "redis" \in up
  /\ ~beat[r]
  /\ beat' = [beat EXCEPT ![r] = TRUE]
  /\ silence' = [silence EXCEPT ![r] = 0]
  /\ key' = IF key = NoKey THEN 0 ELSE key
  /\ erased' = erased \ {r}
  /\ UNCHANGED <<services, boot, phase, storage>>

WriteHeartbeat(r) ==
  /\ phase[r] = "running"
  /\ "redis" \in up
  /\ ~beat[r]
  /\ beat' = [beat EXCEPT ![r] = TRUE]
  /\ silence' = [silence EXCEPT ![r] = 0]
  /\ key' = 0
  /\ erased' = erased \ {r}
  /\ UNCHANGED <<services, boot, phase, storage>>

\* The event loop is blocked, and runs on.
Hang(r) ==
  /\ \/ phase[r] = "running" /\ phase' = [phase EXCEPT ![r] = "hung"]
     \/ phase[r] = "hung" /\ phase' = [phase EXCEPT ![r] = "running"]
  /\ UNCHANGED <<services, boot, heartbeat, storage>>

\* SIGTERM: the timer stops and the key, whoever wrote it last, is deleted.
Shutdown(r) ==
  /\ phase[r] = "running"
  /\ "redis" \in up
  /\ phase' = [phase EXCEPT ![r] = "closing"]
  /\ key' = NoKey
  /\ erased' = Replica
  /\ UNCHANGED <<services, boot, beat, silence, storage>>

\* The end of a shutdown, a second signal or a crash: the process is gone,
\* and with it what it kept in memory.
Exit(r) ==
  /\ phase[r] # "off"
  /\ phase' = [phase EXCEPT ![r] = "off"]
  /\ check' = [check EXCEPT ![r] = "unset"]
  /\ beat' = [beat EXCEPT ![r] = FALSE]
  /\ UNCHANGED <<services, boot, silence, key, erased, bucket>>

Tick ==
  /\ \A r \in Replica : phase[r] = "running" /\ "redis" \in up => beat[r]
  /\ beat' = [r \in Replica |-> FALSE]
  /\ silence' = [r \in Replica |-> IF silence[r] = Asleep THEN Asleep ELSE silence[r] + 1]
  /\ key' = IF key = NoKey THEN NoKey ELSE key + 1
  /\ UNCHANGED <<services, boot, phase, erased, storage>>

-----------------------------------------------------------------------------
(* garantirBucket, of the first save of a process *)

SetCheck(r, c) == check' = [check EXCEPT ![r] = c]

FirstSave(r) ==
  /\ phase[r] \in {"running", "closing"}
  /\ check[r] = "unset"
  /\ SetCheck(r, "head")
  /\ UNCHANGED <<services, boot, phase, heartbeat, bucket>>

HeadBucket(r) ==
  /\ check[r] = "head"
  /\ SetCheck(r, IF "storage" \in up /\ bucket THEN "ready" ELSE "create")
  /\ UNCHANGED <<services, boot, phase, heartbeat, bucket>>

\* Mutant of CreateBucket: that another process created it is an error.
CreateBucketAlone(r) ==
  /\ check[r] = "create"
  /\ SetCheck(r, IF "storage" \in up /\ ~bucket THEN "ready" ELSE "rejected")
  /\ bucket' = (bucket \/ "storage" \in up)
  /\ UNCHANGED <<services, boot, phase, heartbeat>>

\* The rejected promise stays: every later save of the process fails.
CreateBucket(r) ==
  /\ check[r] = "create"
  /\ SetCheck(r, IF "storage" \in up THEN "ready" ELSE "rejected")
  /\ bucket' = (bucket \/ "storage" \in up)
  /\ UNCHANGED <<services, boot, phase, heartbeat>>

-----------------------------------------------------------------------------

Next ==
  \/ \E s \in Service : Outage(s) \/ Recovery(s)
  \/ \E r \in Replica : \/ Start(r) \/ Migrate(r) \/ MigrationFails(r)
                        \/ WriteHeartbeat(r) \/ Hang(r) \/ Shutdown(r) \/ Exit(r)
                        \/ FirstSave(r) \/ HeadBucket(r) \/ CreateBucket(r)
  \/ Tick

Spec == Init /\ [][Next]_vars

-----------------------------------------------------------------------------

\* healthcheck.ts: exit 0.  With Redis down the GET waits past the timeout.
ContainerIsHealthy == "redis" \in up /\ key # NoKey

\* Containers read healthy only while some worker has written within the
\* TTL, and a worker that has is read as dead only where a shutdown,
\* its own or another's, deleted the key they share (worker.ts:142).  That a hung
\* replica is read as healthy while another one writes is not excluded.
HeartbeatIsSomeones ==
  /\ ContainerIsHealthy => \E r \in Replica : silence[r] < BeatTTL
  /\ "redis" \in up /\ ~ContainerIsHealthy
       => \A r \in Replica \ erased : phase[r] \in Consuming \ {"closing"} => silence[r] >= BeatTTL

\* A worker takes jobs only on a graph that has every constraint and index,
\* however Neo4j comes and goes while several processes migrate at once
\* (migrations.ts:49-71).
ConsumersAreMigrated ==
  \A r \in Replica : phase[r] \in Consuming => schema = 1..Statements

\* A process gives up on its bucket for good only if the storage failed: the
\* race of two processes to create it is no failure (s3.storage.ts:56-60).
BucketIsLostByOutageOnly ==
  \A r \in Replica : check[r] = "rejected" => "storage" \in fell
=============================================================================
