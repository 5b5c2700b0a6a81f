-------------------------- MODULE OperationsProofs --------------------------
(***************************************************************************)
(* The safety properties of Operations, for any number of replicas,        *)
(* outages, attempts and migration statements.                             *)
(***************************************************************************)
EXTENDS Operations, TLAPS

-----------------------------------------------------------------------------
(* The invariant is one of four parts.                                     *)

\* A run of the migrations has applied every statement before the next one.
MigrationsAreInOrder ==
  \A r \in Replica :
    /\ phase[r] = "migrating" => 1..(next[r] - 1) \subseteq schema
    /\ phase[r] \in Consuming => schema = 1..Statements

OutagesAreRemembered == Service \ up \subseteq fell

\* The key is as young as somebody's last heartbeat, and no older than the last
\* heartbeat of any replica that was not erased.
KeyIsTheLastHeartbeat ==
  /\ key # NoKey => \E r \in Replica : silence[r] <= key
  /\ \A r \in Replica \ erased : key <= silence[r]

IInv ==
  /\ TypeOK
  /\ MigrationsAreInOrder
  /\ OutagesAreRemembered
  /\ BucketIsLostByOutageOnly
  /\ KeyIsTheLastHeartbeat

\* The constants as numbers.
LEMMA Bounds ==
  /\ Attempts \in Nat /\ Attempts >= 1 /\ Statements \in Nat /\ Statements >= 1
  /\ BeatTTL \in Nat /\ BeatTTL >= 1 /\ MaxOutages \in Nat
  BY OperationsAssumption

\* The worker starts with no heartbeat, no statement applied and no outage (worker.ts).
LEMMA Initially == Init => IInv
<1> SUFFICES ASSUME Init PROVE IInv
  OBVIOUS
<1>1. TypeOK
  <2>1. /\ up \subseteq Service /\ fell \subseteq Service /\ outages \in 0..MaxOutages
        /\ schema \subseteq 1..Statements
        /\ phase \in [Replica -> {"off", "migrating"} \cup Consuming]
    BY Bounds DEF Init
  <2>2. attempt \in [Replica -> 1..Attempts] /\ next \in [Replica -> 1..Statements]
    BY Bounds DEF Init
  <2>3. beat \in [Replica -> BOOLEAN] /\ silence \in [Replica -> 0..Asleep] /\ key \in 0..NoKey
    BY Bounds DEF Init, NoKey, Asleep
  <2>4. /\ erased \subseteq Replica /\ bucket \in BOOLEAN
        /\ check \in [Replica -> {"unset", "head", "create", "ready", "rejected"}]
    BY DEF Init
  <2> QED
    BY <2>1, <2>2, <2>3, <2>4 DEF TypeOK
<1>2. MigrationsAreInOrder
  BY DEF Init, MigrationsAreInOrder, Consuming
<1>3. OutagesAreRemembered /\ BucketIsLostByOutageOnly
  BY DEF Init, OutagesAreRemembered, BucketIsLostByOutageOnly
<1>4. KeyIsTheLastHeartbeat
  BY Bounds DEF Init, KeyIsTheLastHeartbeat, NoKey, Asleep
<1> QED
  BY <1>1, <1>2, <1>3, <1>4 DEF IInv

-----------------------------------------------------------------------------
(* Steps                                                                   *)

\* A service that goes is remembered, and one that comes back disturbs nothing.
LEMMA ServicesKeep ==
  ASSUME IInv, NEW s \in Service, Outage(s) \/ Recovery(s)
  PROVE  IInv'
<1> USE Bounds
<1>1. TypeOK'
  <2>1. up' \subseteq Service /\ fell' \subseteq Service /\ outages' \in 0..MaxOutages
    BY DEF IInv, TypeOK, Outage, Recovery
  <2>2. UNCHANGED <<boot, phase, heartbeat, storage>>
    BY DEF Outage, Recovery
  <2> QED
    BY <2>1, <2>2 DEF IInv, TypeOK, boot, heartbeat, storage
<1>2. OutagesAreRemembered' /\ BucketIsLostByOutageOnly'
  BY DEF IInv, OutagesAreRemembered, BucketIsLostByOutageOnly, Outage, Recovery, storage
<1>3. MigrationsAreInOrder'
  BY DEF IInv, MigrationsAreInOrder, Outage, Recovery, boot
<1>4. KeyIsTheLastHeartbeat'
  BY DEF IInv, KeyIsTheLastHeartbeat, Outage, Recovery, heartbeat
<1> QED
  BY <1>1, <1>2, <1>3, <1>4 DEF IInv

\* runMigrations: the statements are applied in order, an attempt starts them
\* over, and only the last statement lets the process consume.
LEMMA MigrationsKeep ==
  ASSUME IInv, NEW r \in Replica, Start(r) \/ Migrate(r) \/ MigrationFails(r)
  PROVE  IInv'
<1> USE Bounds
<1>1. TypeOK'
  <2>1. CASE Start(r)
    BY <2>1 DEF IInv, TypeOK, Start, services, heartbeat, storage
  <2>2. CASE Migrate(r)
    <3>1. schema' \subseteq 1..Statements
      BY <2>2 DEF IInv, TypeOK, Migrate
    <3>2. next' \in [Replica -> 1..Statements]
      BY <2>2 DEF IInv, TypeOK, Migrate
    <3>3. phase' \in [Replica -> {"off", "migrating"} \cup Consuming]
      BY <2>2 DEF IInv, TypeOK, Migrate, Consuming
    <3>4. UNCHANGED <<services, attempt, heartbeat, storage>>
      BY <2>2 DEF Migrate
    <3> QED
      BY <3>1, <3>2, <3>3, <3>4 DEF IInv, TypeOK, services, heartbeat, storage
  <2>3. CASE MigrationFails(r)
    BY <2>3 DEF IInv, TypeOK, MigrationFails, AttemptFails, services, heartbeat, storage
  <2> QED
    BY <2>1, <2>2, <2>3
<1>2. MigrationsAreInOrder'
  <2> SUFFICES ASSUME NEW q \in Replica
               PROVE  /\ phase'[q] = "migrating" => 1..(next'[q] - 1) \subseteq schema'
                      /\ phase'[q] \in Consuming => schema' = 1..Statements
    BY DEF MigrationsAreInOrder
  <2>1. CASE Start(r)
    BY <2>1 DEF IInv, TypeOK, MigrationsAreInOrder, Start, Consuming
  <2>2. CASE Migrate(r)
    <3>1. 1..(next[r] - 1) \subseteq schema /\ next[r] \in 1..Statements /\ schema \subseteq 1..Statements
      BY <2>2 DEF IInv, TypeOK, MigrationsAreInOrder, Migrate
    <3>2. 1..next[r] \subseteq schema'
      BY <2>2, <3>1 DEF Migrate
    <3>3. CASE next[r] = Statements
      <4>1. schema' = 1..Statements
        BY <2>2, <3>1, <3>2, <3>3 DEF Migrate
      <4>2. next' = next /\ next[q] \in 1..Statements
        BY <2>2, <3>3 DEF IInv, TypeOK, Migrate
      <4> QED
        BY <4>1, <4>2
    <3>4. CASE next[r] # Statements
      <4>1. phase' = phase /\ next' = [next EXCEPT ![r] = @ + 1]
        BY <2>2, <3>4 DEF Migrate
      <4>2. phase[q] \in Consuming => schema' = 1..Statements
        BY <2>2, <3>1 DEF IInv, MigrationsAreInOrder, Migrate
      <4>3. CASE q = r
        BY <3>1, <3>2, <4>1, <4>2, <4>3 DEF IInv, TypeOK
      <4>4. CASE q # r
        BY <2>2, <4>1, <4>2, <4>4 DEF IInv, TypeOK, MigrationsAreInOrder, Migrate
      <4> QED
        BY <4>3, <4>4
    <3> QED
      BY <3>3, <3>4
  <2>3. CASE MigrationFails(r)
    BY <2>3 DEF IInv, TypeOK, MigrationsAreInOrder, MigrationFails, AttemptFails, Consuming
  <2> QED
    BY <2>1, <2>2, <2>3
<1>3. OutagesAreRemembered' /\ BucketIsLostByOutageOnly'
  BY DEF IInv, OutagesAreRemembered, BucketIsLostByOutageOnly, Start, Migrate, MigrationFails, AttemptFails,
         services, storage
<1>4. KeyIsTheLastHeartbeat'
  BY DEF IInv, KeyIsTheLastHeartbeat, Start, Migrate, MigrationFails, AttemptFails, heartbeat
<1> QED
  BY <1>1, <1>2, <1>3, <1>4 DEF IInv

\* A heartbeat renews the key, and a shutdown erases everybody's.
LEMMA HeartbeatsKeep ==
  ASSUME IInv, NEW r \in Replica, WriteHeartbeat(r) \/ Shutdown(r)
  PROVE  IInv'
<1> USE Bounds
<1>1. TypeOK'
  <2>1. CASE WriteHeartbeat(r)
    <3>1. /\ beat' \in [Replica -> BOOLEAN] /\ silence' \in [Replica -> 0..Asleep]
          /\ key' \in 0..NoKey /\ erased' \subseteq Replica
      BY <2>1 DEF IInv, TypeOK, WriteHeartbeat, NoKey, Asleep
    <3>2. UNCHANGED <<services, boot, phase, storage>>
      BY <2>1 DEF WriteHeartbeat
    <3> QED
      BY <3>1, <3>2 DEF IInv, TypeOK, services, boot, storage
  <2>2. CASE Shutdown(r)
    <3>1. /\ phase' \in [Replica -> {"off", "migrating"} \cup Consuming]
          /\ key' \in 0..NoKey /\ erased' \subseteq Replica
      BY <2>2 DEF IInv, TypeOK, Shutdown, NoKey, Consuming
    <3>2. UNCHANGED <<services, boot, beat, silence, storage>>
      BY <2>2 DEF Shutdown
    <3> QED
      BY <3>1, <3>2 DEF IInv, TypeOK, services, boot, storage
  <2> QED
    BY <2>1, <2>2
<1>2. MigrationsAreInOrder'
  BY DEF IInv, TypeOK, MigrationsAreInOrder, WriteHeartbeat, Shutdown, boot, Consuming
<1>3. OutagesAreRemembered' /\ BucketIsLostByOutageOnly'
  BY DEF IInv, OutagesAreRemembered, BucketIsLostByOutageOnly, WriteHeartbeat, Shutdown, services, storage
<1>4. KeyIsTheLastHeartbeat'
  <2>1. CASE WriteHeartbeat(r)
    BY <2>1 DEF IInv, TypeOK, KeyIsTheLastHeartbeat, WriteHeartbeat, Asleep
  <2>2. CASE Shutdown(r)
    BY <2>2 DEF KeyIsTheLastHeartbeat, Shutdown
  <2> QED
    BY <2>1, <2>2
<1> QED
  BY <1>1, <1>2, <1>3, <1>4 DEF IInv

\* A process that hangs or ends leaves the key to its TTL.
LEMMA ProcessesKeep ==
  ASSUME IInv, NEW r \in Replica, Hang(r) \/ Exit(r)
  PROVE  IInv'
<1>1. TypeOK'
  BY DEF IInv, TypeOK, Hang, Exit, services, boot, heartbeat, storage, Consuming
<1>2. MigrationsAreInOrder'
  BY DEF IInv, TypeOK, MigrationsAreInOrder, Hang, Exit, boot, Consuming
<1>3. OutagesAreRemembered' /\ BucketIsLostByOutageOnly'
  BY DEF IInv, TypeOK, OutagesAreRemembered, BucketIsLostByOutageOnly, Hang, Exit, services, storage
<1>4. KeyIsTheLastHeartbeat'
  BY DEF IInv, KeyIsTheLastHeartbeat, Hang, Exit, heartbeat
<1> QED
  BY <1>1, <1>2, <1>3, <1>4 DEF IInv

\* A tick ages the key and every heartbeat alike.
LEMMA TickKeeps == IInv /\ Tick => IInv'
<1> USE Bounds
<1> SUFFICES ASSUME IInv, Tick PROVE IInv'
  OBVIOUS
<1>1. TypeOK'
  <2>1. beat' \in [Replica -> BOOLEAN]
    BY DEF Tick
  <2>2. silence' \in [Replica -> 0..Asleep]
    BY DEF IInv, TypeOK, Tick, Asleep
  <2>3. key' \in 0..NoKey
    BY DEF IInv, TypeOK, Tick, NoKey
  <2>4. UNCHANGED <<services, boot, phase, erased, storage>>
    BY DEF Tick
  <2> QED
    BY <2>1, <2>2, <2>3, <2>4 DEF IInv, TypeOK, services, boot, storage
<1>2. MigrationsAreInOrder'
  BY DEF IInv, MigrationsAreInOrder, Tick, boot
<1>3. OutagesAreRemembered' /\ BucketIsLostByOutageOnly'
  BY DEF IInv, OutagesAreRemembered, BucketIsLostByOutageOnly, Tick, services, storage
<1>4. KeyIsTheLastHeartbeat'
  <2>1. key' # NoKey => \E r \in Replica : silence'[r] <= key'
    BY DEF IInv, TypeOK, KeyIsTheLastHeartbeat, Tick, NoKey, Asleep
  <2>2. \A r \in Replica \ erased' : key' <= silence'[r]
    BY DEF IInv, TypeOK, KeyIsTheLastHeartbeat, Tick, NoKey, Asleep
  <2> QED
    BY <2>1, <2>2 DEF KeyIsTheLastHeartbeat
<1> QED
  BY <1>1, <1>2, <1>3, <1>4 DEF IInv

\* garantirBucket: the promise is rejected only where a request to the storage failed.
LEMMA SavesKeep ==
  ASSUME IInv, NEW r \in Replica, FirstSave(r) \/ HeadBucket(r) \/ CreateBucket(r)
  PROVE  IInv'
<1>1. TypeOK'
  BY DEF IInv, TypeOK, FirstSave, HeadBucket, CreateBucket, SetCheck, services, boot, heartbeat
<1>2. MigrationsAreInOrder'
  BY DEF IInv, MigrationsAreInOrder, FirstSave, HeadBucket, CreateBucket, boot
<1>3. OutagesAreRemembered' /\ BucketIsLostByOutageOnly'
  BY DEF IInv, TypeOK, Service, OutagesAreRemembered, BucketIsLostByOutageOnly, FirstSave, HeadBucket,
         CreateBucket, SetCheck, services
<1>4. KeyIsTheLastHeartbeat'
  BY DEF IInv, KeyIsTheLastHeartbeat, FirstSave, HeadBucket, CreateBucket, heartbeat
<1> QED
  BY <1>1, <1>2, <1>3, <1>4 DEF IInv

\* The invariant is inductive.
LEMMA StepsKeep == IInv /\ [Next]_vars => IInv'
<1> SUFFICES ASSUME IInv, [Next]_vars PROVE IInv'
  OBVIOUS
<1>1. ASSUME NEW s \in Service, Outage(s) \/ Recovery(s) PROVE IInv'
  BY <1>1, ServicesKeep
<1>2. ASSUME NEW r \in Replica, Start(r) \/ Migrate(r) \/ MigrationFails(r) PROVE IInv'
  BY <1>2, MigrationsKeep
<1>3. ASSUME NEW r \in Replica, WriteHeartbeat(r) \/ Shutdown(r) PROVE IInv'
  BY <1>3, HeartbeatsKeep
<1>4. ASSUME NEW r \in Replica, Hang(r) \/ Exit(r) PROVE IInv'
  BY <1>4, ProcessesKeep
<1>5. ASSUME NEW r \in Replica, FirstSave(r) \/ HeadBucket(r) \/ CreateBucket(r) PROVE IInv'
  BY <1>5, SavesKeep
<1>6. CASE Tick
  BY <1>6, TickKeeps
<1>7. CASE UNCHANGED vars
  BY <1>7 DEF vars, IInv, TypeOK, MigrationsAreInOrder, OutagesAreRemembered, BucketIsLostByOutageOnly,
              KeyIsTheLastHeartbeat
<1> QED
  BY <1>1, <1>2, <1>3, <1>4, <1>5, <1>6, <1>7 DEF Next

-----------------------------------------------------------------------------
(* Theorems                                                                *)

\* IInv holds in every state of the workers and their services.
THEOREM OperationsInvariance == Spec => []IInv
  BY Initially, StepsKeep, PTL DEF Spec

\* No process takes jobs on a graph that lacks a constraint or an index, for any number of
\* processes that migrate at once and outages of Neo4j (migrations.ts:49-71).
THEOREM ConsumersMigrated == Spec => []ConsumersAreMigrated
<1>1. IInv => ConsumersAreMigrated
  BY DEF IInv, MigrationsAreInOrder, ConsumersAreMigrated
<1> QED
  BY <1>1, OperationsInvariance, PTL

\* A process gives up on its bucket only after the storage failed (s3.storage.ts:56-60).
THEOREM BucketLostByOutage == Spec => []BucketIsLostByOutageOnly
<1>1. IInv => BucketIsLostByOutageOnly
  BY DEF IInv
<1> QED
  BY <1>1, OperationsInvariance, PTL

\* The shared heartbeat key is somebody's, and hides only who was erased (worker.ts:137-150).
THEOREM HeartbeatSomeones == Spec => []HeartbeatIsSomeones
<1>1. IInv => HeartbeatIsSomeones
  <2> SUFFICES ASSUME IInv PROVE HeartbeatIsSomeones
    OBVIOUS
  <2>1. ContainerIsHealthy => \E r \in Replica : silence[r] < BeatTTL
    BY Bounds DEF IInv, TypeOK, KeyIsTheLastHeartbeat, ContainerIsHealthy, NoKey, Asleep
  <2>2. "redis" \in up /\ ~ContainerIsHealthy => \A r \in Replica \ erased : silence[r] >= BeatTTL
    BY Bounds DEF IInv, TypeOK, KeyIsTheLastHeartbeat, ContainerIsHealthy, NoKey, Asleep
  <2> QED
    BY <2>1, <2>2 DEF HeartbeatIsSomeones
<1> QED
  BY <1>1, OperationsInvariance, PTL
=============================================================================
