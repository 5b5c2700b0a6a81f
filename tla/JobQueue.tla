------------------------------ MODULE JobQueue ------------------------------
(***************************************************************************)
(* The durable state the ingestion pipeline is built on, shared by the     *)
(* upload route (UploadRoute) and by the worker processes (NFWorker):      *)
(*                                                                         *)
(*   job     the main BullMQ queue `nf-processing`, one job per access key *)
(*           because enqueueNFe uses the chaveAcesso as jobId              *)
(*   dlq     the dead-letter queue `nf-processing-dlq`                     *)
(*   graph   the access keys getInvoice finds in Neo4j                     *)
(*   stored  the access keys whose XML is in the storage                   *)
(*                                                                         *)
(* BullMQ itself is not part of the repository.  Its operators are         *)
(* modelled from how packages/worker/src uses them and from the job        *)
(* options set there: attempts, backoff, removeOnComplete, removeOnFail.   *)
(***************************************************************************)
EXTENDS Naturals

CONSTANTS Key,         \* access keys of the notas fiscais
          Request,     \* upload requests; also names the payload they carry
          Slot,        \* concurrency slots of all worker processes
          MaxRetries,  \* JOB_MAX_RETRIES
          MaxStalled,  \* maxStalledCount of BullMQ (1 unless configured)
          NoSlot,      \* "no owner"
          NoRequest    \* "no payload"

ASSUME RetriesAssumption == MaxRetries \in Nat \ {0}
ASSUME StalledAssumption == MaxStalled \in Nat
ASSUME NoSlotAssumption == NoSlot \notin Slot
ASSUME NoRequestAssumption == NoRequest \notin Request

VARIABLES job, dlq, graph, stored

queueVars == <<job, dlq, graph, stored>>

JobState == {"none", "waiting", "active", "delayed", "failed", "completed"}

\* origem stands for job.data: which upload the XML in the payload came from.
Job == [state    : JobState,
        attempts : 0..MaxRetries,
        stalls   : 0..MaxStalled,
        owner    : Slot \cup {NoSlot},
        origem   : Request \cup {NoRequest}]

\* A dead letter keeps the payload and the attempts of the job it came from.
DeadLetterRecord == [key : Key, tentativas : 0..MaxRetries, origem : Request]

NoJob == [state |-> "none", attempts |-> 0, stalls |-> 0,
          owner |-> NoSlot, origem |-> NoRequest]

NewJob(r) == [state |-> "waiting", attempts |-> 0, stalls |-> 0,
              owner |-> NoSlot, origem |-> r]

QueueTypeOK ==
  /\ job \in [Key -> Job]
  /\ dlq \subseteq DeadLetterRecord
  /\ graph \subseteq Key
  /\ stored \subseteq Key

QueueInit ==
  /\ job = [k \in Key |-> NoJob]
  /\ dlq = {}
  /\ graph = {}
  /\ stored = {}

-----------------------------------------------------------------------------
(* Queue.add: an id that exists in ANY state makes the call a silent no-op. *)
AddJob(k, r) ==
  job' = IF job[k].state = "none"
         THEN [job EXCEPT ![k] = NewJob(r)]
         ELSE job

\* A worker slot takes the lock of a waiting job, and completes the job it ran.
Taken(j, s) == [j EXCEPT !.state = "active", !.owner = s]
Completed(j) == [j EXCEPT !.state = "completed", !.owner = NoSlot]

\* Mutants of FailedOnce: the attempt is not counted; removeOnFail drops the job after its
\* last attempt.
FailedUncounted(j) == [j EXCEPT !.owner = NoSlot, !.state = "delayed"]
FailedAndDropped(j) ==
  IF j.attempts + 1 < MaxRetries
  THEN [j EXCEPT !.attempts = @ + 1, !.owner = NoSlot, !.state = "delayed"]
  ELSE NoJob

\* An attempt threw: back off while attempts remain, otherwise `failed`.
FailedOnce(j) ==
  [j EXCEPT !.attempts = @ + 1,
            !.owner = NoSlot,
            !.state = IF j.attempts + 1 < MaxRetries THEN "delayed" ELSE "failed"]

\* The backoff of a delayed job is over.
Promoted(j) == [j EXCEPT !.state = "waiting"]

\* The lock of an active job expired: BullMQ puts it back MaxStalled times.
Requeued(j) ==
  [j EXCEPT !.state = "waiting", !.stalls = @ + 1, !.owner = NoSlot]

\* ... and fails it the next time, with or without counting the attempt.
StalledOut(j, a) ==
  [j EXCEPT !.state = "failed", !.attempts = a, !.owner = NoSlot]

\* Mutant of Exhausted: every failure is moved, also one that will be retried.
AlwaysExhausted(j) == TRUE

\* handleFailedJob goes on only when attemptsMade >= maxRetries.
Exhausted(j) == j.attempts >= MaxRetries

\* The jobId of a dead letter is dlq:<jobId>:<tentativas>, and an id that
\* exists makes the add a silent no-op, exactly as in the main queue.
MoveToDeadLetter(k) ==
  dlq' = IF \E d \in dlq : d.key = k /\ d.tentativas = job[k].attempts
         THEN dlq
         ELSE dlq \cup {[key |-> k, tentativas |-> job[k].attempts,
                         origem |-> job[k].origem]}

Promote(k) ==
  /\ job[k].state = "delayed"
  /\ job' = [job EXCEPT ![k] = Promoted(@)]

\* Mutant of EvictCompleted: failed jobs are dropped as well.
EvictFinished(k) ==
  /\ job[k].state \in {"completed", "failed"}
  /\ job' = [job EXCEPT ![k] = NoJob]

\* removeOnComplete keeps the last completed jobs and drops the older ones.
EvictCompleted(k) ==
  /\ job[k].state = "completed"
  /\ job' = [job EXCEPT ![k] = NoJob]

-----------------------------------------------------------------------------
Live(k) == job[k].state \in {"waiting", "active", "delayed"}

DeadLettered(k) == \E d \in dlq : d.key = k

\* What is left of an upload that was accepted once: a job, a dead letter or
\* the stored XML.
Tracked(k) == job[k].state # "none" \/ DeadLettered(k) \/ k \in stored
=============================================================================
