------------------------------ MODULE Ingestion ------------------------------
(***************************************************************************)
(* The ingestion pipeline: upload handlers and worker processes over one   *)
(* queue, one graph and one storage.                                       *)
(***************************************************************************)
EXTENDS UploadRoute, NFWorker

vars == <<job, dlq, graph, stored, req, run, handler, proc, crashes, faults>>

Init == QueueInit /\ UploadInit /\ WorkerInit

Next ==
  \/ UploadNext /\ UNCHANGED workerVars
  \/ WorkerNext /\ UNCHANGED req
  \/ \E k \in Key : (Promote(k) \/ EvictCompleted(k))
                    /\ UNCHANGED <<dlq, graph, stored, req, workerVars>>

Spec == Init /\ [][Next]_vars

(***************************************************************************)
(* Fairness.  The event loops of the workers run their continuations (weak *)
(* fairness on the runs and on the failure handlers), BullMQ promotes what *)
(* has waited out its backoff and hands waiting jobs out in order, so a    *)
(* waiting job is not overtaken for ever (strong fairness on taking it and *)
(* on finding it stalled), and a stopped worker is started again by its    *)
(* operator.                                                               *)
(***************************************************************************)
Fairness ==
  /\ \A s \in Slot : WF_vars(Progress(s) /\ UNCHANGED req)
  /\ \A k \in Key :
       /\ WF_vars(Promote(k) /\ UNCHANGED <<dlq, graph, stored, req, workerVars>>)
       /\ SF_vars(TakeAny(k) /\ UNCHANGED req)
       /\ SF_vars(StallDead(k) /\ UNCHANGED req)
       /\ WF_vars(Handle(k) /\ UNCHANGED req)
  /\ \A p \in Proc : WF_vars(Boot(p) /\ UNCHANGED req)
                     /\ WF_vars(Exit(p) /\ UNCHANGED req)

FairSpec == Spec /\ Fairness

-----------------------------------------------------------------------------
(* Properties *)

TypeOK == QueueTypeOK /\ UploadTypeOK /\ WorkerTypeOK

\* A client whose job reads `completed` finds the nota in the graph and its
\* XML in the storage, and no XML is stored for a nota the graph does not
\* have, across retries, lost locks and crashed workers (processNFe's order).
CompletedIsDurable ==
  /\ \A k \in Key : JobStatus(k) = "completed" => k \in stored
  /\ stored \subseteq graph

\* What an upload has enqueued never vanishes: every file whose queue.add has
\* resolved has a job, a dead letter or its XML stored, while the batch is
\* enqueued, after its 202, and also when a later file of it makes the answer
\* a 409, a 413 or a 500 (handleFailedJob writes the dead letter before it
\* removes the job, and keeps the job when that write fails).
AcceptedIsTracked ==
  \A r \in Request : \A i \in Added(r) : Tracked(req[r].batch[i].key)

\* A nota in the graph cannot be uploaded again (409), so when its XML did not
\* reach the storage something must still say so: a job or a dead letter.
HalfIngestedIsTracked == \A k \in graph : Tracked(k)

\* A dead letter is written for a job that is over: a job of the main queue with
\* the very payload it records has failed, so it is neither waiting nor delayed,
\* and no run holds its lock.  (A run that has lost its lock may still be at that
\* payload; its result is refused, and when it saves the XML after all the key is
\* ingested beside its dead letter, which NFLedger allows.)
DeadLetterIsFinal ==
  \A d \in dlq : job[d.key].origem = d.origem =>
    /\ job[d.key].state = "failed"
    /\ \A s \in Slot : ~Owns(s, d.key)

\* Without crashes and failed Redis calls no exhausted job is left behind in
\* the main queue: a handler is moving it, also while workers are shut down
\* gracefully (shutdownWorker awaits pendingFailures).
ExhaustedIsBeingMoved ==
  crashes = 0 /\ faults = 0 =>
    \A k \in Key : job[k].state = "failed" /\ Exhausted(job[k])
                     => handler[k].step # "none"

\* The ledger's view of one access key.
LedgerStatus(k) ==
  IF k \in stored THEN "ingested"
  ELSE IF Live(k) THEN "pending"
  ELSE IF job[k].state # "none" \/ DeadLettered(k) THEN "dead"
  ELSE "unknown"

Ledger == INSTANCE NFLedger WITH status <- [k \in Key |-> LedgerStatus(k)]

\* Every behaviour of the pipeline is one of the ledger: an enqueued nota is
\* never forgotten and an ingested one stays ingested.
ImplementsLedger == Ledger!Spec

\* Every job put in the queue is ingested or given up in the end: retries,
\* stalls and restarts do not go round for ever.
PendingIsSettled ==
  \A k \in Key : (LedgerStatus(k) = "pending") ~> (LedgerStatus(k) # "pending")

-----------------------------------------------------------------------------
(* The inductive invariant behind the safety properties: IngestionProofs     *)
(* proves that it is one.                                                    *)

\* A job has an owner exactly while it is active, has attempts left while it
\* is live, and carries the payload of an upload.
JobInv ==
  \A k \in Key :
    /\ job[k].owner \in Slot <=> job[k].state = "active"
    /\ Live(k) => job[k].attempts < MaxRetries
    /\ job[k].state # "none" => job[k].origem \in Request

\* How far a run has come is visible in the graph and in the storage.
RunInv ==
  \A s \in Slot :
    /\ run[s].stage = "idle" <=> run[s].key = NoKey
    /\ run[s].stage # "idle" => Tracked(run[s].key)
    /\ run[s].stage \in {"save", "return"} => run[s].key \in graph
    /\ run[s].stage = "return" => run[s].key \in stored

\* A handler works on a job that failed for good, which it removes only when
\* the key has a dead letter.
HandlerInv ==
  \A k \in Key :
    /\ handler[k].step # "none" => job[k].state = "failed" /\ Exhausted(job[k])
    /\ handler[k].step = "remove" => DeadLettered(k)

\* A handler inside one of the loops is at a file of its batch, and has enqueued
\* the files before it; it answers 202 when it has enqueued them all.
LoopInv ==
  \A r \in Request :
    /\ req[r].pc \in {"check", "enqueue", "add"} => req[r].pos \in 1..Len(req[r].batch)
    /\ req[r].pc \in {"idle", "check"} => req[r].enfileiradas = 0
    /\ req[r].pc \in {"enqueue", "add"} => req[r].enfileiradas = req[r].pos - 1
    /\ req[r].pc = "202" => req[r].enfileiradas = Len(req[r].batch)
    /\ req[r].enfileiradas <= Len(req[r].batch)

IInv ==
  /\ TypeOK
  /\ JobInv
  /\ RunInv
  /\ HandlerInv
  /\ LoopInv
  /\ CompletedIsDurable
  /\ AcceptedIsTracked
  /\ HalfIngestedIsTracked

-----------------------------------------------------------------------------
(* What the repository says of itself and the code does not do. *)

\* dlq.ts:30-33: a nota that is sent again and fails again gets a NEW record
\* in the dead-letter queue.  When the handler goes on to remove the job, the
\* payload of that job should be in a dead letter.
EveryFailureIsRecorded ==
  \A k \in Key : handler[k].step = "remove" =>
    \E d \in dlq : d.key = k /\ d.origem = job[k].origem
=============================================================================
