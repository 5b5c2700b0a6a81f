------------------------------ MODULE NFWorker ------------------------------
(***************************************************************************)
(* The worker processes of packages/worker: the BullMQ Worker of           *)
(* startWorker running processNFe in its concurrency slots, the `failed`   *)
(* handler that moves an exhausted job to the dead-letter queue, and the   *)
(* graceful and the forced shutdown.                                       *)
(*                                                                         *)
(* processNFe is cut at its durable effects: the commit of mergeInvoice    *)
(* and the end of storage.save.  An exception may leave it before, between *)
(* and after them (validation, Neo4j, storage, updateProgress).            *)
(***************************************************************************)
EXTENDS JobQueue

CONSTANTS Proc,       \* worker processes (WORKER_REPLICAS containers)
          ProcOf,     \* the process a concurrency slot belongs to
          NoProc,     \* "no process"
          NoKey,      \* "no job in this slot"
          MaxCrashes, \* bound: process crashes and forced exits
          MaxFaults   \* bound: Redis calls of the failure handler that reject

ASSUME ProcOfAssumption == ProcOf \in [Slot -> Proc]
ASSUME NoProcAssumption == NoProc \notin Proc
ASSUME NoKeyAssumption == NoKey \notin Key
ASSUME BoundsAssumption == MaxCrashes \in Nat /\ MaxFaults \in Nat

VARIABLES run,      \* what each slot executes
          handler,  \* the handleFailedJob call in flight for a job, if any
          proc,     \* up, closing (graceful shutdown) or down
          crashes,  \* crashes so far
          faults    \* rejected Redis calls of the handler so far

workerVars == <<run, handler, proc, crashes, faults>>

Stage == {"idle", "merge", "save", "return"}
HandlerStep == {"none", "dlq", "remove"}

Idle == [key |-> NoKey, stage |-> "idle"]
NoHandler == [proc |-> NoProc, step |-> "none"]

WorkerTypeOK ==
  /\ run \in [Slot -> [key : Key \cup {NoKey}, stage : Stage]]
  /\ handler \in [Key -> [proc : Proc \cup {NoProc}, step : HandlerStep]]
  /\ proc \in [Proc -> {"up", "closing", "down"}]
  /\ crashes \in 0..MaxCrashes
  /\ faults \in 0..MaxFaults

WorkerInit ==
  /\ run = [s \in Slot |-> Idle]
  /\ handler = [k \in Key |-> NoHandler]
  /\ proc = [p \in Proc |-> "up"]
  /\ crashes = 0
  /\ faults = 0

\* Slot s is executing job k and still holds its lock.
Owns(s, k) == s \in Slot /\ job[k].owner = s /\ run[s].key = k

-----------------------------------------------------------------------------
(* processNFe *)

Take(s, k) ==
  /\ proc[ProcOf[s]] = "up"
  /\ run[s] = Idle
  /\ job[k].state = "waiting"
  /\ job' = [job EXCEPT ![k] = Taken(@, s)]
  /\ run' = [run EXCEPT ![s] = [key |-> k, stage |-> "merge"]]
  /\ UNCHANGED <<dlq, graph, stored, handler, proc, crashes, faults>>

\* Mutant of Merge: the run returns without saving the XML.
MergeWithoutSave(s) ==
  /\ run[s].stage = "merge"
  /\ graph' = graph \cup {run[s].key}
  /\ run' = [run EXCEPT ![s].stage = "return"]
  /\ UNCHANGED <<job, dlq, stored, handler, proc, crashes, faults>>

Merge(s) ==
  /\ run[s].stage = "merge"
  /\ graph' = graph \cup {run[s].key}
  /\ run' = [run EXCEPT ![s].stage = "save"]
  /\ UNCHANGED <<job, dlq, stored, handler, proc, crashes, faults>>

Save(s) ==
  /\ run[s].stage = "save"
  /\ stored' = stored \cup {run[s].key}
  /\ run' = [run EXCEPT ![s].stage = "return"]
  /\ UNCHANGED <<job, dlq, graph, handler, proc, crashes, faults>>

\* BullMQ refuses the result of a run that has lost its lock.
Complete(s) ==
  LET k == run[s].key IN
  /\ run[s].stage = "return"
  /\ job' = IF Owns(s, k)
            THEN [job EXCEPT ![k] = Completed(@)]
            ELSE job
  /\ run' = [run EXCEPT ![s] = Idle]
  /\ UNCHANGED <<dlq, graph, stored, handler, proc, crashes, faults>>

\* Mutant of StartHandler: the job is removed before the dead letter is written.
StartAtRemove(k, p, j) ==
  handler' = IF Exhausted(j)
             THEN [handler EXCEPT ![k] = [proc |-> p, step |-> "remove"]]
             ELSE handler

\* handleFailedJob starts for the failure of job j of key k seen by process p;
\* it returns at once unless the attempts are exhausted.
StartHandler(k, p, j) ==
  handler' = IF Exhausted(j)
             THEN [handler EXCEPT ![k] = [proc |-> p, step |-> "dlq"]]
             ELSE handler

Throw(s) ==
  LET k == run[s].key IN
  /\ run[s].stage # "idle"
  /\ IF Owns(s, k)
     THEN /\ job' = [job EXCEPT ![k] = FailedOnce(@)]
          /\ StartHandler(k, ProcOf[s], FailedOnce(job[k]))
     ELSE UNCHANGED <<job, handler>>
  /\ run' = [run EXCEPT ![s] = Idle]
  /\ UNCHANGED <<dlq, graph, stored, proc, crashes, faults>>

\* The stalled check of a live worker finds the lock of k expired: its slot
\* died, or is alive but did not renew it and goes on without the lock.
Stall(k) ==
  /\ job[k].state = "active"
  /\ \E p \in Proc :
       /\ proc[p] = "up"
       /\ IF job[k].stalls < MaxStalled
          THEN job' = [job EXCEPT ![k] = Requeued(@)] /\ UNCHANGED handler
          ELSE \E a \in {job[k].attempts, job[k].attempts + 1} :
                 /\ job' = [job EXCEPT ![k] = StalledOut(@, a)]
                 /\ StartHandler(k, p, StalledOut(job[k], a))
  /\ UNCHANGED <<dlq, graph, stored, run, proc, crashes, faults>>

-----------------------------------------------------------------------------
(* handleFailedJob: the dead letter first, the removal after it. *)

DeadLetter(k) ==
  /\ handler[k].step = "dlq"
  /\ MoveToDeadLetter(k)
  /\ handler' = [handler EXCEPT ![k].step = "remove"]
  /\ UNCHANGED <<job, graph, stored, run, proc, crashes, faults>>

Remove(k) ==
  /\ handler[k].step = "remove"
  /\ job' = [job EXCEPT ![k] = NoJob]
  /\ handler' = [handler EXCEPT ![k] = NoHandler]
  /\ UNCHANGED <<dlq, graph, stored, run, proc, crashes, faults>>

\* Mutant of HandlerFault: a dead letter that was not written does not stop the
\* handler from removing the job.
FaultGoesOn(k) ==
  /\ handler[k].step # "none"
  /\ faults < MaxFaults
  /\ faults' = faults + 1
  /\ handler' = [handler EXCEPT ![k] =
                    IF @.step = "dlq" THEN [@ EXCEPT !.step = "remove"] ELSE NoHandler]
  /\ UNCHANGED <<queueVars, run, proc, crashes>>

\* Either call rejects: logged and swallowed, the job stays `failed`.
HandlerFault(k) ==
  /\ handler[k].step # "none"
  /\ faults < MaxFaults
  /\ faults' = faults + 1
  /\ handler' = [handler EXCEPT ![k] = NoHandler]
  /\ UNCHANGED <<queueVars, run, proc, crashes>>

-----------------------------------------------------------------------------
(* Process lifecycle *)

SlotsOf(p) == {s \in Slot : ProcOf[s] = p}
HandlersOf(p) == {k \in Key : handler[k].proc = p}

\* First SIGTERM/SIGINT: stop taking jobs.
Shutdown(p) ==
  /\ proc[p] = "up"
  /\ proc' = [proc EXCEPT ![p] = "closing"]
  /\ UNCHANGED <<queueVars, run, handler, crashes, faults>>

\* Mutant of Exit: the handlers in flight are not awaited.
ExitAtOnce(p) ==
  /\ proc[p] = "closing"
  /\ \A s \in SlotsOf(p) : run[s] = Idle
  /\ proc' = [proc EXCEPT ![p] = "down"]
  /\ handler' = [k \in Key |-> IF handler[k].proc = p THEN NoHandler ELSE handler[k]]
  /\ UNCHANGED <<queueVars, run, crashes, faults>>

\* worker.close() waits for the running jobs, allSettled for the handlers;
\* then the connections are closed and the process exits.
Exit(p) ==
  /\ proc[p] = "closing"
  /\ \A s \in SlotsOf(p) : run[s] = Idle
  /\ HandlersOf(p) = {}
  /\ proc' = [proc EXCEPT ![p] = "down"]
  /\ UNCHANGED <<queueVars, run, handler, crashes, faults>>

\* A crash, or the second signal (process.exit(1)): runs and handlers are lost.
Crash(p) ==
  /\ proc[p] # "down"
  /\ crashes < MaxCrashes
  /\ crashes' = crashes + 1
  /\ proc' = [proc EXCEPT ![p] = "down"]
  /\ run' = [s \in Slot |-> IF ProcOf[s] = p THEN Idle ELSE run[s]]
  /\ handler' = [k \in Key |-> IF handler[k].proc = p THEN NoHandler ELSE handler[k]]
  /\ UNCHANGED <<queueVars, faults>>

\* The operator starts a stopped worker (restart: "no" in docker-compose).
Boot(p) ==
  /\ proc[p] = "down"
  /\ proc' = [proc EXCEPT ![p] = "up"]
  /\ UNCHANGED <<queueVars, run, handler, crashes, faults>>

\* The stall of a job whose slot no longer executes it.
StallDead(k) == ~Owns(job[k].owner, k) /\ Stall(k)

Progress(s) == Merge(s) \/ Save(s) \/ Complete(s) \/ Throw(s)
Handle(k) == DeadLetter(k) \/ Remove(k)
TakeAny(k) == \E s \in Slot : Take(s, k)

WorkerNext ==
  \/ \E s \in Slot : Progress(s)
  \/ \E k \in Key : TakeAny(k) \/ Stall(k) \/ Handle(k) \/ HandlerFault(k)
  \/ \E p \in Proc : Shutdown(p) \/ Exit(p) \/ Crash(p) \/ Boot(p)
=============================================================================
