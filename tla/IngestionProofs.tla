--------------------------- MODULE IngestionProofs ---------------------------
(***************************************************************************)
(* The safety of the ingestion pipeline for every set of keys, uploads,    *)
(* slots and processes and every MaxRetries, MaxStalled, MaxCrashes and    *)
(* MaxFaults.  IInv (module Ingestion) is inductive: the upload steps can  *)
(* only disturb what it says of req, the worker steps only what it says of *)
(* the queue, and no step loses track of a key.  On top of IInv:           *)
(*                                                                         *)
(*   - an exhausted job is handed over (ExhaustedIsBeingMoved): with IInv, *)
(*     which says what the jobs and the handlers are, it is inductive;     *)
(*   - a dead letter is final (DeadLetterIsFinal): a job with its payload  *)
(*     is over, and no run holds its lock.  The danger is an upload that   *)
(*     adds a key a second time after its dead letter: the check loop has  *)
(*     made the keys of a batch distinct, and each upload goes through its *)
(*     batch once;                                                         *)
(*   - the pipeline implements the ledger (module NFLedger): each of its   *)
(*     steps is a step of the ledger for one access key, or leaves the     *)
(*     status of every key as it was;                                      *)
(*   - the upload dialog says `concluido` of what is stored, and of the    *)
(*     file it shows unless that upload was answered late                  *)
(*     (ConcluidoIsStored): its steps are steps of the pipeline, whose     *)
(*     IInv says what a `completed` job is worth, and a dialog only keeps  *)
(*     answers about the job it follows (DialogInv).                       *)
(***************************************************************************)
EXTENDS UploadDialog, TLAPS

\* The parts of IInv: what it says of the upload handlers, of the queue, and
\* of the queue with the workers.
ReqPart == UploadTypeOK /\ LoopInv /\ AcceptedIsTracked
QueuePart == QueueTypeOK /\ JobInv /\ CompletedIsDurable /\ HalfIngestedIsTracked
WorkPart == QueuePart /\ WorkerTypeOK /\ RunInv /\ HandlerInv

\* The invariant is the uploads' half together with the half of the queue and
\* its workers, before a step and after it.
LEMMA Halves ==
  /\ IInv <=> ReqPart /\ WorkPart
  /\ IInv' <=> ReqPart' /\ WorkPart'
BY DEF IInv, ReqPart, QueuePart, WorkPart, TypeOK

\* A file of a batch is a File.
LEMMA FileOfBatch ==
  ASSUME NEW b \in Batch \cup {<<>>}, NEW i \in 1..Len(b)
  PROVE  b[i] \in File
<1>1. b # <<>>
  OBVIOUS
<1>2. b \in Seq(File)
  BY <1>1, BatchAssumption
<1>. QED
  BY <1>2

\* A file that counts as added is one of the batch.
LEMMA AddedInBatch ==
  ASSUME UploadTypeOK, LoopInv, NEW r \in Request, NEW i \in Added(r)
  PROVE  req[r].batch[i].key \in Key
<1>0. req[r].batch \in Batch \cup {<<>>} /\ req[r].pos \in Nat \ {0}
  BY DEF UploadTypeOK
<1>1. DOMAIN req[r].batch = 1..Len(req[r].batch) /\ Len(req[r].batch) \in Nat
  BY <1>0, BatchAssumption
<1>2. i \in 1..Len(req[r].batch)
  <2>1. req[r].enfileiradas \in Nat /\ req[r].enfileiradas <= Len(req[r].batch)
    BY DEF UploadTypeOK, LoopInv
  <2>2. CASE req[r].pc = "202"
    BY <1>1, <2>2 DEF Added
  <2>3. CASE req[r].pc # "202"
    BY <1>1, <2>1, <2>3 DEF Added
  <2>. QED
    BY <2>2, <2>3
<1>. QED
  BY <1>2, FileOfBatch DEF UploadTypeOK, File

\* The initial states satisfy the invariant.
THEOREM InitIInv == Init => IInv
<1>. SUFFICES ASSUME Init PROVE IInv
  OBVIOUS
<1>. USE DEF Init, QueueInit, UploadInit, WorkerInit
<1>1. UploadTypeOK
  BY DEF UploadTypeOK, ReqPC
<1>2. QueueTypeOK
  BY RetriesAssumption, StalledAssumption DEF QueueTypeOK, NoJob, Job, JobState
<1>3. WorkerTypeOK
  BY BoundsAssumption
  DEF WorkerTypeOK, Idle, NoHandler, Stage, HandlerStep
<1>4. JobInv
  BY NoSlotAssumption DEF JobInv, NoJob, Live
<1>5. RunInv
  BY DEF RunInv, Idle
<1>6. HandlerInv
  BY DEF HandlerInv, NoHandler
<1>7. LoopInv /\ AcceptedIsTracked
  <2>1. Len(<<>>) = 0 /\ \A i : i \notin 1..0
    OBVIOUS
  <2>. QED
    BY <2>1 DEF LoopInv, AcceptedIsTracked, Added
<1>8. CompletedIsDurable /\ HalfIngestedIsTracked
  BY DEF CompletedIsDurable, HalfIngestedIsTracked, JobStatus, NoJob
<1>. QED
  BY <1>1, <1>2, <1>3, <1>4, <1>5, <1>6, <1>7, <1>8 DEF IInv, TypeOK

-----------------------------------------------------------------------------
(* Upload steps *)

\* A step that leaves the queue and the workers alone keeps their half.
LEMMA WorkKept ==
  ASSUME WorkPart, UNCHANGED queueVars, UNCHANGED workerVars
  PROVE  WorkPart'
BY DEF WorkPart, QueuePart, queueVars, workerVars, QueueTypeOK, WorkerTypeOK, JobInv,
       RunInv, HandlerInv, CompletedIsDurable, HalfIngestedIsTracked, Live,
       Tracked, DeadLettered, Exhausted, JobStatus

\* A step that leaves the uploads alone and loses track of no key keeps theirs.
LEMMA ReqKept ==
  ASSUME ReqPart, UNCHANGED req,
         \A k \in Key : Tracked(k) => Tracked(k)'
  PROVE  ReqPart'
<1>1. UploadTypeOK' /\ LoopInv'
  BY DEF ReqPart, UploadTypeOK, LoopInv
<1>2. ASSUME NEW r \in Request, NEW i \in Added(r)'
      PROVE  Tracked(req[r].batch[i].key)'
  <2>1. i \in Added(r)
    BY <1>2 DEF Added
  <2>2. req[r].batch[i].key \in Key
    BY <2>1, AddedInBatch DEF ReqPart
  <2>. QED
    BY <2>1, <2>2 DEF ReqPart, AcceptedIsTracked
<1>. QED
  BY <1>1, <1>2 DEF ReqPart, AcceptedIsTracked

\* A step that leaves the queue alone and counts no file adds nothing to what
\* must be tracked.
LEMMA AddedShrinks ==
  ASSUME IInv, UNCHANGED queueVars,
         \A r \in Request : \A i \in Added(r)' :
           i \in Added(r) /\ req'[r].batch = req[r].batch
  PROVE  AcceptedIsTracked'
BY DEF IInv, AcceptedIsTracked, queueVars, Tracked, DeadLettered

\* extrairXmls and the XSD validation: the first file of the check loop.
LEMMA ReceiveKeeps ==
  ASSUME IInv, NEW r \in Request, Receive(r), UNCHANGED workerVars
  PROVE  IInv'
<1>. PICK batch \in Batch :
       req' = [req EXCEPT ![r] = [pc |-> Screen(batch), batch |-> batch,
                                  pos |-> 1, enfileiradas |-> 0]]
  BY DEF Receive
<1>. req \in [Request -> [pc : ReqPC, batch : Batch \cup {<<>>},
                          pos : Nat \ {0}, enfileiradas : Nat]]
  BY DEF IInv, TypeOK, UploadTypeOK
<1>1. UploadTypeOK'
  BY DEF UploadTypeOK, Screen, ReqPC, Reply
<1>2. LoopInv'
  <2>1. Screen(batch) = "check" => 1 \in 1..Len(batch)
    BY BatchAssumption DEF Screen
  <2>2. Screen(batch) \notin {"enqueue", "add", "202"}
    BY DEF Screen
  <2>3. Len(batch) \in Nat
    BY BatchAssumption
  <2>4. \A q \in Request :
          req'[q] = IF q = r THEN [pc |-> Screen(batch), batch |-> batch, pos |-> 1,
                                   enfileiradas |-> 0]
                    ELSE req[q]
    OBVIOUS
  <2>. QED
    BY <2>1, <2>2, <2>3, <2>4 DEF LoopInv, IInv
<1>3. AcceptedIsTracked'
  <2>1. Screen(batch) # "202" /\ \A i : i \notin 1..0
    BY DEF Screen
  <2>2. \A q \in Request : \A i \in Added(q)' :
          i \in Added(q) /\ req'[q].batch = req[q].batch
    BY <2>1 DEF Added
  <2>. QED
    BY <2>2, AddedShrinks DEF Receive
<1>4. WorkPart'
  BY WorkKept, Halves DEF Receive
<1>. QED
  BY <1>1, <1>2, <1>3, <1>4, Halves DEF ReqPart

\* The other steps of the loops that leave the queue alone.
LEMMA LoopKeeps ==
  ASSUME IInv, NEW r \in Request, UNCHANGED workerVars, UNCHANGED queueVars,
         \/ CheckRejects(r) \/ CheckPasses(r)
         \/ LookupRejects(r) \/ LookupPasses(r) \/ UploadFails(r)
  PROVE  IInv'
<1>0. req \in [Request -> [pc : ReqPC, batch : Batch \cup {<<>>},
                          pos : Nat \ {0}, enfileiradas : Nat]]
  BY DEF IInv, TypeOK, UploadTypeOK
<1>1. Len(req[r].batch) \in Nat
  BY <1>0, BatchAssumption
<1>2. req[r].pc \in {"check", "enqueue", "add"} => req[r].pos \in 1..Len(req[r].batch)
  BY DEF IInv, LoopInv
<1>3. WorkPart'
  BY WorkKept, Halves
<1>4. CASE CheckPasses(r) /\ ~LastFile(r)
  <2>1. req' = [req EXCEPT ![r].pos = @ + 1] /\ req[r].pc = "check"
    BY <1>4 DEF CheckPasses
  <2>2. UploadTypeOK'
    <3>1. req[r].pos + 1 \in Nat \ {0}
      BY <1>0
    <3>2. [req[r] EXCEPT !.pos = @ + 1] \in
            [pc : ReqPC, batch : Batch \cup {<<>>}, pos : Nat \ {0}, enfileiradas : Nat]
      BY <1>0, <3>1
    <3>. QED
      BY <1>0, <2>1, <3>2 DEF UploadTypeOK
  <2>3. LoopInv'
    <3>1. req[r].pos + 1 \in 1..Len(req[r].batch)
      BY <1>0, <1>1, <1>2, <1>4, <2>1 DEF LastFile
    <3>2. \A q \in Request :
            /\ req'[q].pc = req[q].pc /\ req'[q].batch = req[q].batch
            /\ req'[q].enfileiradas = req[q].enfileiradas
            /\ req'[q].pos = IF q = r THEN req[r].pos + 1 ELSE req[q].pos
      BY <1>0, <2>1
    <3>. QED
      BY <2>1, <3>1, <3>2 DEF LoopInv, IInv
  <2>4. \A q \in Request : \A i \in Added(q)' :
          i \in Added(q) /\ req'[q].batch = req[q].batch
    BY <1>0, <2>1 DEF Added
  <2>. QED
    BY <1>3, <2>2, <2>3, <2>4, AddedShrinks, Halves DEF ReqPart
<1>5. CASE CheckPasses(r) /\ LastFile(r)
  <2>1. /\ req' = [req EXCEPT ![r].pc = "enqueue", ![r].pos = 1]
        /\ req[r].pc = "check"
    BY <1>5 DEF CheckPasses
  <2>2. UploadTypeOK'
    <3>1. [req[r] EXCEPT !.pc = "enqueue", !.pos = 1] \in
            [pc : ReqPC, batch : Batch \cup {<<>>}, pos : Nat \ {0}, enfileiradas : Nat]
      <4>1. "enqueue" \in ReqPC /\ 1 \in Nat \ {0}
        BY DEF ReqPC
      <4>. QED
        BY <1>0, <4>1
    <3>. QED
      BY <1>0, <2>1, <3>1 DEF UploadTypeOK
  <2>3. LoopInv'
    <3>1. 1 \in 1..Len(req[r].batch)
      BY <1>0, <1>1, <1>2, <2>1
    <3>2. \A q \in Request :
            /\ req'[q].batch = req[q].batch
            /\ req'[q].enfileiradas = req[q].enfileiradas
            /\ req'[q].pc = IF q = r THEN "enqueue" ELSE req[q].pc
            /\ req'[q].pos = IF q = r THEN 1 ELSE req[q].pos
      BY <1>0, <2>1
    <3>3. req[r].enfileiradas = 0
      BY <2>1 DEF LoopInv, IInv
    <3>. QED
      BY <3>1, <3>2, <3>3 DEF LoopInv, IInv
  <2>4. \A q \in Request : \A i \in Added(q)' :
          i \in Added(q) /\ req'[q].batch = req[q].batch
    BY <1>0, <2>1 DEF Added
  <2>. QED
    BY <1>3, <2>2, <2>3, <2>4, AddedShrinks, Halves DEF ReqPart
<1>6. CASE LookupPasses(r)
  <2>1. req' = [req EXCEPT ![r].pc = "add"] /\ req[r].pc = "enqueue"
    BY <1>6 DEF LookupPasses, ReplyWith
  <2>2. UploadTypeOK'
    BY <1>0, <2>1 DEF UploadTypeOK, ReqPC
  <2>3. LoopInv'
    <3>1. \A q \in Request :
            /\ req'[q].batch = req[q].batch /\ req'[q].pos = req[q].pos
            /\ req'[q].enfileiradas = req[q].enfileiradas
            /\ req'[q].pc = IF q = r THEN "add" ELSE req[q].pc
      BY <1>0, <2>1
    <3>. QED
      BY <1>2, <2>1, <3>1 DEF LoopInv, IInv
  <2>4. \A q \in Request : \A i \in Added(q)' :
          i \in Added(q) /\ req'[q].batch = req[q].batch
    BY <1>0, <2>1 DEF Added
  <2>. QED
    BY <1>3, <2>2, <2>3, <2>4, AddedShrinks, Halves DEF ReqPart
<1>7. CASE CheckRejects(r) \/ LookupRejects(r) \/ UploadFails(r)
  <2>1. PICK code \in {"409", "413", "500"} : req' = [req EXCEPT ![r].pc = code]
    BY <1>7 DEF CheckRejects, LookupRejects, UploadFails, ReplyWith
  <2>2. UploadTypeOK'
    BY <1>0, <2>1 DEF UploadTypeOK, ReqPC, Reply
  <2>3. LoopInv'
    <3>1. \A q \in Request :
            /\ req'[q].batch = req[q].batch /\ req'[q].pos = req[q].pos
            /\ req'[q].enfileiradas = req[q].enfileiradas
            /\ req'[q].pc = IF q = r THEN code ELSE req[q].pc
      BY <1>0, <2>1
    <3>. QED
      BY <3>1 DEF LoopInv, IInv
  <2>4. req[r].pc # "202"
    BY <1>7 DEF CheckRejects, LookupRejects, UploadFails
  <2>5. \A q \in Request : \A i \in Added(q)' :
          i \in Added(q) /\ req'[q].batch = req[q].batch
    BY <1>0, <2>1, <2>4 DEF Added
  <2>. QED
    BY <1>3, <2>2, <2>3, <2>5, AddedShrinks, Halves DEF ReqPart
<1>. QED
  BY <1>4, <1>5, <1>6, <1>7

\* queue.add: from now on the file is one of those that must be tracked, and
\* it is, by the job that was there or by the new one.
LEMMA EnqueueKeeps ==
  ASSUME IInv, NEW r \in Request, Enqueue(r), UNCHANGED workerVars
  PROVE  IInv'
<1>. DEFINE new == NewJob(r)
<1>0. req \in [Request -> [pc : ReqPC, batch : Batch \cup {<<>>},
                          pos : Nat \ {0}, enfileiradas : Nat]]
  BY DEF IInv, TypeOK, UploadTypeOK
<1>1. req[r].pos \in 1..Len(req[r].batch) /\ Len(req[r].batch) \in Nat
  BY <1>0, BatchAssumption DEF Enqueue, IInv, LoopInv
<1>2. PICK k \in Key : k = Current(r).key
  BY <1>0, <1>1, FileOfBatch DEF Current, File
<1>3. job \in [Key -> Job]
  BY DEF IInv, TypeOK, QueueTypeOK
<1>4. job' = IF job[k].state = "none" THEN [job EXCEPT ![k] = new] ELSE job
  BY <1>2 DEF Enqueue, AddJob
<1>5. new \in Job
  BY RetriesAssumption, StalledAssumption DEF Job, JobState, NewJob
<1>6. \A q \in Key : \/ job'[q] = job[q]
                     \/ q = k /\ job[q].state = "none" /\ job'[q] = new
  BY <1>2, <1>3, <1>4
<1>7. UNCHANGED <<dlq, graph, stored, run, handler, proc, crashes, faults>>
  BY DEF Enqueue, workerVars
<1>8. \A q \in Key : Tracked(q) => Tracked(q)'
  BY <1>6, <1>7 DEF Tracked, DeadLettered
<1>9. Tracked(k)'
  BY <1>2, <1>3, <1>4 DEF Tracked, NewJob
<1>10. WorkPart'
  <2>1. QueueTypeOK'
    BY <1>3, <1>4, <1>5, <1>7 DEF IInv, TypeOK, QueueTypeOK
  <2>2. WorkerTypeOK'
    BY <1>7 DEF IInv, TypeOK, WorkerTypeOK
  <2>3. JobInv'
    BY <1>6, NoSlotAssumption, RetriesAssumption DEF IInv, JobInv, Live, NewJob
  <2>4. RunInv'
    <3>1. \A s \in Slot : run[s].stage # "idle" => run[s].key \in Key
      BY DEF IInv, TypeOK, WorkerTypeOK, RunInv
    <3>. QED
      BY <1>7, <1>8, <3>1 DEF IInv, RunInv
  <2>5. HandlerInv'
    BY <1>6, <1>7 DEF IInv, HandlerInv, Exhausted, DeadLettered
  <2>6. CompletedIsDurable'
    BY <1>6, <1>7 DEF IInv, CompletedIsDurable, JobStatus, NewJob
  <2>7. HalfIngestedIsTracked'
    BY <1>7, <1>8 DEF IInv, TypeOK, QueueTypeOK, HalfIngestedIsTracked
  <2>. QED
    BY <2>1, <2>2, <2>3, <2>4, <2>5, <2>6, <2>7 DEF WorkPart, QueuePart
<1>11. PICK pc \in ReqPC, pos \in Nat \ {0} :
         /\ req' = [req EXCEPT ![r].pc = pc, ![r].pos = pos, ![r].enfileiradas = @ + 1]
         /\ \/ pc = "202" /\ req[r].pos = Len(req[r].batch)
            \/ pc = "enqueue" /\ pos = req[r].pos + 1 /\ pos \in 1..Len(req[r].batch)
  <2>1. CASE LastFile(r)
    <3>1. "202" \in ReqPC
      BY DEF ReqPC, Reply
    <3>2. req' = [req EXCEPT ![r].pc = "202", ![r].pos = req[r].pos, ![r].enfileiradas = @ + 1]
      BY <2>1, <1>0 DEF Enqueue
    <3>. QED
      BY <2>1, <3>1, <3>2, <1>0 DEF LastFile
  <2>2. CASE ~LastFile(r)
    <3>1. "enqueue" \in ReqPC
      BY DEF ReqPC
    <3>2. req[r].pos + 1 \in Nat \ {0} /\ req[r].pos + 1 \in 1..Len(req[r].batch)
      BY <1>1, <2>2 DEF LastFile
    <3>3. req' = [req EXCEPT ![r].pc = "enqueue", ![r].pos = req[r].pos + 1,
                             ![r].enfileiradas = @ + 1]
      BY <2>2, <1>0 DEF Enqueue
    <3>. QED
      BY <3>1, <3>2, <3>3
  <2>. QED
    BY <2>1, <2>2
<1>12. /\ req'[r].pc = pc /\ req'[r].pos = pos /\ req'[r].batch = req[r].batch
       /\ req'[r].enfileiradas = req[r].enfileiradas + 1
       /\ \A q \in Request : q # r => req'[q] = req[q]
  BY <1>0, <1>11
<1>count. req[r].enfileiradas = req[r].pos - 1 /\ req'[r].enfileiradas = req[r].pos
  BY <1>0, <1>12 DEF Enqueue, IInv, LoopInv
<1>13. UploadTypeOK'
  <2>1. [req[r] EXCEPT !.pc = pc, !.pos = pos, !.enfileiradas = @ + 1] \in
          [pc : ReqPC, batch : Batch \cup {<<>>}, pos : Nat \ {0}, enfileiradas : Nat]
    <3>1. req[r].enfileiradas + 1 \in Nat
      BY <1>0
    <3>. QED
      BY <1>0, <3>1
  <2>. QED
    BY <1>0, <1>11, <2>1 DEF UploadTypeOK
<1>14. LoopInv'
  <2>1. /\ req'[r].pc \in {"enqueue", "add"} =>
             /\ req'[r].pos \in 1..Len(req'[r].batch)
             /\ req'[r].enfileiradas = req'[r].pos - 1
        /\ req'[r].pc = "202" => req'[r].enfileiradas = Len(req'[r].batch)
        /\ req'[r].pc \notin {"idle", "check"}
        /\ req'[r].enfileiradas <= Len(req'[r].batch)
    BY <1>1, <1>11, <1>12, <1>count
  <2>. QED
    BY <1>12, <2>1 DEF IInv, LoopInv
<1>15. AcceptedIsTracked'
  <2>. SUFFICES ASSUME NEW q \in Request, NEW i \in Added(q)'
                PROVE  Tracked(req[q].batch[i].key)'
    BY DEF AcceptedIsTracked
  <2>1. req'[q].batch = req[q].batch
    BY <1>12
  <2>2. CASE i \in Added(q)
    <3>2. req[q].batch[i].key \in Key
      BY <2>2, AddedInBatch DEF IInv, TypeOK
    <3>3. Tracked(req[q].batch[i].key)
      BY <2>2 DEF IInv, AcceptedIsTracked
    <3>. QED
      BY <1>8, <2>1, <3>2, <3>3
  <2>3. CASE q = r /\ i = req[r].pos
    BY <1>2, <1>9, <2>1, <2>3 DEF Current
  <2>4. i \in Added(q) \/ (q = r /\ i = req[r].pos)
    <3>1. q # r => i \in Added(q)
      BY <1>12 DEF Added
    <3>2. q = r => i \in 1..req[r].pos
      <4>1. CASE pc = "202"
        BY <1>0, <1>1, <1>11, <1>12, <4>1 DEF Added
      <4>2. CASE pc # "202"
        BY <1>12, <1>count, <4>2 DEF Added
      <4>. QED
        BY <4>1, <4>2
    <3>3. Added(r) = 1..(req[r].pos - 1)
      BY <1>count DEF Enqueue, Added
    <3>. QED
      BY <1>1, <3>1, <3>2, <3>3
  <2>. QED
    BY <2>2, <2>3, <2>4
<1>. QED
  BY <1>10, <1>13, <1>14, <1>15, Halves DEF ReqPart

-----------------------------------------------------------------------------
(* Worker steps *)

\* A worker step that keeps its half and loses track of no key keeps IInv.
LEMMA WorkerStep ==
  ASSUME IInv, UNCHANGED req, WorkPart', \A k \in Key : Tracked(k) => Tracked(k)'
  PROVE  IInv'
BY ReqKept, Halves

\* The types IInv gives the variables the worker steps change, and what a slot
\* that is not idle executes.
LEMMA WorkerTypes ==
  ASSUME IInv
  PROVE  /\ job \in [Key -> Job]
         /\ graph \subseteq Key /\ stored \subseteq Key
         /\ run \in [Slot -> [key : Key \cup {NoKey}, stage : Stage]]
         /\ handler \in [Key -> [proc : Proc \cup {NoProc}, step : HandlerStep]]
         /\ \A s \in Slot : run[s].stage # "idle" => run[s].key \in Key
BY DEF IInv, TypeOK, QueueTypeOK, WorkerTypeOK, RunInv

\* What a job that replaces the one of key k must be like: it has an owner
\* exactly while it is active, attempts left while it is live, is completed only
\* with the XML stored, and disappears only when a dead letter or the XML is
\* left of it.
Fits(k, j) ==
  /\ j \in Job
  /\ j.owner \in Slot <=> j.state = "active"
  /\ j.state \in {"waiting", "active", "delayed"} => j.attempts < MaxRetries
  /\ j.state # "none" => j.origem \in Request
  /\ j.state = "none" => DeadLettered(k) \/ k \in stored
  /\ j.state = "completed" => k \in stored

\* The steps that change one job and no other durable state keep what IInv
\* says of the queue.
LEMMA JobStep ==
  ASSUME IInv, NEW k \in Key, NEW j, Fits(k, j),
         job' = [job EXCEPT ![k] = j],
         UNCHANGED <<dlq, graph, stored>>
  PROVE  /\ QueuePart'
         /\ \A q \in Key : Tracked(q) => Tracked(q)'
         /\ \A q \in Key : job'[q] = IF q = k THEN j ELSE job[q]
<1>. USE DEF Fits
<1>1. \A q \in Key : job'[q] = IF q = k THEN j ELSE job[q]
  BY WorkerTypes
<1>2. \A q \in Key : Tracked(q) => Tracked(q)'
  BY <1>1 DEF Tracked, DeadLettered
<1>3. QueueTypeOK'
  BY WorkerTypes DEF IInv, TypeOK, QueueTypeOK
<1>4. JobInv'
  BY <1>1 DEF IInv, JobInv, Live
<1>5. CompletedIsDurable'
  BY <1>1 DEF IInv, CompletedIsDurable, JobStatus
<1>6. HalfIngestedIsTracked'
  BY <1>2, WorkerTypes DEF IInv, HalfIngestedIsTracked
<1>. QED
  BY <1>1, <1>2, <1>3, <1>4, <1>5, <1>6 DEF QueuePart

\* A slot takes a waiting job.
LEMMA TakeKeeps ==
  ASSUME IInv, NEW s \in Slot, NEW k \in Key, Take(s, k), UNCHANGED req
  PROVE  IInv'
<1>1. PICK j : /\ j = Taken(job[k], s)
               /\ j.state = "active" /\ j.owner = s /\ j \in Job
               /\ j.attempts = job[k].attempts /\ j.origem = job[k].origem
  <2>1. job[k] \in Job
    BY WorkerTypes
  <2>2. "active" \in JobState
    BY DEF JobState
  <2>3. Taken(job[k], s) \in Job
    BY <2>1, <2>2 DEF Taken, Job
  <2>4. /\ Taken(job[k], s).state = "active" /\ Taken(job[k], s).owner = s
        /\ Taken(job[k], s).attempts = job[k].attempts
        /\ Taken(job[k], s).origem = job[k].origem
    BY <2>1 DEF Taken, Job
  <2>. QED
    BY <2>3, <2>4
<1>2. Fits(k, j)
  BY <1>1 DEF Take, IInv, JobInv, Live, Fits
<1>3. job' = [job EXCEPT ![k] = j] /\ UNCHANGED <<dlq, graph, stored>>
  BY <1>1, WorkerTypes DEF Take
<1>4. /\ QueuePart'
      /\ \A q \in Key : Tracked(q) => Tracked(q)'
      /\ \A q \in Key : job'[q] = IF q = k THEN j ELSE job[q]
  BY <1>2, <1>3, JobStep
<1>5. \A t \in Slot : run'[t] = IF t = s THEN [key |-> k, stage |-> "merge"] ELSE run[t]
  BY WorkerTypes DEF Take
<1>6. WorkerTypeOK'
  BY WorkerTypes DEF Take, IInv, TypeOK, WorkerTypeOK, Stage
<1>7. RunInv'
  <2>1. Tracked(k)' /\ k # NoKey
    BY <1>1, <1>4, NoKeyAssumption DEF Tracked
  <2>. QED
    BY <1>4, <1>5, <2>1, WorkerTypes DEF Take, IInv, RunInv
<1>8. HandlerInv'
  <2>1. handler[k].step = "none"
    BY DEF Take, IInv, HandlerInv
  <2>. QED
    BY <1>4, <2>1 DEF Take, IInv, HandlerInv, Exhausted, DeadLettered
<1>. QED
  BY <1>4, <1>6, <1>7, <1>8, WorkerStep DEF WorkPart, QueuePart

\* mergeInvoice commits: the key is in the graph, and it is tracked because
\* what a run executes is.
LEMMA MergeKeeps ==
  ASSUME IInv, NEW s \in Slot, Merge(s), UNCHANGED req
  PROVE  IInv'
<1>. USE DEF Merge
<1>1. \A t \in Slot : /\ run'[t].key = run[t].key
                      /\ run'[t].stage = IF t = s THEN "save" ELSE run[t].stage
  BY WorkerTypes
<1>2. run[s].key \in Key /\ graph' = graph \cup {run[s].key}
  BY WorkerTypes
<1>3. \A q \in Key : Tracked(q) => Tracked(q)'
  BY DEF Tracked, DeadLettered
<1>4. QueueTypeOK' /\ WorkerTypeOK'
  BY <1>2, WorkerTypes DEF IInv, TypeOK, QueueTypeOK, WorkerTypeOK, Stage
<1>5. RunInv'
  BY <1>1, <1>2, <1>3, WorkerTypes DEF IInv, RunInv
<1>6. JobInv' /\ HandlerInv'
  BY DEF IInv, JobInv, HandlerInv, Live, Exhausted, DeadLettered
<1>7. CompletedIsDurable'
  BY DEF IInv, CompletedIsDurable, JobStatus
<1>8. HalfIngestedIsTracked'
  BY <1>2, <1>3, WorkerTypes DEF IInv, HalfIngestedIsTracked, RunInv
<1>. QED
  BY <1>3, <1>4, <1>5, <1>6, <1>7, <1>8, WorkerStep DEF WorkPart, QueuePart

\* storage.save ends: the key was in the graph already.
LEMMA SaveKeeps ==
  ASSUME IInv, NEW s \in Slot, Save(s), UNCHANGED req
  PROVE  IInv'
<1>. USE DEF Save
<1>1. \A t \in Slot : /\ run'[t].key = run[t].key
                      /\ run'[t].stage = IF t = s THEN "return" ELSE run[t].stage
  BY WorkerTypes
<1>2. run[s].key \in Key /\ stored' = stored \cup {run[s].key}
  BY WorkerTypes
<1>3. \A q \in Key : Tracked(q) => Tracked(q)'
  BY <1>2 DEF Tracked, DeadLettered
<1>4. QueueTypeOK' /\ WorkerTypeOK'
  BY <1>2, WorkerTypes DEF IInv, TypeOK, QueueTypeOK, WorkerTypeOK, Stage
<1>5. RunInv'
  BY <1>1, <1>2, <1>3, WorkerTypes DEF IInv, RunInv
<1>6. JobInv' /\ HandlerInv'
  BY DEF IInv, JobInv, HandlerInv, Live, Exhausted, DeadLettered
<1>7. CompletedIsDurable'
  BY <1>2 DEF IInv, CompletedIsDurable, JobStatus, RunInv
<1>8. HalfIngestedIsTracked'
  BY <1>3, WorkerTypes DEF IInv, HalfIngestedIsTracked
<1>. QED
  BY <1>3, <1>4, <1>5, <1>6, <1>7, <1>8, WorkerStep DEF WorkPart, QueuePart

\* Slot s has ended its run; the other slots go on.
LEMMA RunFreed ==
  ASSUME IInv, NEW s \in Slot, run' = [run EXCEPT ![s] = Idle],
         UNCHANGED <<graph, stored>>, \A q \in Key : Tracked(q) => Tracked(q)'
  PROVE  RunInv' /\ run' \in [Slot -> [key : Key \cup {NoKey}, stage : Stage]]
<1>1. \A t \in Slot : run'[t] = IF t = s THEN Idle ELSE run[t]
  BY WorkerTypes
<1>2. RunInv'
  BY <1>1, WorkerTypes DEF IInv, RunInv, Idle
<1>. QED
  BY <1>2, WorkerTypes DEF Idle, Stage

\* An active job has attempts left, an upload's payload and no failure handler.
LEMMA ActiveJob ==
  ASSUME IInv, NEW k \in Key, job[k].state = "active"
  PROVE  /\ job[k] \in Job /\ job[k].attempts < MaxRetries
         /\ job[k].origem \in Request /\ handler[k].step = "none"
BY WorkerTypes DEF IInv, JobInv, HandlerInv, Live

\* The job a slot owns is active.
LEMMA OwnedJob ==
  ASSUME IInv, NEW s \in Slot, NEW k \in Key, Owns(s, k)
  PROVE  job[k].state = "active"
BY DEF IInv, JobInv, Owns

\* The types of the new jobs, in words of the old one.
LEMMA JobOps ==
  ASSUME NEW j \in Job
  PROVE  /\ Completed(j) \in Job /\ Promoted(j) \in Job
         /\ Completed(j).state = "completed" /\ Completed(j).owner = NoSlot
         /\ Completed(j).origem = j.origem
         /\ Promoted(j).state = "waiting" /\ Promoted(j).owner = j.owner
         /\ Promoted(j).attempts = j.attempts /\ Promoted(j).origem = j.origem
<1>1. "completed" \in JobState /\ "waiting" \in JobState
  BY DEF JobState
<1>. QED
  BY <1>1 DEF Completed, Promoted, Job

\* A job with attempts left that throws, or that is found stalled too often,
\* is again a job: without an owner, and failed or delayed as BullMQ decides.
LEMMA FailedJobOps ==
  ASSUME NEW j \in Job, j.attempts < MaxRetries, NEW a \in {j.attempts, j.attempts + 1}
  PROVE  /\ FailedOnce(j) \in Job /\ StalledOut(j, a) \in Job
         /\ FailedOnce(j).owner = NoSlot /\ FailedOnce(j).origem = j.origem
         /\ FailedOnce(j).attempts = j.attempts + 1
         /\ FailedOnce(j).state = IF j.attempts + 1 < MaxRetries THEN "delayed" ELSE "failed"
         /\ StalledOut(j, a).owner = NoSlot /\ StalledOut(j, a).origem = j.origem
         /\ StalledOut(j, a).state = "failed"
<1>1. "delayed" \in JobState /\ "failed" \in JobState
  BY DEF JobState
<1>2. j.attempts + 1 \in 0..MaxRetries /\ a \in 0..MaxRetries
  BY RetriesAssumption DEF Job
<1>3. FailedOnce(j) \in Job
  BY <1>1, <1>2 DEF FailedOnce, Job
<1>4. StalledOut(j, a) \in Job
  BY <1>1, <1>2 DEF StalledOut, Job
<1>. QED
  BY <1>3, <1>4 DEF FailedOnce, StalledOut, Job

\* A stalled job that may still be recovered goes back to wait as it was.
LEMMA RequeuedOps ==
  ASSUME NEW j \in Job, j.stalls < MaxStalled
  PROVE  /\ Requeued(j) \in Job
         /\ Requeued(j).state = "waiting" /\ Requeued(j).owner = NoSlot
         /\ Requeued(j).attempts = j.attempts /\ Requeued(j).origem = j.origem
<1>1. "waiting" \in JobState
  BY DEF JobState
<1>2. j.stalls + 1 \in 0..MaxStalled
  BY StalledAssumption DEF Job
<1>3. Requeued(j) \in Job
  BY <1>1, <1>2 DEF Requeued, Job
<1>. QED
  BY <1>3 DEF Requeued, Job

\* While job k changes and no handler works on it, the handlers stay right.
LEMMA HandlersKept ==
  ASSUME IInv, NEW k \in Key, NEW j, handler[k].step = "none",
         \A q \in Key : job'[q] = IF q = k THEN j ELSE job[q],
         UNCHANGED <<dlq, handler>>
  PROVE  HandlerInv'
BY DEF IInv, HandlerInv, Exhausted, DeadLettered

\* The failed event of job j: the handler it starts, if any, is for a job that
\* failed for good.
LEMMA HandlerStarted ==
  ASSUME IInv, NEW k \in Key, NEW p \in Proc, NEW j, handler[k].step = "none",
         \A q \in Key : job'[q] = IF q = k THEN j ELSE job[q],
         Exhausted(j) => j.state = "failed",
         UNCHANGED dlq, StartHandler(k, p, j)
  PROVE  HandlerInv' /\ handler' \in [Key -> [proc : Proc \cup {NoProc}, step : HandlerStep]]
<1>1. \A q \in Key : \/ handler'[q] = handler[q]
                     \/ q = k /\ Exhausted(j) /\ handler'[q] = [proc |-> p, step |-> "dlq"]
  BY WorkerTypes DEF StartHandler
<1>2. HandlerInv'
  BY <1>1 DEF IInv, HandlerInv, Exhausted, DeadLettered
<1>3. [proc |-> p, step |-> "dlq"] \in [proc : Proc \cup {NoProc}, step : HandlerStep]
  BY DEF HandlerStep
<1>. QED
  BY <1>2, <1>3, WorkerTypes DEF StartHandler

\* The job function returns: a run that still holds its lock completes the job.
LEMMA CompleteKeeps ==
  ASSUME IInv, NEW s \in Slot, Complete(s), UNCHANGED req
  PROVE  IInv'
<1>1. PICK k \in Key : k = run[s].key
  BY WorkerTypes DEF Complete
<1>2. k \in stored
  BY <1>1 DEF Complete, IInv, RunInv
<1>3. UNCHANGED <<dlq, graph, stored>> /\ UNCHANGED <<handler, proc, crashes, faults>>
      /\ run' = [run EXCEPT ![s] = Idle]
  BY DEF Complete
<1>4. /\ QueuePart' /\ HandlerInv'
      /\ \A q \in Key : Tracked(q) => Tracked(q)'
  <2>1. CASE Owns(s, k)
    <3>1. job[k].state = "active"
      BY <2>1, OwnedJob
    <3>2. PICK j : j = Completed(job[k])
      OBVIOUS
    <3>3. Fits(k, j)
      BY <1>2, <3>1, <3>2, ActiveJob, JobOps, NoSlotAssumption DEF Fits
    <3>4. job' = [job EXCEPT ![k] = j]
      BY <1>1, <2>1, <3>2, WorkerTypes DEF Complete
    <3>5. /\ QueuePart'
          /\ \A q \in Key : Tracked(q) => Tracked(q)'
          /\ \A q \in Key : job'[q] = IF q = k THEN j ELSE job[q]
      BY <1>3, <3>3, <3>4, JobStep
    <3>6. HandlerInv'
      BY <1>3, <3>1, <3>5, ActiveJob, HandlersKept
    <3>. QED
      BY <3>5, <3>6
  <2>2. CASE ~Owns(s, k)
    <3>1. UNCHANGED job
      BY <1>1, <2>2 DEF Complete
    <3>. QED
      BY <1>3, <3>1 DEF IInv, TypeOK, QueuePart, QueueTypeOK, JobInv, HandlerInv,
         CompletedIsDurable, HalfIngestedIsTracked, JobStatus, Live, Tracked,
         DeadLettered, Exhausted
  <2>. QED
    BY <2>1, <2>2
<1>5. RunInv' /\ run' \in [Slot -> [key : Key \cup {NoKey}, stage : Stage]]
  BY <1>3, <1>4, RunFreed
<1>6. WorkerTypeOK'
  BY <1>3, <1>5 DEF IInv, TypeOK, WorkerTypeOK
<1>. QED
  BY <1>4, <1>5, <1>6, WorkerStep DEF WorkPart

\* The job function throws: one attempt less, or failed for good and handled.
LEMMA ThrowKeeps ==
  ASSUME IInv, NEW s \in Slot, Throw(s), UNCHANGED req
  PROVE  IInv'
<1>1. PICK k \in Key : k = run[s].key
  BY WorkerTypes DEF Throw
<1>2. UNCHANGED <<dlq, graph, stored>> /\ UNCHANGED <<proc, crashes, faults>>
      /\ run' = [run EXCEPT ![s] = Idle]
  BY DEF Throw
<1>3. /\ QueuePart' /\ HandlerInv'
      /\ handler' \in [Key -> [proc : Proc \cup {NoProc}, step : HandlerStep]]
      /\ \A q \in Key : Tracked(q) => Tracked(q)'
  <2>1. CASE Owns(s, k)
    <3>1. job[k].state = "active"
      BY <2>1, OwnedJob
    <3>2. PICK j : j = FailedOnce(job[k])
      OBVIOUS
    <3>3. /\ Fits(k, j)
          /\ Exhausted(j) => j.state = "failed"
      <4>1. /\ job[k] \in Job /\ job[k].attempts < MaxRetries
            /\ job[k].origem \in Request
        BY <3>1, ActiveJob
      <4>2. /\ j \in Job /\ j.owner = NoSlot /\ j.origem = job[k].origem
            /\ j.attempts = job[k].attempts + 1
            /\ j.state = IF job[k].attempts + 1 < MaxRetries THEN "delayed" ELSE "failed"
        BY <3>2, <4>1, FailedJobOps
      <4>3. Fits(k, j)
        BY <4>1, <4>2, NoSlotAssumption DEF Fits
      <4>4. Exhausted(j) => j.state = "failed"
        BY <4>1, <4>2, RetriesAssumption DEF Exhausted, Job
      <4>. QED
        BY <4>3, <4>4
    <3>4. job' = [job EXCEPT ![k] = j] /\ StartHandler(k, ProcOf[s], j)
      BY <1>1, <2>1, <3>2, WorkerTypes DEF Throw
    <3>5. /\ QueuePart'
          /\ \A q \in Key : Tracked(q) => Tracked(q)'
          /\ \A q \in Key : job'[q] = IF q = k THEN j ELSE job[q]
      BY <1>2, <3>3, <3>4, JobStep
    <3>6. ProcOf[s] \in Proc /\ handler[k].step = "none"
      BY <3>1, ActiveJob, ProcOfAssumption
    <3>7. /\ HandlerInv'
          /\ handler' \in [Key -> [proc : Proc \cup {NoProc}, step : HandlerStep]]
      BY <1>2, <3>3, <3>4, <3>5, <3>6, HandlerStarted
    <3>. QED
      BY <3>5, <3>7
  <2>2. CASE ~Owns(s, k)
    <3>1. UNCHANGED <<job, handler>>
      BY <1>1, <2>2 DEF Throw
    <3>. QED
      BY <1>2, <3>1, WorkerTypes DEF IInv, TypeOK, QueuePart, QueueTypeOK, JobInv,
         HandlerInv, CompletedIsDurable, HalfIngestedIsTracked, JobStatus, Live,
         Tracked, DeadLettered, Exhausted
  <2>. QED
    BY <2>1, <2>2
<1>4. RunInv' /\ run' \in [Slot -> [key : Key \cup {NoKey}, stage : Stage]]
  BY <1>2, <1>3, RunFreed
<1>5. WorkerTypeOK'
  BY <1>2, <1>3, <1>4 DEF IInv, TypeOK, WorkerTypeOK
<1>. QED
  BY <1>3, <1>4, <1>5, WorkerStep DEF WorkPart

\* The runs do not change: they stay right while no key is forgotten.
LEMMA RunsKept ==
  ASSUME IInv, UNCHANGED <<run, graph, stored>>,
         \A q \in Key : Tracked(q) => Tracked(q)'
  PROVE  RunInv'
BY WorkerTypes DEF IInv, RunInv

\* A lock expired: requeued, or failed and handled by the process that saw it.
LEMMA StallKeeps ==
  ASSUME IInv, NEW k \in Key, Stall(k), UNCHANGED req
  PROVE  IInv'
<1>1. UNCHANGED <<dlq, graph, stored>> /\ UNCHANGED <<run, proc, crashes, faults>>
      /\ job[k].state = "active"
  BY DEF Stall
<1>2. /\ job[k] \in Job /\ job[k].attempts < MaxRetries
      /\ job[k].origem \in Request /\ handler[k].step = "none"
  BY <1>1, ActiveJob
<1>3. /\ QueuePart' /\ HandlerInv'
      /\ handler' \in [Key -> [proc : Proc \cup {NoProc}, step : HandlerStep]]
      /\ \A q \in Key : Tracked(q) => Tracked(q)'
  <2>1. CASE job[k].stalls < MaxStalled
    <3>1. PICK j : j = Requeued(job[k])
      OBVIOUS
    <3>2. job' = [job EXCEPT ![k] = j] /\ UNCHANGED handler
      BY <2>1, <3>1, WorkerTypes DEF Stall
    <3>3. Fits(k, j)
      BY <1>2, <2>1, <3>1, RequeuedOps, NoSlotAssumption DEF Fits
    <3>4. /\ QueuePart'
          /\ \A q \in Key : Tracked(q) => Tracked(q)'
          /\ \A q \in Key : job'[q] = IF q = k THEN j ELSE job[q]
      BY <1>1, <3>2, <3>3, JobStep
    <3>5. HandlerInv'
      BY <1>1, <1>2, <3>2, <3>4, HandlersKept
    <3>. QED
      BY <3>2, <3>4, <3>5, WorkerTypes
  <2>2. CASE ~(job[k].stalls < MaxStalled)
    <3>0. PICK p \in Proc, a \in {job[k].attempts, job[k].attempts + 1} :
            /\ job' = [job EXCEPT ![k] = StalledOut(@, a)]
            /\ StartHandler(k, p, StalledOut(job[k], a))
      BY <2>2 DEF Stall
    <3>1. PICK j : /\ j = StalledOut(job[k], a)
                   /\ job' = [job EXCEPT ![k] = j] /\ StartHandler(k, p, j)
      BY <3>0, WorkerTypes
    <3>2. Fits(k, j) /\ j.state = "failed"
      BY <1>2, <3>1, FailedJobOps, NoSlotAssumption DEF Fits
    <3>3. /\ QueuePart'
          /\ \A q \in Key : Tracked(q) => Tracked(q)'
          /\ \A q \in Key : job'[q] = IF q = k THEN j ELSE job[q]
      <4>1. Fits(k, j) /\ job' = [job EXCEPT ![k] = j]
        BY <3>1, <3>2
      <4>. QED
        BY <1>1, <4>1, JobStep
    <3>4. /\ HandlerInv'
          /\ handler' \in [Key -> [proc : Proc \cup {NoProc}, step : HandlerStep]]
      BY <1>1, <1>2, <3>1, <3>2, <3>3, HandlerStarted
    <3>. QED
      BY <3>3, <3>4
  <2>. QED
    BY <2>1, <2>2
<1>4. RunInv'
  BY <1>1, <1>3, RunsKept
<1>5. WorkerTypeOK'
  BY <1>1, <1>3 DEF IInv, TypeOK, WorkerTypeOK
<1>. QED
  BY <1>3, <1>4, <1>5, WorkerStep DEF WorkPart

\* The dead letter is written: the handler may remove the job now.
LEMMA DeadLetterKeeps ==
  ASSUME IInv, NEW k \in Key, DeadLetter(k), UNCHANGED req
  PROVE  IInv'
<1>1. /\ UNCHANGED <<job, graph, stored>> /\ UNCHANGED <<run, proc, crashes, faults>>
      /\ handler' = [handler EXCEPT ![k].step = "remove"] /\ MoveToDeadLetter(k)
      /\ handler[k].step = "dlq"
  BY DEF DeadLetter
<1>2. job[k] \in Job /\ job[k].origem \in Request /\ job[k].state = "failed"
  BY <1>1, WorkerTypes DEF IInv, HandlerInv, JobInv
<1>3. PICK d : d = [key |-> k, tentativas |-> job[k].attempts, origem |-> job[k].origem]
  OBVIOUS
<1>4. d \in DeadLetterRecord /\ d.key = k
  BY <1>2, <1>3 DEF DeadLetterRecord, Job
<1>5. /\ dlq \subseteq dlq' /\ dlq' \subseteq dlq \cup {d}
      /\ \E e \in dlq' : e.key = k
  BY <1>1, <1>3, <1>4 DEF MoveToDeadLetter
<1>6. \A q \in Key : /\ DeadLettered(q) => DeadLettered(q)'
                     /\ Tracked(q) => Tracked(q)'
  BY <1>1, <1>5 DEF Tracked, DeadLettered
<1>7. QueuePart'
  <2>1. QueueTypeOK'
    BY <1>1, <1>4, <1>5 DEF IInv, TypeOK, QueueTypeOK
  <2>2. JobInv' /\ CompletedIsDurable'
    BY <1>1 DEF IInv, JobInv, CompletedIsDurable, JobStatus, Live
  <2>3. HalfIngestedIsTracked'
    BY <1>1, <1>6, WorkerTypes DEF IInv, HalfIngestedIsTracked
  <2>. QED
    BY <2>1, <2>2, <2>3 DEF QueuePart
<1>8. RunInv'
  BY <1>1, <1>6, RunsKept
<1>9. WorkerTypeOK'
  BY <1>1, WorkerTypes DEF IInv, TypeOK, WorkerTypeOK, HandlerStep
<1>10. HandlerInv'
  <2>1. \A q \in Key : handler'[q].step = IF q = k THEN "remove" ELSE handler[q].step
    BY <1>1, WorkerTypes
  <2>2. DeadLettered(k)'
    BY <1>5 DEF DeadLettered
  <2>. QED
    BY <1>1, <1>6, <2>1, <2>2 DEF IInv, HandlerInv, Exhausted
<1>. QED
  BY <1>6, <1>7, <1>8, <1>9, <1>10, WorkerStep DEF WorkPart

\* The job is removed: its dead letter stays.
LEMMA RemoveKeeps ==
  ASSUME IInv, NEW k \in Key, Remove(k), UNCHANGED req
  PROVE  IInv'
<1>1. /\ UNCHANGED <<dlq, graph, stored>> /\ UNCHANGED <<run, proc, crashes, faults>>
      /\ handler' = [handler EXCEPT ![k] = NoHandler]
      /\ job' = [job EXCEPT ![k] = NoJob] /\ handler[k].step = "remove"
  BY DEF Remove
<1>2. Fits(k, NoJob)
  <2>1. DeadLettered(k)
    BY <1>1 DEF IInv, HandlerInv
  <2>2. NoJob \in Job
    BY RetriesAssumption, StalledAssumption DEF NoJob, Job, JobState
  <2>. QED
    BY <2>1, <2>2, NoSlotAssumption DEF Fits, NoJob
<1>3. /\ QueuePart'
      /\ \A q \in Key : Tracked(q) => Tracked(q)'
      /\ \A q \in Key : job'[q] = IF q = k THEN NoJob ELSE job[q]
  BY <1>1, <1>2, JobStep
<1>4. RunInv'
  BY <1>1, <1>3, RunsKept
<1>5. WorkerTypeOK'
  BY <1>1, WorkerTypes DEF IInv, TypeOK, WorkerTypeOK, HandlerStep, NoHandler
<1>6. HandlerInv'
  <2>1. \A q \in Key : handler'[q] = IF q = k THEN NoHandler ELSE handler[q]
    BY <1>1, WorkerTypes
  <2>. QED
    BY <1>1, <1>3, <2>1 DEF IInv, HandlerInv, Exhausted, DeadLettered, NoHandler
<1>. QED
  BY <1>3, <1>4, <1>5, <1>6, WorkerStep DEF WorkPart

\* The steps that leave the queue alone and can only stop runs and handlers: a
\* Redis call of a handler rejects, a process starts, stops or crashes.
LEMMA LifecycleKeeps ==
  ASSUME IInv, UNCHANGED queueVars, UNCHANGED req,
         \/ \E k \in Key : HandlerFault(k)
         \/ \E p \in Proc : Shutdown(p) \/ Exit(p) \/ Crash(p) \/ Boot(p)
  PROVE  IInv'
<1>1. /\ QueuePart'
      /\ \A q \in Key : Tracked(q) => Tracked(q)'
  BY DEF IInv, TypeOK, QueuePart, QueueTypeOK, JobInv, CompletedIsDurable,
     HalfIngestedIsTracked, JobStatus, Live, Tracked, DeadLettered, queueVars
<1>2. /\ WorkerTypeOK'
      /\ \A s \in Slot : run'[s] \in {run[s], Idle}
      /\ \A q \in Key : handler'[q] \in {handler[q], NoHandler}
  <2>1. Idle \in [key : Key \cup {NoKey}, stage : Stage]
    BY DEF Idle, Stage
  <2>2. NoHandler \in [proc : Proc \cup {NoProc}, step : HandlerStep]
    BY DEF NoHandler, HandlerStep
  <2>3. ASSUME NEW k \in Key, HandlerFault(k)
        PROVE  /\ WorkerTypeOK' /\ UNCHANGED run
               /\ \A q \in Key : handler'[q] \in {handler[q], NoHandler}
    BY <2>2, <2>3, BoundsAssumption DEF HandlerFault, IInv, TypeOK, WorkerTypeOK
  <2>4. ASSUME NEW p \in Proc, Shutdown(p) \/ Exit(p) \/ Boot(p)
        PROVE  WorkerTypeOK' /\ UNCHANGED <<run, handler>>
    BY <2>4 DEF Shutdown, Exit, Boot, IInv, TypeOK, WorkerTypeOK
  <2>5. ASSUME NEW p \in Proc, Crash(p)
        PROVE  /\ WorkerTypeOK'
               /\ \A s \in Slot : run'[s] \in {run[s], Idle}
               /\ \A q \in Key : handler'[q] \in {handler[q], NoHandler}
    BY <2>1, <2>2, <2>5, BoundsAssumption DEF Crash, IInv, TypeOK, WorkerTypeOK
  <2>. QED
    BY <2>3, <2>4, <2>5
<1>3. RunInv'
  BY <1>1, <1>2, WorkerTypes DEF IInv, RunInv, Idle, queueVars
<1>4. HandlerInv'
  <2>1. \A q \in Key : handler'[q].step \in {handler[q].step, "none"}
    BY <1>2 DEF NoHandler
  <2>2. UNCHANGED <<job, dlq>>
    BY DEF queueVars
  <2>. QED
    BY <2>1, <2>2 DEF IInv, HandlerInv, Exhausted, DeadLettered
<1>. QED
  BY <1>1, <1>2, <1>3, <1>4, WorkerStep DEF WorkPart

\* BullMQ promotes a delayed job, or evicts a completed one, whose XML is stored.
LEMMA QueueKeeps ==
  ASSUME IInv, NEW k \in Key, Promote(k) \/ EvictCompleted(k),
         UNCHANGED <<dlq, graph, stored, req, workerVars>>
  PROVE  IInv'
<1>1. UNCHANGED <<dlq, graph, stored>> /\ UNCHANGED <<run, handler, proc, crashes, faults>>
  BY DEF workerVars
<1>2. PICK j : Fits(k, j) /\ job' = [job EXCEPT ![k] = j]
  <2>1. CASE Promote(k)
    <3>1. job[k] \in Job /\ job[k].state = "delayed"
      BY <2>1, WorkerTypes DEF Promote
    <3>2. Fits(k, Promoted(job[k]))
      BY <3>1, JobOps DEF Fits, IInv, JobInv, Live
    <3>. QED
      BY <2>1, <3>2, WorkerTypes DEF Promote
  <2>2. CASE EvictCompleted(k)
    <3>1. NoJob \in Job
      BY RetriesAssumption, StalledAssumption DEF NoJob, Job, JobState
    <3>2. k \in stored
      BY <2>2 DEF EvictCompleted, IInv, CompletedIsDurable, JobStatus
    <3>3. Fits(k, NoJob)
      BY <3>1, <3>2, NoSlotAssumption DEF Fits, NoJob
    <3>. QED
      BY <2>2, <3>3 DEF EvictCompleted
  <2>. QED
    BY <2>1, <2>2
<1>3. /\ QueuePart'
      /\ \A q \in Key : Tracked(q) => Tracked(q)'
      /\ \A q \in Key : job'[q] = IF q = k THEN j ELSE job[q]
  BY <1>1, <1>2, JobStep
<1>4. RunInv'
  BY <1>1, <1>3, RunsKept
<1>5. WorkerTypeOK'
  BY <1>1 DEF IInv, TypeOK, WorkerTypeOK
<1>6. HandlerInv'
  <2>1. handler[k].step = "none"
    BY DEF Promote, EvictCompleted, IInv, HandlerInv
  <2>. QED
    BY <1>1, <1>3, <2>1, HandlersKept
<1>. QED
  BY <1>3, <1>4, <1>5, <1>6, WorkerStep DEF WorkPart

-----------------------------------------------------------------------------
(* The specification *)

\* Every step of the pipeline, and every stuttering step, keeps the invariant.
THEOREM NextIInv == IInv /\ [Next]_vars => IInv'
<1>. SUFFICES ASSUME IInv, [Next]_vars PROVE IInv'
  OBVIOUS
<1>1. CASE UploadNext /\ UNCHANGED workerVars
  <2>. PICK r \in Request : Receive(r) \/ UploadStep(r) \/ UploadFails(r)
    BY <1>1 DEF UploadNext
  <2>1. CASE Receive(r)
    BY <1>1, <2>1, ReceiveKeeps
  <2>2. CASE Enqueue(r)
    BY <1>1, <2>2, EnqueueKeeps
  <2>3. CASE CheckRejects(r) \/ CheckPasses(r) \/ LookupRejects(r)
             \/ LookupPasses(r) \/ UploadFails(r)
    <3>1. UNCHANGED queueVars
      BY <2>3 DEF CheckRejects, CheckPasses, LookupRejects, LookupPasses, UploadFails
    <3>. QED
      BY <1>1, <2>3, <3>1, LoopKeeps
  <2>. QED
    BY <2>1, <2>2, <2>3 DEF UploadStep
<1>2. CASE WorkerNext /\ UNCHANGED req
  <2>1. ASSUME NEW s \in Slot, Progress(s) PROVE IInv'
    BY <1>2, <2>1, MergeKeeps, SaveKeeps, CompleteKeeps, ThrowKeeps DEF Progress
  <2>2. ASSUME NEW k \in Key, TakeAny(k) \/ Stall(k) \/ Handle(k) PROVE IInv'
    BY <1>2, <2>2, TakeKeeps, StallKeeps, DeadLetterKeeps, RemoveKeeps
    DEF TakeAny, Handle
  <2>3. ASSUME NEW k \in Key, HandlerFault(k) PROVE IInv'
    <3>1. UNCHANGED queueVars
      BY <2>3 DEF HandlerFault
    <3>. QED
      BY <1>2, <2>3, <3>1, LifecycleKeeps
  <2>4. ASSUME NEW p \in Proc, Shutdown(p) \/ Exit(p) \/ Crash(p) \/ Boot(p)
        PROVE  IInv'
    <3>1. UNCHANGED queueVars
      BY <2>4 DEF Shutdown, Exit, Crash, Boot
    <3>. QED
      BY <1>2, <2>4, <3>1, LifecycleKeeps
  <2>. QED
    BY <1>2, <2>1, <2>2, <2>3, <2>4 DEF WorkerNext
<1>3. CASE \E k \in Key : (Promote(k) \/ EvictCompleted(k))
                           /\ UNCHANGED <<dlq, graph, stored, req, workerVars>>
  BY <1>3, QueueKeeps
<1>4. CASE UNCHANGED vars
  <2>1. UNCHANGED queueVars /\ UNCHANGED workerVars /\ UNCHANGED req
    BY <1>4 DEF vars, queueVars, workerVars
  <2>2. WorkPart'
    BY <2>1, WorkKept, Halves
  <2>3. \A k \in Key : Tracked(k) => Tracked(k)'
    BY <2>1 DEF Tracked, DeadLettered, queueVars
  <2>. QED
    BY <2>1, <2>2, <2>3, WorkerStep
<1>. QED
  BY <1>1, <1>2, <1>3, <1>4 DEF Next

\* IInv holds in every reachable state.
THEOREM Invariance == Spec => []IInv
BY InitIInv, NextIInv, PTL DEF Spec

\* The variables keep their types: no attempt or stall is counted past its limit.
THEOREM TypeCorrect == Spec => []TypeOK
<1>1. IInv => TypeOK
  BY DEF IInv
<1>. QED
  BY <1>1, Invariance, PTL

\* A nota reported `completed` has its XML stored, and what is stored is in the
\* graph.
THEOREM CompletedDurable == Spec => []CompletedIsDurable
<1>1. IInv => CompletedIsDurable
  BY DEF IInv
<1>. QED
  BY <1>1, Invariance, PTL

\* No enqueued nota is forgotten.
THEOREM AcceptedTracked == Spec => []AcceptedIsTracked
<1>1. IInv => AcceptedIsTracked
  BY DEF IInv
<1>. QED
  BY <1>1, Invariance, PTL

\* A nota that cannot be sent again is never without a job, a dead letter or
\* its XML.
THEOREM HalfIngestedTracked == Spec => []HalfIngestedIsTracked
<1>1. IInv => HalfIngestedIsTracked
  BY DEF IInv
<1>. QED
  BY <1>1, Invariance, PTL

-----------------------------------------------------------------------------
(* An exhausted job is handed over *)

\* After the step, key q is as it was, or is no exhausted failed job, or has a
\* handler.
Attended(q) ==
  \/ /\ job'[q] = job[q]
     /\ handler[q].step # "none" => handler'[q].step # "none"
  \/ job'[q].state # "failed"
  \/ ~Exhausted(job'[q])
  \/ handler'[q].step # "none"

\* A step that attends to every key and counts no crash or fault keeps the
\* property.
LEMMA AttendedKeeps ==
  ASSUME ExhaustedIsBeingMoved, UNCHANGED <<crashes, faults>>,
         \A q \in Key : Attended(q)
  PROVE  ExhaustedIsBeingMoved'
BY DEF ExhaustedIsBeingMoved, Attended, Exhausted

\* The property says nothing once something crashed or rejected.
LEMMA Excused ==
  ASSUME IInv, crashes' = crashes + 1 \/ faults' = faults + 1
  PROVE  crashes' # 0 \/ faults' # 0
BY BoundsAssumption DEF IInv, TypeOK, WorkerTypeOK

\* The upload handlers only add jobs, which are waiting.
LEMMA UploadAttends ==
  ASSUME IInv, ExhaustedIsBeingMoved, UploadNext, UNCHANGED workerVars
  PROVE  ExhaustedIsBeingMoved'
<1>1. PICK r \in Request : Receive(r) \/ UploadStep(r) \/ UploadFails(r)
  BY DEF UploadNext
<1>2. UNCHANGED <<handler, crashes, faults>>
  BY DEF workerVars
<1>3. CASE Enqueue(r)
  <2>1. \A q \in Key : job'[q] \in {job[q], NewJob(r)}
    BY <1>3, WorkerTypes DEF Enqueue, AddJob
  <2>2. \A q \in Key : Attended(q)
    BY <1>2, <2>1 DEF Attended, NewJob
  <2>. QED
    BY <1>2, <2>2, AttendedKeeps
<1>4. CASE ~Enqueue(r)
  <2>1. UNCHANGED job
    BY <1>1, <1>4 DEF Receive, UploadStep, UploadFails, CheckRejects, CheckPasses,
       LookupRejects, LookupPasses, queueVars
  <2>. QED
    BY <1>2, <2>1, AttendedKeeps DEF Attended
<1>. QED
  BY <1>3, <1>4

\* A run goes on: only a throw makes a job fail, and it starts the handler.
LEMMA ProgressAttends ==
  ASSUME IInv, ExhaustedIsBeingMoved, NEW s \in Slot, Progress(s)
  PROVE  ExhaustedIsBeingMoved'
<1>1. UNCHANGED <<crashes, faults>>
  BY DEF Progress, Merge, Save, Complete, Throw
<1>2. CASE Merge(s) \/ Save(s)
  BY <1>1, <1>2, AttendedKeeps DEF Merge, Save, Attended
<1>3. CASE Complete(s)
  <2>1. \A q \in Key : job'[q] \in {job[q], Completed(job[q])}
    BY <1>3, WorkerTypes DEF Complete
  <2>2. \A q \in Key : Completed(job[q]).state # "failed"
    BY WorkerTypes, JobOps
  <2>3. UNCHANGED handler
    BY <1>3 DEF Complete
  <2>. QED
    BY <1>1, <2>1, <2>2, <2>3, AttendedKeeps DEF Attended
<1>4. CASE Throw(s)
  <2>1. PICK k \in Key : k = run[s].key
    BY <1>4, WorkerTypes DEF Throw
  <2>2. CASE Owns(s, k)
    <3>1. job' = [job EXCEPT ![k] = FailedOnce(job[k])]
      BY <1>4, <2>1, <2>2, WorkerTypes DEF Throw
    <3>2. StartHandler(k, ProcOf[s], FailedOnce(job[k]))
      BY <1>4, <2>1, <2>2 DEF Throw
    <3>3. \A q \in Key : q # k => job'[q] = job[q] /\ handler'[q] = handler[q]
      BY <3>1, <3>2, WorkerTypes DEF StartHandler
    <3>4. ~Exhausted(job'[k]) \/ handler'[k].step = "dlq"
      BY <3>1, <3>2, WorkerTypes DEF StartHandler
    <3>. QED
      BY <1>1, <3>3, <3>4, AttendedKeeps DEF Attended
  <2>3. CASE ~Owns(s, k)
    <3>1. UNCHANGED <<job, handler>>
      BY <1>4, <2>1, <2>3 DEF Throw
    <3>. QED
      BY <1>1, <3>1, AttendedKeeps DEF Attended
  <2>. QED
    BY <2>2, <2>3
<1>. QED
  BY <1>2, <1>3, <1>4 DEF Progress

\* A job is taken, found stalled or moved: one that fails for good gets a
\* handler, and a handler ends by removing the job.
LEMMA JobAttends ==
  ASSUME IInv, ExhaustedIsBeingMoved, NEW k \in Key,
         TakeAny(k) \/ Stall(k) \/ Handle(k)
  PROVE  ExhaustedIsBeingMoved'
<1>1. UNCHANGED <<crashes, faults>>
  BY DEF TakeAny, Take, Stall, Handle, DeadLetter, Remove
<1>2. CASE TakeAny(k)
  <2>1. PICK s \in Slot : Take(s, k)
    BY <1>2 DEF TakeAny
  <2>2. Taken(job[k], s).state # "failed"
    BY WorkerTypes DEF Taken, Job
  <2>3. UNCHANGED handler /\ \A q \in Key : job'[q] = IF q = k THEN Taken(job[k], s) ELSE job[q]
    BY <2>1, WorkerTypes DEF Take
  <2>. QED
    BY <1>1, <2>2, <2>3, AttendedKeeps DEF Attended
<1>3. CASE Stall(k) /\ job[k].stalls < MaxStalled
  <2>1. Requeued(job[k]).state # "failed"
    BY <1>3, WorkerTypes, RequeuedOps
  <2>2. UNCHANGED handler /\ \A q \in Key : job'[q] = IF q = k THEN Requeued(job[k]) ELSE job[q]
    BY <1>3, WorkerTypes DEF Stall
  <2>. QED
    BY <1>1, <2>1, <2>2, AttendedKeeps DEF Attended
<1>4. CASE Stall(k) /\ ~(job[k].stalls < MaxStalled)
  <2>1. PICK p \in Proc, a \in {job[k].attempts, job[k].attempts + 1} :
          /\ job' = [job EXCEPT ![k] = StalledOut(@, a)]
          /\ StartHandler(k, p, StalledOut(job[k], a))
    BY <1>4 DEF Stall
  <2>2. \A q \in Key : q # k => job'[q] = job[q] /\ handler'[q] = handler[q]
    BY <2>1, WorkerTypes DEF StartHandler
  <2>3. ~Exhausted(job'[k]) \/ handler'[k].step = "dlq"
    BY <2>1, WorkerTypes DEF StartHandler
  <2>. QED
    BY <1>1, <2>2, <2>3, AttendedKeeps DEF Attended
<1>5. CASE DeadLetter(k)
  <2>1. /\ UNCHANGED job
        /\ \A q \in Key : handler'[q].step = IF q = k THEN "remove" ELSE handler[q].step
    BY <1>5, WorkerTypes DEF DeadLetter
  <2>. QED
    BY <1>1, <2>1, AttendedKeeps DEF Attended
<1>6. CASE Remove(k)
  <2>1. \A q \in Key : /\ q # k => job'[q] = job[q] /\ handler'[q] = handler[q]
                       /\ q = k => job'[q].state = "none"
    BY <1>6, WorkerTypes DEF Remove, NoJob
  <2>. QED
    BY <1>1, <2>1, AttendedKeeps DEF Attended
<1>. QED
  BY <1>2, <1>3, <1>4, <1>5, <1>6 DEF Handle

\* Processes start and stop gracefully without touching the handlers: Exit waits
\* for them (pendingFailures).  A crash or a rejected call excuses the property.
LEMMA LifecycleAttends ==
  ASSUME IInv, ExhaustedIsBeingMoved,
         \/ \E k \in Key : HandlerFault(k)
         \/ \E p \in Proc : Shutdown(p) \/ Exit(p) \/ Crash(p) \/ Boot(p)
  PROVE  ExhaustedIsBeingMoved'
<1>1. \/ crashes' = crashes + 1 \/ faults' = faults + 1
      \/ UNCHANGED <<job, handler, crashes, faults>>
  BY DEF HandlerFault, Shutdown, Exit, Crash, Boot, queueVars
<1>2. CASE crashes' = crashes + 1 \/ faults' = faults + 1
  BY <1>2, Excused DEF ExhaustedIsBeingMoved
<1>3. CASE UNCHANGED <<job, handler, crashes, faults>>
  BY <1>3, AttendedKeeps DEF Attended
<1>. QED
  BY <1>1, <1>2, <1>3

\* BullMQ promotes or evicts a job: it is not a failed one afterwards.
LEMMA QueueAttends ==
  ASSUME IInv, ExhaustedIsBeingMoved, NEW k \in Key, Promote(k) \/ EvictCompleted(k),
         UNCHANGED workerVars
  PROVE  ExhaustedIsBeingMoved'
<1>1. UNCHANGED <<handler, crashes, faults>>
  BY DEF workerVars
<1>2. Promoted(job[k]).state # "failed" /\ NoJob.state # "failed"
  BY WorkerTypes, JobOps DEF NoJob
<1>3. \A q \in Key : job'[q] \in {job[q]} \/ job'[q].state # "failed"
  BY <1>2, WorkerTypes DEF Promote, EvictCompleted
<1>. QED
  BY <1>1, <1>3, AttendedKeeps DEF Attended

\* Without crashes and rejected Redis calls an exhausted job of the main queue
\* always has a handler that moves it, whatever workers are shut down meanwhile.
THEOREM ExhaustedMoved == Spec => []ExhaustedIsBeingMoved
<1>1. Init => ExhaustedIsBeingMoved
  BY DEF Init, QueueInit, WorkerInit, ExhaustedIsBeingMoved, NoJob
<1>2. IInv /\ ExhaustedIsBeingMoved /\ [Next]_vars => ExhaustedIsBeingMoved'
  <2>. SUFFICES ASSUME IInv, ExhaustedIsBeingMoved, [Next]_vars
                PROVE  ExhaustedIsBeingMoved'
    OBVIOUS
  <2>1. CASE UploadNext /\ UNCHANGED workerVars
    BY <2>1, UploadAttends
  <2>2. CASE WorkerNext
    BY <2>2, ProgressAttends, JobAttends, LifecycleAttends DEF WorkerNext
  <2>3. CASE \E k \in Key : (Promote(k) \/ EvictCompleted(k))
                            /\ UNCHANGED <<dlq, graph, stored, req, workerVars>>
    BY <2>3, QueueAttends
  <2>4. CASE UNCHANGED vars
    BY <2>4 DEF vars, ExhaustedIsBeingMoved, Exhausted
  <2>. QED
    BY <2>1, <2>2, <2>3, <2>4 DEF Next
<1>. QED
  BY <1>1, <1>2, Invariance, PTL DEF Spec

-----------------------------------------------------------------------------
(* A dead letter is final *)

\* The first n files of the batch of r have different keys.
DistinctUpTo(r, n) ==
  \A j \in 1..n : \A i \in 1..(j - 1) : req[r].batch[i].key # req[r].batch[j].key

\* Upload r has called queue.add for k.
SentBy(r, k) == \E i \in 1..req[r].enfileiradas : req[r].batch[i].key = k

\* How far the check of an upload has come.
BatchInv ==
  \A r \in Request :
    /\ req[r].pc = "check" => DistinctUpTo(r, req[r].pos - 1)
    /\ req[r].pc \in {"enqueue", "add"} => DistinctUpTo(r, Len(req[r].batch))

\* Every payload in the queues was sent by the upload it names.
OriginInv ==
  /\ \A k \in Key : IF job[k].state = "none" THEN job[k].origem = NoRequest
                    ELSE SentBy(job[k].origem, k)
  /\ \A d \in dlq : SentBy(d.origem, d.key)

\* The job of a dead letter's payload is over.
DeadIsOver == \A d \in dlq : job[d.key].origem = d.origem => job[d.key].state = "failed"

FInv == BatchInv /\ OriginInv /\ DeadIsOver

\* The types IInv gives the uploads and the dead letters.
LEMMA UploadTypes ==
  ASSUME IInv
  PROVE  /\ req \in [Request -> [pc : ReqPC, batch : Batch \cup {<<>>},
                                 pos : Nat \ {0}, enfileiradas : Nat]]
         /\ \A r \in Request : Len(req[r].batch) \in Nat
         /\ \A d \in dlq : d.key \in Key /\ d.origem \in Request
<1>1. req \in [Request -> [pc : ReqPC, batch : Batch \cup {<<>>},
                           pos : Nat \ {0}, enfileiradas : Nat]]
  BY DEF IInv, TypeOK, UploadTypeOK
<1>2. \A r \in Request : Len(req[r].batch) \in Nat
  BY <1>1, BatchAssumption
<1>3. \A d \in dlq : d.key \in Key /\ d.origem \in Request
  BY DEF IInv, TypeOK, QueueTypeOK, DeadLetterRecord
<1>. QED
  BY <1>1, <1>2, <1>3

\* Nothing is sent and no batch is open in the initial states.
THEOREM InitFInv == Init => FInv
BY DEF Init, QueueInit, UploadInit, FInv, BatchInv, OriginInv, DeadIsOver, NoJob

-----------------------------------------------------------------------------
(* The uploads *)

\* A step of upload r that adds nothing: what it sent stays sent.
LEMMA QuietKeeps ==
  ASSUME IInv, FInv, NEW r \in Request, UNCHANGED queueVars,
         \A q \in Request : q # r => req'[q] = req[q],
         req'[r].enfileiradas = req[r].enfileiradas,
         req'[r].batch = req[r].batch \/ req[r].enfileiradas = 0,
         /\ req'[r].pc = "check" => DistinctUpTo(r, req[r].pos - 1)'
         /\ req'[r].pc \in {"enqueue", "add"} => DistinctUpTo(r, Len(req[r].batch))'
  PROVE  FInv'
<1>1. \A q \in Request : \A k : SentBy(q, k) => SentBy(q, k)'
  BY UploadTypes DEF SentBy
<1>2. BatchInv'
  <2>. DEFINE BatchOf(q) ==
         /\ req[q].pc = "check" => DistinctUpTo(q, req[q].pos - 1)
         /\ req[q].pc \in {"enqueue", "add"} => DistinctUpTo(q, Len(req[q].batch))
  <2>1. ASSUME NEW q \in Request, q # r
        PROVE  BatchOf(q)'
    <3>1. BatchOf(q) /\ req'[q] = req[q]
      BY <2>1 DEF FInv, BatchInv
    <3>. QED
      BY <3>1 DEF DistinctUpTo
  <2>2. BatchOf(r)'
    BY DEF DistinctUpTo
  <2>. QED
    BY <2>1, <2>2 DEF BatchInv
<1>3. OriginInv'
  <2>1. \A k \in Key : job[k].state # "none" => job[k].origem \in Request
    BY DEF IInv, JobInv
  <2>. QED
    BY <1>1, <2>1, UploadTypes DEF FInv, OriginInv, queueVars
<1>4. DeadIsOver'
  BY DEF FInv, DeadIsOver, queueVars
<1>. QED
  BY <1>2, <1>3, <1>4 DEF FInv

\* The batch is received and screened, checked file by file, or given up.
LEMMA LoopFinal ==
  ASSUME IInv, FInv, NEW r \in Request,
         \/ Receive(r) \/ CheckRejects(r) \/ CheckPasses(r)
         \/ LookupRejects(r) \/ LookupPasses(r) \/ UploadFails(r)
  PROVE  FInv'
<1>. USE UploadTypes
<1>1. UNCHANGED queueVars
  BY DEF Receive, CheckRejects, CheckPasses, LookupRejects, LookupPasses, UploadFails
<1>2. CASE Receive(r)
  <2>1. PICK batch \in Batch :
          req' = [req EXCEPT ![r] = [pc |-> Screen(batch), batch |-> batch,
                                     pos |-> 1, enfileiradas |-> 0]]
    BY <1>2 DEF Receive
  <2>2. req[r].enfileiradas = 0
    BY <1>2 DEF Receive, IInv, LoopInv
  <2>3. /\ req'[r] = [pc |-> Screen(batch), batch |-> batch, pos |-> 1, enfileiradas |-> 0]
        /\ \A q \in Request : q # r => req'[q] = req[q]
    BY <2>1
  <2>4. req'[r].pc \in {"400", "422", "check"}
    BY <2>3 DEF Screen
  <2>5. DistinctUpTo(r, req[r].pos - 1)'
    BY <2>3 DEF DistinctUpTo
  <2>. QED
    BY <1>1, <2>2, <2>3, <2>4, <2>5, QuietKeeps
<1>3. CASE CheckRejects(r) \/ LookupRejects(r) \/ UploadFails(r)
  <2>1. PICK code \in {"409", "413", "500"} : req' = [req EXCEPT ![r].pc = code]
    BY <1>3 DEF CheckRejects, LookupRejects, UploadFails, ReplyWith
  <2>2. /\ req'[r].pc = code /\ req'[r].batch = req[r].batch
        /\ req'[r].enfileiradas = req[r].enfileiradas
        /\ \A q \in Request : q # r => req'[q] = req[q]
    BY <2>1
  <2>. QED
    BY <1>1, <2>2, QuietKeeps
<1>4. CASE LookupPasses(r)
  <2>1. /\ req'[r].pc = "add" /\ req'[r].batch = req[r].batch
        /\ req'[r].enfileiradas = req[r].enfileiradas /\ req'[r].pos = req[r].pos
        /\ \A q \in Request : q # r => req'[q] = req[q]
    BY <1>4 DEF LookupPasses, ReplyWith
  <2>2. DistinctUpTo(r, Len(req[r].batch))
    BY <1>4 DEF LookupPasses, FInv, BatchInv
  <2>3. DistinctUpTo(r, Len(req[r].batch))'
    BY <2>1, <2>2 DEF DistinctUpTo
  <2>. QED
    BY <1>1, <2>1, <2>2, <2>3, QuietKeeps
<1>5. CASE CheckPasses(r)
  <2>1. /\ req[r].pc = "check"
        /\ DistinctUpTo(r, req[r].pos - 1) /\ ~RepeatedInBatch(r)
    BY <1>5 DEF CheckPasses, FInv, BatchInv
  <2>2. DistinctUpTo(r, req[r].pos)
    <3>1. ASSUME NEW j \in 1..req[r].pos, NEW i \in 1..(j - 1)
          PROVE  req[r].batch[i].key # req[r].batch[j].key
      <4>1. CASE j = req[r].pos
        BY <2>1, <3>1, <4>1 DEF RepeatedInBatch, Current
      <4>2. CASE j # req[r].pos
        <5>1. j \in 1..(req[r].pos - 1)
          BY <3>1, <4>2
        <5>. QED
          BY <2>1, <3>1, <5>1 DEF DistinctUpTo
      <4>. QED
        BY <4>1, <4>2
    <3>. QED
      BY <3>1 DEF DistinctUpTo
  <2>3. /\ req'[r].batch = req[r].batch /\ req'[r].enfileiradas = req[r].enfileiradas
        /\ \A q \in Request : q # r => req'[q] = req[q]
    BY <1>5 DEF CheckPasses
  <2>4. CASE LastFile(r)
    <3>1. req'[r].pc = "enqueue" /\ req'[r].pos = 1
      BY <1>5, <2>4 DEF CheckPasses
    <3>2. DistinctUpTo(r, Len(req[r].batch))'
      BY <2>2, <2>3, <2>4 DEF DistinctUpTo, LastFile
    <3>. QED
      BY <1>1, <2>1, <2>3, <3>1, <3>2, QuietKeeps
  <2>5. CASE ~LastFile(r)
    <3>1. req'[r].pc = "check" /\ req'[r].pos = req[r].pos + 1
      BY <1>5, <2>1, <2>5 DEF CheckPasses
    <3>2. DistinctUpTo(r, req[r].pos - 1)'
      BY <2>2, <2>3, <3>1 DEF DistinctUpTo
    <3>. QED
      BY <1>1, <2>1, <2>3, <3>1, <3>2, QuietKeeps
  <2>. QED
    BY <2>4, <2>5
<1>. QED
  BY <1>2, <1>3, <1>4, <1>5

\* queue.add: a new job's payload is in no dead letter, because this upload has
\* not sent the key before.
LEMMA EnqueueFinal ==
  ASSUME IInv, FInv, NEW r \in Request, Enqueue(r)
  PROVE  FInv'
<1>. USE UploadTypes
<1>1. PICK n : n = req[r].pos
  OBVIOUS
<1>2. /\ n \in 1..Len(req[r].batch) /\ n \in Nat \ {0}
      /\ req[r].enfileiradas = n - 1 /\ DistinctUpTo(r, Len(req[r].batch))
  BY <1>1 DEF Enqueue, IInv, LoopInv, FInv, BatchInv
<1>3. PICK k \in Key : k = req[r].batch[n].key
  BY <1>1, <1>2, FileOfBatch DEF File
<1>4. k = Current(r).key
  BY <1>1, <1>3 DEF Current
<1>5. /\ req'[r].batch = req[r].batch /\ req'[r].enfileiradas = n
      /\ \/ req'[r].pc = "202"
         \/ req'[r].pc = "enqueue" /\ req'[r].pos = n + 1
      /\ \A q \in Request : q # r => req'[q] = req[q]
  BY <1>1, <1>2 DEF Enqueue
<1>6. UNCHANGED dlq
  BY DEF Enqueue
<1>7. \A q \in Key : \/ job'[q] = job[q]
                     \/ q = k /\ job[k].state = "none" /\ job'[q] = NewJob(r)
  BY <1>4, WorkerTypes DEF Enqueue, AddJob
<1>8. job'[k].state # "none"
  BY <1>4, WorkerTypes DEF Enqueue, AddJob, NewJob
<1>9. \A q \in Request : \A x : SentBy(q, x) => SentBy(q, x)'
  BY <1>2, <1>5 DEF SentBy
<1>10. ~SentBy(r, k) /\ SentBy(r, k)'
  <2>1. \A i \in 1..(n - 1) : req[r].batch[i].key # k
    BY <1>2, <1>3 DEF DistinctUpTo
  <2>. QED
    BY <1>2, <1>3, <1>5, <2>1 DEF SentBy
<1>11. BatchInv'
  <2>1. DistinctUpTo(r, Len(req[r].batch))'
    BY <1>2, <1>5 DEF DistinctUpTo
  <2>2. \A q \in Request : q # r =>
          /\ DistinctUpTo(q, req[q].pos - 1) => DistinctUpTo(q, req[q].pos - 1)'
          /\ DistinctUpTo(q, Len(req[q].batch)) => DistinctUpTo(q, Len(req[q].batch))'
    BY <1>5 DEF DistinctUpTo
  <2>. QED
    BY <1>2, <1>5, <2>1, <2>2 DEF FInv, BatchInv
<1>12. OriginInv'
  <2>1. \A q \in Key : job[q].state # "none" => job[q].origem \in Request
    BY DEF IInv, JobInv
  <2>2. \A d \in dlq : SentBy(d.origem, d.key)'
    BY <1>9 DEF FInv, OriginInv
  <2>3. ASSUME NEW q \in Key
        PROVE  IF job'[q].state = "none" THEN job'[q].origem = NoRequest
               ELSE SentBy(job[q].origem, q)'
    BY <1>7, <1>9, <1>10, <2>1 DEF FInv, OriginInv, NewJob
  <2>. QED
    BY <1>6, <2>2, <2>3 DEF OriginInv
<1>13. DeadIsOver'
  BY <1>6, <1>7, <1>10 DEF FInv, DeadIsOver, OriginInv, NewJob
<1>. QED
  BY <1>11, <1>12, <1>13 DEF FInv

-----------------------------------------------------------------------------
(* The workers *)

\* The uploads are left alone, and every payload was there before.
LEMMA WorkerFinal ==
  ASSUME IInv, FInv, UNCHANGED req, OriginInv', DeadIsOver'
  PROVE  FInv'
BY DEF FInv, BatchInv, DistinctUpTo

\* A step that replaces the job of k: one that was neither absent nor failed
\* keeps its payload, or the job goes.
LEMMA JobFinal ==
  ASSUME IInv, FInv, UNCHANGED <<req, dlq>>, NEW k \in Key, NEW j,
         job' = [job EXCEPT ![k] = j],
         \/ /\ job[k].state \notin {"none", "failed"}
            /\ j.state # "none" /\ j.origem = job[k].origem
         \/ j = NoJob
  PROVE  FInv'
<1>1. \A q \in Key : job'[q] = IF q = k THEN j ELSE job[q]
  BY WorkerTypes
<1>2. OriginInv'
  BY <1>1 DEF FInv, OriginInv, SentBy, NoJob
<1>3. DeadIsOver'
  BY <1>1, UploadTypes, NoRequestAssumption DEF FInv, DeadIsOver, NoJob
<1>. QED
  BY <1>2, <1>3, WorkerFinal

\* A run changes the job only if its slot owns it, which is then active.
LEMMA ProgressFinal ==
  ASSUME IInv, FInv, UNCHANGED req, NEW s \in Slot, Progress(s)
  PROVE  FInv'
<1>1. PICK k \in Key : k = run[s].key
  BY WorkerTypes DEF Progress, Merge, Save, Complete, Throw
<1>2. UNCHANGED dlq
  BY DEF Progress, Merge, Save, Complete, Throw
<1>3. CASE UNCHANGED job
  BY <1>2, <1>3, WorkerFinal DEF FInv, OriginInv, SentBy, DeadIsOver
<1>4. CASE (Complete(s) \/ Throw(s)) /\ Owns(s, k)
  <2>1. PICK j : j \in {Completed(job[k]), FailedOnce(job[k])}
                 /\ job' = [job EXCEPT ![k] = j]
    BY <1>1, <1>4, WorkerTypes DEF Complete, Throw
  <2>2. job[k].state = "active" /\ job[k] \in Job /\ job[k].attempts < MaxRetries
    BY <1>4, OwnedJob, ActiveJob
  <2>3. j.state # "none" /\ j.origem = job[k].origem
    BY <2>1, <2>2, JobOps, FailedJobOps
  <2>. QED
    BY <1>2, <2>1, <2>2, <2>3, JobFinal
<1>. QED
  BY <1>1, <1>3, <1>4 DEF Progress, Merge, Save, Complete, Throw

\* A job is taken, found stalled, recorded as dead when it has failed, or removed.
LEMMA KeyFinal ==
  ASSUME IInv, FInv, UNCHANGED req, NEW k \in Key, TakeAny(k) \/ Stall(k) \/ Handle(k)
  PROVE  FInv'
<1>1. CASE TakeAny(k)
  <2>1. PICK s \in Slot : Take(s, k)
    BY <1>1 DEF TakeAny
  <2>2. PICK j : j = Taken(job[k], s) /\ job' = [job EXCEPT ![k] = j]
    BY <2>1, WorkerTypes DEF Take
  <2>3. j.state = "active" /\ j.origem = job[k].origem
    BY <2>2, WorkerTypes DEF Taken, Job
  <2>. QED
    BY <2>1, <2>2, <2>3, JobFinal DEF Take
<1>2. CASE Stall(k)
  <2>1. job[k].state = "active" /\ job[k] \in Job /\ job[k].attempts < MaxRetries
    BY <1>2, ActiveJob DEF Stall
  <2>2. PICK j : /\ job' = [job EXCEPT ![k] = j]
                 /\ j.state # "none" /\ j.origem = job[k].origem
    <3>1. CASE job[k].stalls < MaxStalled
      <4>1. PICK j : j = Requeued(job[k]) /\ job' = [job EXCEPT ![k] = j]
        BY <1>2, <3>1, WorkerTypes DEF Stall
      <4>. QED
        BY <2>1, <3>1, <4>1, RequeuedOps
    <3>2. CASE ~(job[k].stalls < MaxStalled)
      <4>1. PICK a \in {job[k].attempts, job[k].attempts + 1} :
              job' = [job EXCEPT ![k] = StalledOut(@, a)]
        BY <1>2, <3>2 DEF Stall
      <4>2. PICK j : j = StalledOut(job[k], a) /\ job' = [job EXCEPT ![k] = j]
        BY <4>1, WorkerTypes
      <4>. QED
        BY <2>1, <4>2, FailedJobOps
    <3>. QED
      BY <3>1, <3>2
  <2>3. UNCHANGED dlq
    BY <1>2 DEF Stall
  <2>. QED
    BY <2>1, <2>2, <2>3, JobFinal
<1>3. CASE DeadLetter(k)
  <2>1. UNCHANGED job /\ job[k].state = "failed" /\ MoveToDeadLetter(k)
    BY <1>3 DEF DeadLetter, IInv, HandlerInv
  <2>2. \A d \in dlq' : d \in dlq \/ (d.key = k /\ d.origem = job[k].origem)
    BY <2>1 DEF MoveToDeadLetter
  <2>3. OriginInv'
    BY <2>1, <2>2 DEF FInv, OriginInv, SentBy
  <2>4. DeadIsOver'
    BY <2>1, <2>2 DEF FInv, DeadIsOver
  <2>. QED
    BY <2>3, <2>4, WorkerFinal
<1>4. CASE Remove(k)
  BY <1>4, JobFinal DEF Remove
<1>. QED
  BY <1>1, <1>2, <1>3, <1>4 DEF Handle

\* BullMQ promotes a delayed job or evicts a completed one.
LEMMA QueueFinal ==
  ASSUME IInv, FInv, UNCHANGED <<req, dlq>>, NEW k \in Key, Promote(k) \/ EvictCompleted(k)
  PROVE  FInv'
<1>1. CASE Promote(k)
  <2>1. PICK j : j = Promoted(job[k]) /\ job' = [job EXCEPT ![k] = j]
    BY <1>1, WorkerTypes DEF Promote
  <2>2. j.state = "waiting" /\ j.origem = job[k].origem
    BY <2>1, WorkerTypes, JobOps
  <2>. QED
    BY <1>1, <2>1, <2>2, JobFinal DEF Promote
<1>2. CASE EvictCompleted(k)
  BY <1>2, JobFinal DEF EvictCompleted
<1>. QED
  BY <1>1, <1>2

-----------------------------------------------------------------------------
\* Every step keeps the batches distinct and the dead letters final.
THEOREM NextFInv == IInv /\ FInv /\ [Next]_vars => FInv'
<1>. SUFFICES ASSUME IInv, FInv, [Next]_vars PROVE FInv'
  OBVIOUS
<1>1. CASE UploadNext
  BY <1>1, LoopFinal, EnqueueFinal DEF UploadNext, UploadStep
<1>2. CASE WorkerNext /\ UNCHANGED req
  <2>1. CASE \E s \in Slot : Progress(s)
    BY <1>2, <2>1, ProgressFinal
  <2>2. CASE \E k \in Key : TakeAny(k) \/ Stall(k) \/ Handle(k)
    BY <1>2, <2>2, KeyFinal
  <2>3. CASE \/ \E k \in Key : HandlerFault(k)
             \/ \E p \in Proc : Shutdown(p) \/ Exit(p) \/ Crash(p) \/ Boot(p)
    <3>1. UNCHANGED <<job, dlq>>
      BY <2>3 DEF HandlerFault, Shutdown, Exit, Crash, Boot, queueVars
    <3>. QED
      BY <1>2, <3>1, WorkerFinal DEF FInv, OriginInv, SentBy, DeadIsOver
  <2>. QED
    BY <1>2, <2>1, <2>2, <2>3 DEF WorkerNext
<1>3. CASE \E k \in Key : (Promote(k) \/ EvictCompleted(k))
                          /\ UNCHANGED <<dlq, graph, stored, req, workerVars>>
  BY <1>3, QueueFinal
<1>4. CASE UNCHANGED vars
  <2>1. UNCHANGED <<job, dlq, req>>
    BY <1>4 DEF vars
  <2>. QED
    BY <2>1, WorkerFinal DEF FInv, OriginInv, SentBy, DeadIsOver
<1>. QED
  BY <1>1, <1>2, <1>3, <1>4 DEF Next

\* A job with the payload a dead letter records is neither waiting nor delayed,
\* and no run holds its lock.
THEOREM DeadLettersFinal == Spec => []DeadLetterIsFinal
<1>1. IInv /\ FInv => DeadLetterIsFinal
  BY UploadTypes DEF FInv, DeadIsOver, DeadLetterIsFinal, Owns, IInv, JobInv
<1>. QED
  BY <1>1, InitFInv, NextFInv, Invariance, PTL DEF Spec

-----------------------------------------------------------------------------
(* The pipeline implements the ledger *)

LedgerState == [q \in Key |-> LedgerStatus(q)]

\* What the ledger lets the status of a key do in one step.
LedgerMove(a, b) ==
  \/ a = b
  \/ a \in {"unknown", "dead"} /\ b = "pending"
  \/ a \in {"pending", "dead"} /\ b = "ingested"
  \/ a = "pending" /\ b = "dead"

\* A step that moves the status of one key that way is one of the ledger.
LEMMA LedgerStep ==
  ASSUME NEW k \in Key,
         \A q \in Key : q # k => LedgerStatus(q)' = LedgerStatus(q),
         LedgerMove(LedgerStatus(k), LedgerStatus(k)')
  PROVE  Ledger!Next \/ UNCHANGED LedgerState
<1>. DEFINE old == LedgerState
            new == [q \in Key |-> LedgerStatus(q)']
<1>1. \A q \in Key : old[q] = LedgerStatus(q) /\ new[q] = LedgerStatus(q)'
  BY DEF LedgerState
<1>2. \A b : b = LedgerStatus(k)' => new = [old EXCEPT ![k] = b]
  BY <1>1 DEF LedgerState
<1>3. LedgerStatus(k) = LedgerStatus(k)' => new = old
  BY <1>1 DEF LedgerState
<1>. QED
  BY <1>2, <1>3 DEF LedgerMove, LedgerState, Ledger!Next, Ledger!Accept, Ledger!Ingest,
     Ledger!GiveUp

\* A step that leaves the jobs, the dead letters and the storage alone.
LEMMA LedgerKept ==
  ASSUME UNCHANGED <<job, dlq, stored>>
  PROVE  UNCHANGED LedgerState
BY DEF LedgerState, LedgerStatus, Live, DeadLettered

\* A step that replaces the job of k: a live job makes the key pending, any
\* other only ends what was known before and leaves something behind.
LEMMA JobLedger ==
  ASSUME IInv, NEW k \in Key, NEW j,
         job' = [job EXCEPT ![k] = j], UNCHANGED <<dlq, stored>>,
         \/ j.state \in {"waiting", "active", "delayed"}
         \/ j.state # "none" /\ Tracked(k)
         \/ DeadLettered(k) \/ k \in stored
  PROVE  Ledger!Next \/ UNCHANGED LedgerState
<1>1. \A q \in Key : job'[q] = IF q = k THEN j ELSE job[q]
  BY WorkerTypes
<1>2. \A q \in Key : q # k => LedgerStatus(q)' = LedgerStatus(q)
  BY <1>1 DEF LedgerStatus, Live, DeadLettered
<1>3. LedgerMove(LedgerStatus(k), LedgerStatus(k)')
  BY <1>1 DEF LedgerMove, LedgerStatus, Live, DeadLettered, Tracked
<1>. QED
  BY <1>2, <1>3, LedgerStep

\* queue.add of a key accepts it, or is the no-op of an id that exists.
LEMMA UploadLedger ==
  ASSUME IInv, UploadNext
  PROVE  Ledger!Next \/ UNCHANGED LedgerState
<1>1. PICK r \in Request : Receive(r) \/ UploadStep(r) \/ UploadFails(r)
  BY DEF UploadNext
<1>2. CASE Enqueue(r)
  <2>1. Current(r).key \in Key
    <3>1. req[r].batch \in Batch \cup {<<>>} /\ req[r].pos \in 1..Len(req[r].batch)
      BY <1>2 DEF Enqueue, IInv, TypeOK, UploadTypeOK, LoopInv
    <3>. QED
      BY <3>1, FileOfBatch DEF Current, File
  <2>2. CASE job[Current(r).key].state = "none"
    <3>1. job' = [job EXCEPT ![Current(r).key] = NewJob(r)]
      BY <1>2, <2>2 DEF Enqueue, AddJob
    <3>. QED
      BY <1>2, <2>1, <3>1, JobLedger DEF Enqueue, NewJob
  <2>3. CASE job[Current(r).key].state # "none"
    BY <1>2, <2>3, LedgerKept DEF Enqueue, AddJob
  <2>. QED
    BY <2>2, <2>3
<1>3. CASE ~Enqueue(r)
  <2>1. UNCHANGED queueVars
    BY <1>1, <1>3 DEF Receive, UploadStep, UploadFails, CheckRejects, CheckPasses,
       LookupRejects, LookupPasses
  <2>. QED
    BY <2>1, LedgerKept DEF queueVars
<1>. QED
  BY <1>2, <1>3

\* The end of storage.save ingests the key, which is tracked while it is run;
\* a result changes the job if the slot still owns it.
LEMMA ProgressLedger ==
  ASSUME IInv, NEW s \in Slot, Progress(s)
  PROVE  Ledger!Next \/ UNCHANGED LedgerState
<1>1. PICK k \in Key : k = run[s].key
  BY WorkerTypes DEF Progress, Merge, Save, Complete, Throw
<1>2. CASE Merge(s)
  BY <1>2, LedgerKept DEF Merge
<1>3. CASE Save(s)
  <2>1. Tracked(k)
    BY <1>1, <1>3 DEF Save, IInv, RunInv
  <2>2. UNCHANGED <<job, dlq>> /\ stored' = stored \cup {k}
    BY <1>1, <1>3 DEF Save
  <2>3. \A q \in Key : q # k => LedgerStatus(q)' = LedgerStatus(q)
    BY <2>2 DEF LedgerStatus, Live, DeadLettered
  <2>4. LedgerMove(LedgerStatus(k), LedgerStatus(k)')
    BY <2>1, <2>2 DEF LedgerMove, LedgerStatus, Live, DeadLettered, Tracked
  <2>. QED
    BY <2>3, <2>4, LedgerStep
<1>4. CASE (Complete(s) \/ Throw(s)) /\ ~Owns(s, k)
  BY <1>1, <1>4, LedgerKept DEF Complete, Throw
<1>5. CASE (Complete(s) \/ Throw(s)) /\ Owns(s, k)
  <2>1. PICK j : j \in {Completed(job[k]), FailedOnce(job[k])}
                 /\ job' = [job EXCEPT ![k] = j]
    BY <1>1, <1>5, WorkerTypes DEF Complete, Throw
  <2>2. job[k].state = "active" /\ job[k] \in Job /\ job[k].attempts < MaxRetries
    BY <1>5, OwnedJob, ActiveJob
  <2>3. j.state # "none"
    BY <2>1, <2>2, JobOps, FailedJobOps
  <2>4. UNCHANGED <<dlq, stored>>
    BY <1>5 DEF Complete, Throw
  <2>. QED
    BY <2>1, <2>2, <2>3, <2>4, JobLedger DEF Tracked
<1>. QED
  BY <1>2, <1>3, <1>4, <1>5 DEF Progress

\* A job is taken, put back or given up; a dead letter is written and its job
\* removed.
LEMMA KeyLedger ==
  ASSUME IInv, NEW k \in Key, TakeAny(k) \/ Stall(k) \/ Handle(k)
  PROVE  Ledger!Next \/ UNCHANGED LedgerState
<1>1. CASE TakeAny(k)
  <2>1. PICK s \in Slot : Take(s, k)
    BY <1>1 DEF TakeAny
  <2>2. PICK j : j = Taken(job[k], s) /\ job' = [job EXCEPT ![k] = j]
    BY <2>1, WorkerTypes DEF Take
  <2>3. j.state = "active"
    BY <2>2, WorkerTypes DEF Taken, Job
  <2>. QED
    BY <2>1, <2>2, <2>3, JobLedger DEF Take
<1>2. CASE Stall(k)
  <2>1. job[k].state = "active" /\ job[k] \in Job /\ job[k].attempts < MaxRetries
    BY <1>2, ActiveJob DEF Stall
  <2>2. CASE job[k].stalls < MaxStalled
    <3>1. PICK j : j = Requeued(job[k]) /\ job' = [job EXCEPT ![k] = j]
      BY <1>2, <2>2, WorkerTypes DEF Stall
    <3>2. j.state = "waiting"
      BY <2>1, <2>2, <3>1, RequeuedOps
    <3>. QED
      BY <1>2, <3>1, <3>2, JobLedger DEF Stall
  <2>3. CASE ~(job[k].stalls < MaxStalled)
    <3>1. PICK a \in {job[k].attempts, job[k].attempts + 1} :
            job' = [job EXCEPT ![k] = StalledOut(@, a)]
      BY <1>2, <2>3 DEF Stall
    <3>2. PICK j : j = StalledOut(job[k], a) /\ job' = [job EXCEPT ![k] = j]
      BY <3>1, WorkerTypes
    <3>3. j.state = "failed"
      BY <2>1, <3>2, FailedJobOps
    <3>4. UNCHANGED <<dlq, stored>>
      BY <1>2 DEF Stall
    <3>. QED
      BY <2>1, <3>2, <3>3, <3>4, JobLedger DEF Tracked
  <2>. QED
    BY <2>2, <2>3
<1>3. CASE DeadLetter(k)
  <2>1. /\ UNCHANGED <<job, stored>> /\ job[k].state = "failed"
        /\ MoveToDeadLetter(k)
    BY <1>3 DEF DeadLetter, IInv, HandlerInv
  <2>2. \A q \in Key : q # k => (DeadLettered(q)' <=> DeadLettered(q))
    BY <2>1 DEF MoveToDeadLetter, DeadLettered
  <2>3. \A q \in Key : LedgerStatus(q)' = LedgerStatus(q)
    BY <2>1, <2>2 DEF LedgerStatus, Live
  <2>. QED
    BY <2>3 DEF LedgerState
<1>4. CASE Remove(k)
  <2>1. DeadLettered(k)
    BY <1>4 DEF Remove, IInv, HandlerInv
  <2>. QED
    BY <1>4, <2>1, JobLedger DEF Remove
<1>. QED
  BY <1>1, <1>2, <1>3, <1>4 DEF Handle

\* BullMQ promotes a delayed job, or evicts a completed one, whose XML is stored.
LEMMA QueueLedger ==
  ASSUME IInv, NEW k \in Key, Promote(k) \/ EvictCompleted(k), UNCHANGED <<dlq, stored>>
  PROVE  Ledger!Next \/ UNCHANGED LedgerState
<1>1. CASE Promote(k)
  <2>1. PICK j : j = Promoted(job[k]) /\ job' = [job EXCEPT ![k] = j]
    BY <1>1, WorkerTypes DEF Promote
  <2>2. j.state = "waiting"
    BY <2>1, WorkerTypes, JobOps
  <2>. QED
    BY <2>1, <2>2, JobLedger
<1>2. CASE EvictCompleted(k)
  <2>1. k \in stored
    BY <1>2 DEF EvictCompleted, IInv, CompletedIsDurable, JobStatus
  <2>. QED
    BY <1>2, <2>1, JobLedger DEF EvictCompleted
<1>. QED
  BY <1>1, <1>2

\* Initially every key is unknown.
LEMMA InitLedger == Init => Ledger!Init
BY DEF Init, QueueInit, Ledger!Init, LedgerStatus, Live, DeadLettered, NoJob

\* Every step of the pipeline is a step of the ledger or a stutter.
LEMMA NextLedger ==
  ASSUME IInv, [Next]_vars
  PROVE  [Ledger!Next]_LedgerState
<1>1. CASE UploadNext
  BY <1>1, UploadLedger
<1>2. CASE WorkerNext
  <2>1. CASE \E s \in Slot : Progress(s)
    BY <2>1, ProgressLedger
  <2>2. CASE \E k \in Key : TakeAny(k) \/ Stall(k) \/ Handle(k)
    BY <2>2, KeyLedger
  <2>3. CASE \/ \E k \in Key : HandlerFault(k)
             \/ \E p \in Proc : Shutdown(p) \/ Exit(p) \/ Crash(p) \/ Boot(p)
    <3>1. UNCHANGED <<job, dlq, stored>>
      BY <2>3 DEF HandlerFault, Shutdown, Exit, Crash, Boot, queueVars
    <3>. QED
      BY <3>1, LedgerKept
  <2>. QED
    BY <1>2, <2>1, <2>2, <2>3 DEF WorkerNext
<1>3. CASE \E k \in Key : (Promote(k) \/ EvictCompleted(k))
                          /\ UNCHANGED <<dlq, graph, stored, req, workerVars>>
  BY <1>3, QueueLedger
<1>4. CASE UNCHANGED vars
  BY <1>4, LedgerKept DEF vars
<1>. QED
  BY <1>1, <1>2, <1>3, <1>4 DEF Next

\* Every behaviour of the pipeline is one of the ledger: no enqueued key is
\* forgotten, an ingested one stays ingested, and none is ingested that was not
\* enqueued.
THEOREM Refinement == Spec => ImplementsLedger
<1>1. IInv /\ [Next]_vars => [Ledger!Next]_[k \in Key |-> LedgerStatus(k)]
  BY NextLedger DEF LedgerState
<1>. QED
  BY <1>1, InitLedger, Invariance, PTL DEF Spec, ImplementsLedger, Ledger!Spec
-----------------------------------------------------------------------------
(* The upload dialog *)

\* Every step of the dialog is one of the pipeline, or leaves it as it is.
LEMMA DialogStep ==
  DialogNext => [Next]_vars
<1>. SUFFICES ASSUME DialogNext PROVE [Next]_vars
  OBVIOUS
<1>1. ASSUME NEW r \in Request, Enviar(r)
      PROVE  Next
  BY <1>1 DEF Enviar, Next, UploadNext
<1>2. ASSUME NEW r \in Request, UploadStep(r) \/ UploadFails(r), UNCHANGED <<workerVars, dialog>>
      PROVE  Next
  BY <1>2 DEF Next, UploadNext
<1>3. CASE WorkerNext /\ UNCHANGED <<req, dialog>>
  BY <1>3 DEF Next
<1>4. ASSUME NEW k \in Key, Promote(k) \/ EvictCompleted(k),
             UNCHANGED <<dlq, graph, stored, req, workerVars, dialog>>
      PROVE  Next
  BY <1>4 DEF Next
<1>5. Selecionar \/ Tick \/ (\E r \in Request : Resposta(r) \/ SemResposta(r))
        \/ (\E a \in dialog.answers : Chega(a)) => UNCHANGED vars
  BY DEF Selecionar, Tick, Resposta, SemResposta, Chega
<1>. QED
  BY <1>1, <1>2, <1>3, <1>4, <1>5 DEF DialogNext

\* What the graph and the storage hold they keep.
LEMMA DurableGrows ==
  ASSUME [Next]_vars
  PROVE  stored \subseteq stored' /\ graph \subseteq graph'
<1>1. ASSUME NEW r \in Request, Receive(r) \/ UploadStep(r) \/ UploadFails(r)
      PROVE  UNCHANGED <<stored, graph>>
  BY <1>1 DEF Receive, UploadStep, UploadFails, CheckRejects, CheckPasses, LookupRejects,
              LookupPasses, Enqueue, queueVars
<1>2. ASSUME NEW s \in Slot, Progress(s)
      PROVE  stored \subseteq stored' /\ graph \subseteq graph'
  BY <1>2 DEF Progress, Merge, Save, Complete, Throw
<1>3. ASSUME NEW k \in Key, TakeAny(k) \/ Stall(k) \/ Handle(k) \/ HandlerFault(k)
      PROVE  UNCHANGED <<stored, graph>>
  BY <1>3 DEF TakeAny, Take, Stall, Handle, DeadLetter, Remove, HandlerFault, queueVars
<1>4. ASSUME NEW p \in Proc, Shutdown(p) \/ Exit(p) \/ Crash(p) \/ Boot(p)
      PROVE  UNCHANGED <<stored, graph>>
  BY <1>4 DEF Shutdown, Exit, Crash, Boot, queueVars
<1>. QED
  BY <1>1, <1>2, <1>3, <1>4 DEF Next, UploadNext, WorkerNext, vars

\* An upload that was accepted is over, and has a first file.
LEMMA AcceptedStays ==
  ASSUME IInv, AcceptedHasFile, [Next]_vars
  PROVE  /\ \A r \in Request : req[r].pc = "202" => req'[r] = req[r]
         /\ AcceptedHasFile'
<1>0. req \in [Request -> [pc : ReqPC, batch : Batch \cup {<<>>},
                          pos : Nat \ {0}, enfileiradas : Nat]]
  BY DEF IInv, TypeOK, UploadTypeOK
<1>1. ASSUME NEW r \in Request, Receive(r)
      PROVE  \A q \in Request : \/ req'[q] = req[q]
                                \/ req[q].pc = "idle" /\ req'[q].pc # "202"
  BY <1>0, <1>1 DEF Receive, Screen
<1>2. ASSUME NEW r \in Request, UploadStep(r) \/ UploadFails(r)
      PROVE  \A q \in Request :
               \/ req'[q] = req[q]
               \/ /\ req[q].pc \in {"check", "enqueue", "add"}
                  /\ req'[q].batch = req[q].batch
  <2>. USE <1>0
  <2>1. CASE CheckRejects(r)
    BY <2>1 DEF CheckRejects, ReplyWith
  <2>2. CASE CheckPasses(r)
    BY <2>2 DEF CheckPasses
  <2>3. CASE LookupRejects(r)
    BY <2>3 DEF LookupRejects, ReplyWith
  <2>4. CASE LookupPasses(r)
    BY <2>4 DEF LookupPasses, ReplyWith
  <2>5. CASE Enqueue(r)
    BY <2>5 DEF Enqueue
  <2>6. CASE UploadFails(r)
    BY <2>6 DEF UploadFails, ReplyWith
  <2>. QED
    BY <1>2, <2>1, <2>2, <2>3, <2>4, <2>5, <2>6 DEF UploadStep
<1>3. \/ UNCHANGED req
      \/ \E r \in Request : Receive(r) \/ UploadStep(r) \/ UploadFails(r)
  BY DEF Next, UploadNext, vars
<1>4. \A q \in Request :
        \/ req'[q] = req[q]
        \/ req[q].pc = "idle" /\ req'[q].pc # "202"
        \/ /\ req[q].pc \in {"check", "enqueue", "add"}
           /\ req'[q].batch = req[q].batch
  BY <1>1, <1>2, <1>3
<1>5. \A q \in Request : req[q].pc \in {"check", "enqueue", "add"} => req[q].batch # <<>>
  BY <1>0 DEF IInv, LoopInv
<1>. QED
  BY <1>4, <1>5 DEF AcceptedHasFile

\* The dialog keeps what it follows and what it has been told while the
\* pipeline runs.
LEMMA DialogWaits ==
  ASSUME IInv, DialogInv, [Next]_vars, UNCHANGED dialog
  PROVE  DialogInv'
BY DurableGrows, AcceptedStays DEF DialogInv, DialogTypeOK, FollowInv

\* The callbacks of the dialog keep its invariant.
LEMMA DialogCallbacks ==
  ASSUME IInv, DialogInv,
         \/ Selecionar \/ Tick
         \/ \E r \in Request : Enviar(r) \/ Resposta(r) \/ SemResposta(r)
         \/ \E a \in dialog.answers : Chega(a)
  PROVE  DialogInv'
<1>0. dialog \in [status : {"idle", "enviando", "processando", "concluido", "erro"},
                  arquivo : BOOLEAN, jobId : Key \cup {NoKey},
                  sent : SUBSET Request, answers : SUBSET {"completed", "failed"},
                  shown : Request \cup {NoRequest}, follows : Request \cup {NoRequest},
                  late : BOOLEAN]
  BY DEF DialogInv, DialogTypeOK
<1>1. CASE Selecionar
  <2>1. /\ UNCHANGED vars
        /\ Becomes([Unfollowed(dialog, "idle") EXCEPT !.arquivo = TRUE, !.shown = NoRequest])
    BY <1>1 DEF Selecionar
  <2>. QED
    BY <1>0, <2>1 DEF Unfollowed, Becomes, DialogInv, FollowInv, AcceptedHasFile, vars, DialogTypeOK
<1>2. CASE Tick
  <2>1. /\ dialog' = [dialog EXCEPT !.answers = @ \cup {JobStatus(dialog.jobId)}]
        /\ dialog.status = "processando" /\ UNCHANGED vars
        /\ JobStatus(dialog.jobId) \in {"completed", "failed"}
    BY <1>2 DEF Tick
  <2>2. PICK r \in Request : req[r].pc = "202" /\ req[r].batch[1].key = dialog.jobId
    BY <2>1 DEF DialogInv, FollowInv
  <2>3. dialog.jobId \in Key
    <3>1. req[r].batch # <<>> /\ req[r].batch \in Batch \cup {<<>>}
      BY <2>2 DEF DialogInv, AcceptedHasFile, IInv, TypeOK, UploadTypeOK
    <3>2. 1 \in 1..Len(req[r].batch)
      BY <3>1, BatchAssumption
    <3>. QED
      BY <2>2, <3>1, <3>2, FileOfBatch DEF File
  <2>4. JobStatus(dialog.jobId) = "completed" => dialog.jobId \in stored \cap graph
    BY <2>3 DEF IInv, CompletedIsDurable
  <2>5. DialogTypeOK'
    BY <1>0, <2>1 DEF DialogTypeOK
  <2>6. FollowInv'
    BY <1>0, <2>1, <2>4 DEF DialogInv, FollowInv, vars
  <2>. QED
    BY <2>1, <2>5, <2>6 DEF DialogInv, AcceptedHasFile, vars
<1>3. ASSUME NEW r \in Request, Enviar(r)
      PROVE  DialogInv'
  <2>1. /\ Becomes([dialog EXCEPT !.status = "enviando", !.sent = @ \cup {r}, !.shown = r])
        /\ [Next]_vars
    BY <1>3 DEF Enviar, Next, UploadNext
  <2>2. dialog'.status = "enviando" /\ dialog'.answers = {} /\ DialogTypeOK'
    <3>1. dialog.status # "enviando"
      BY <1>3 DEF Enviar, Ocupado
    <3>. QED
      BY <1>0, <2>1, <3>1 DEF Becomes, DialogInv, DialogTypeOK
  <2>. QED
    BY <2>1, <2>2, AcceptedStays DEF DialogInv, FollowInv
<1>4. ASSUME NEW r \in Request, Resposta(r)
      PROVE  DialogInv'
  <2>. DEFINE followed == [dialog EXCEPT !.status = "processando", !.jobId = req[r].batch[1].key,
                                         !.follows = r, !.late = r # dialog.shown,
                                         !.sent = @ \ {r}]
              refused == [Unfollowed(dialog, "erro") EXCEPT !.sent = @ \ {r}]
  <2>1. UNCHANGED vars /\ Becomes(IF req[r].pc = "202" THEN followed ELSE refused)
    BY <1>4 DEF Resposta
  <2>2. CASE req[r].pc = "202"
    <3>1. req[r].batch[1].key \in Key
      <4>1. req[r].batch # <<>> /\ req[r].batch \in Batch \cup {<<>>}
        BY <2>2 DEF DialogInv, AcceptedHasFile, IInv, TypeOK, UploadTypeOK
      <4>2. 1 \in 1..Len(req[r].batch)
        BY <4>1, BatchAssumption
      <4>. QED
        BY <4>1, <4>2, FileOfBatch DEF File
    <3>2. /\ DialogTypeOK'
          /\ dialog'.status = "processando" /\ dialog'.jobId = req[r].batch[1].key
          /\ dialog'.follows = r /\ (~dialog'.late => r = dialog'.shown)
          /\ dialog'.answers # {} =>
               dialog'.answers = dialog.answers /\ dialog'.jobId = dialog.jobId
      BY <1>0, <2>1, <2>2, <3>1 DEF Becomes, DialogInv, DialogTypeOK
    <3>3. FollowInv'
      BY <2>1, <2>2, <3>2 DEF DialogInv, FollowInv, vars
    <3>. QED
      BY <2>1, <3>2, <3>3 DEF DialogInv, AcceptedHasFile, vars
  <2>3. CASE req[r].pc # "202"
    <3>1. /\ DialogTypeOK' /\ dialog'.status = "erro"
          /\ dialog'.answers # {} => dialog'.answers = dialog.answers /\ dialog.status = "erro"
      BY <1>0, <2>1, <2>3 DEF Unfollowed, Becomes, DialogInv, DialogTypeOK
    <3>. QED
      BY <2>1, <3>1 DEF DialogInv, FollowInv, AcceptedHasFile, vars
  <2>. QED
    BY <2>2, <2>3
<1>5. ASSUME NEW r \in Request, SemResposta(r)
      PROVE  DialogInv'
  <2>1. /\ UNCHANGED vars
        /\ Becomes([Unfollowed(dialog, "erro") EXCEPT !.sent = @ \ {r}])
    BY <1>5 DEF SemResposta
  <2>. QED
    BY <1>0, <2>1 DEF Unfollowed, Becomes, DialogInv, FollowInv, AcceptedHasFile, vars, DialogTypeOK
<1>6. ASSUME NEW a \in dialog.answers, Chega(a)
      PROVE  DialogInv'
  <2>0. dialog.status = "processando" /\ UNCHANGED vars
    BY <1>6 DEF Chega, DialogInv, FollowInv
  <2>1. CASE a = "completed"
    <3>1. Becomes([dialog EXCEPT !.status = "concluido"])
      BY <1>6, <2>1 DEF Chega
    <3>. QED
      BY <1>0, <2>0, <2>1, <3>1 DEF Becomes, DialogTypeOK, DialogInv, FollowInv, AcceptedHasFile, vars
  <2>2. CASE a # "completed"
    <3>1. Becomes(Unfollowed(dialog, "erro"))
      BY <1>6, <2>2 DEF Chega
    <3>. QED
      BY <1>0, <2>0, <3>1 DEF Unfollowed, Becomes, DialogInv, FollowInv, AcceptedHasFile, vars, DialogTypeOK
  <2>. QED
    BY <2>1, <2>2
<1>. QED
  BY <1>1, <1>2, <1>3, <1>4, <1>5, <1>6

\* IInv of the pipeline and DialogInv hold in every state of the dialog.
THEOREM DialogInvariance == DialogSpec => [](IInv /\ DialogInv)
<1>1. DialogInit => IInv /\ DialogInv
  <2>. SUFFICES ASSUME DialogInit PROVE IInv /\ DialogInv
    OBVIOUS
  <2>1. IInv
    BY InitIInv DEF DialogInit
  <2>2. DialogInv
    BY DEF DialogInit, Init, UploadInit, DialogInv, DialogTypeOK, AcceptedHasFile, FollowInv, Closed
  <2>. QED
    BY <2>1, <2>2
<1>2. IInv /\ DialogInv /\ [DialogNext]_<<vars, dialog>> => IInv' /\ DialogInv'
  <2>. SUFFICES ASSUME IInv, DialogInv, [DialogNext]_<<vars, dialog>>
                PROVE  IInv' /\ DialogInv'
    OBVIOUS
  <2>1. [Next]_vars
    BY DialogStep
  <2>2. IInv'
    BY <2>1, NextIInv
  <2>3. UNCHANGED dialog => DialogInv'
    BY <2>1, DialogWaits
  <2>4. DialogNext /\ ~UNCHANGED dialog => DialogInv'
    BY DialogCallbacks DEF DialogNext
  <2>. QED
    BY <2>2, <2>3, <2>4
<1>. QED
  BY <1>1, <1>2, PTL DEF DialogSpec

\* A dialog that says an upload is done says it of a nota that is stored, which is the first
\* of the file it shows unless that upload was answered late.
THEOREM ConcluidoStored == DialogSpec => []ConcluidoIsStored
<1>1. DialogInv => ConcluidoIsStored
  BY DEF DialogInv, FollowInv, ConcluidoIsStored
<1>. QED
  BY <1>1, DialogInvariance, PTL
=============================================================================
