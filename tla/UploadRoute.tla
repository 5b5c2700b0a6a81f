----------------------------- MODULE UploadRoute -----------------------------
(***************************************************************************)
(* POST /nf/upload and GET /nf/jobs/:jobId of packages/api.                *)
(*                                                                         *)
(* The handler runs in one Node process but is cut by its awaits, so other *)
(* requests and the workers run between two of its steps.  One action per  *)
(* stretch between awaits: the screening of the whole batch, the check of  *)
(* one file, and for each file the lookup and the add of enqueueNFe.       *)
(***************************************************************************)
EXTENDS JobQueue, Sequences

CONSTANT Batch   \* the uploads clients may send: sequences of files

\* valid: passes the XSD; big: more than MAX_XML_BYTES.
File == [key : Key, valid : BOOLEAN, big : BOOLEAN]

ASSUME BatchAssumption == Batch \subseteq Seq(File)

VARIABLE req     \* the upload handlers, one per request

Reply == {"202", "400", "409", "413", "422", "500"}
ReqPC == {"idle", "check", "enqueue", "add"} \cup Reply

UploadTypeOK ==
  req \in [Request -> [pc : ReqPC, batch : Batch \cup {<<>>},
                       pos : Nat \ {0}, enfileiradas : Nat]]

UploadInit ==
  req = [r \in Request |-> [pc |-> "idle", batch |-> <<>>,
                            pos |-> 1, enfileiradas |-> 0]]

Current(r) == req[r].batch[req[r].pos]
LastFile(r) == req[r].pos = Len(req[r].batch)
ReplyWith(r, code) == req' = [req EXCEPT ![r].pc = code]

\* XSD validation of every file, before anything else is looked at.
Screen(batch) ==
  IF batch = <<>> THEN "400"
  ELSE IF \E i \in DOMAIN batch : ~batch[i].valid THEN "422"
  ELSE "check"

\* extrairXmls and the validation loop do not await: one step.
Receive(r) ==
  /\ req[r].pc = "idle"
  /\ \E batch \in Batch :
       req' = [req EXCEPT ![r] = [pc |-> Screen(batch), batch |-> batch,
                                  pos |-> 1, enfileiradas |-> 0]]
  /\ UNCHANGED queueVars

\* Second loop: a key repeated inside the batch, or one that is already in
\* the graph, is a 409; otherwise go on, and after the last file enqueue all.
RepeatedInBatch(r) ==
  \E i \in 1..(req[r].pos - 1) : req[r].batch[i].key = Current(r).key

CheckRejects(r) ==
  /\ req[r].pc = "check"
  /\ RepeatedInBatch(r) \/ Current(r).key \in graph
  /\ ReplyWith(r, "409")
  /\ UNCHANGED queueVars

CheckPasses(r) ==
  /\ req[r].pc = "check"
  /\ ~RepeatedInBatch(r)
  /\ Current(r).key \notin graph
  /\ req' = IF LastFile(r)
            THEN [req EXCEPT ![r].pc = "enqueue", ![r].pos = 1]
            ELSE [req EXCEPT ![r].pos = @ + 1]
  /\ UNCHANGED queueVars

\* enqueueNFe up to its first await: the size limit, then the lookup.
LookupRejects(r) ==
  /\ req[r].pc = "enqueue"
  /\ \/ Current(r).big /\ ReplyWith(r, "413")
     \/ ~Current(r).big /\ Current(r).key \in graph /\ ReplyWith(r, "409")
  /\ UNCHANGED queueVars

LookupPasses(r) ==
  /\ req[r].pc = "enqueue"
  /\ ~Current(r).big
  /\ Current(r).key \notin graph
  /\ ReplyWith(r, "add")
  /\ UNCHANGED queueVars

\* queue.add resolves whether or not it created a job: the file is counted.
Enqueue(r) ==
  /\ req[r].pc = "add"
  /\ AddJob(Current(r).key, r)
  /\ req' = [req EXCEPT ![r].pc = IF LastFile(r) THEN "202" ELSE "enqueue",
                        ![r].pos = IF LastFile(r) THEN @ ELSE @ + 1,
                        ![r].enfileiradas = @ + 1]
  /\ UNCHANGED <<dlq, graph, stored>>

\* getInvoice or queue.add rejects, or the API process dies: what was already
\* enqueued stays enqueued.
UploadFails(r) ==
  /\ req[r].pc \in {"check", "enqueue", "add"}
  /\ ReplyWith(r, "500")
  /\ UNCHANGED queueVars

UploadStep(r) ==
  \/ CheckRejects(r)
  \/ CheckPasses(r)
  \/ LookupRejects(r)
  \/ LookupPasses(r)
  \/ Enqueue(r)

UploadNext == \E r \in Request : Receive(r) \/ UploadStep(r) \/ UploadFails(r)

-----------------------------------------------------------------------------
\* What GET /nf/jobs/:jobId answers.
JobStatus(k) ==
  CASE job[k].state = "none" -> "404"
    [] job[k].state \in {"failed", "completed"} -> job[k].state
    [] OTHER -> "processing"

\* The files of r whose queue.add has resolved: all of them when it answers 202,
\* and whatever it answers those it has counted.
Added(r) ==
  IF req[r].pc = "202" THEN DOMAIN req[r].batch ELSE 1..req[r].enfileiradas
=============================================================================
