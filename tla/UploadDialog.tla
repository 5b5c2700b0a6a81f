---------------------------- MODULE UploadDialog ----------------------------
(***************************************************************************)
(* The upload dialog of the dashboard (UploadModal.tsx) over the ingestion *)
(* pipeline: every request of this module is sent by its button.           *)
(*                                                                         *)
(* An action is a callback with the render and the effects it causes.  The *)
(* fetch of an upload is not cancelled by anything, and several can be in  *)
(* flight, since picking another file enables the button.  The polls of a  *)
(* job are cancelled when the status or the job changes: the answers that  *)
(* are still on their way are dropped.  An answer that changes nothing     *)
(* (a running job, a 404, an error) is left out, and so is the progress.   *)
(*                                                                         *)
(* Three fields are not in the code: the upload of the file that is shown  *)
(* (`shown`), the upload whose job is followed (`follows`), and whether    *)
(* its answer came when it was not the one shown any more (`late`).        *)
(***************************************************************************)
EXTENDS Ingestion

VARIABLE dialog

Closed == [status |-> "idle", arquivo |-> FALSE, jobId |-> NoKey, sent |-> {}, answers |-> {},
           shown |-> NoRequest, follows |-> NoRequest, late |-> FALSE]
Ocupado == dialog.status \in {"enviando", "processando"}

DialogInit == Init /\ dialog = Closed

\* Mutant of Becomes: the effect is not cleaned up.
BecomesOnly(d) == dialog' = d
\* A render: an effect that is run again first cancels the polls of the last one.
\* Only a status that follows a job keeps its jobId here.
Becomes(d) ==
  LET same == d.status = dialog.status /\ d.jobId = dialog.jobId IN
  dialog' = [d EXCEPT !.answers = IF same THEN d.answers ELSE {}]

\* The dialog follows no job (the code keeps the last jobId, and polls it no more).
Unfollowed(d, status) ==
  [d EXCEPT !.status = status, !.jobId = NoKey, !.follows = NoRequest, !.late = FALSE]

\* A file is dropped or picked, also while another is sent.  Taking the file away and
\* closing the dialog only leave nothing to do, and are left out.
Selecionar ==
  /\ Becomes([Unfollowed(dialog, "idle") EXCEPT !.arquivo = TRUE, !.shown = NoRequest])
  /\ UNCHANGED vars

Enviar(r) ==
  /\ dialog.arquivo /\ ~Ocupado /\ dialog.status # "concluido"
  /\ Receive(r)
  /\ Becomes([dialog EXCEPT !.status = "enviando", !.sent = @ \cup {r}, !.shown = r])
  /\ UNCHANGED workerVars

\* The answer of an upload, whatever file is shown by then: of a 202 the job of its
\* first file is followed.
Resposta(r) ==
  /\ r \in dialog.sent
  /\ req[r].pc \in Reply
  /\ Becomes(IF req[r].pc = "202"
             THEN [dialog EXCEPT !.status = "processando", !.jobId = req[r].batch[1].key,
                                 !.follows = r, !.late = r # dialog.shown, !.sent = @ \ {r}]
             ELSE [Unfollowed(dialog, "erro") EXCEPT !.sent = @ \ {r}])
  /\ UNCHANGED vars

\* The connection breaks; the server goes on.
SemResposta(r) ==
  /\ r \in dialog.sent
  /\ Becomes([Unfollowed(dialog, "erro") EXCEPT !.sent = @ \ {r}])
  /\ UNCHANGED vars

\* The server answers a poll with a job that is over.
Tick ==
  /\ dialog.status = "processando"
  /\ JobStatus(dialog.jobId) \in {"completed", "failed"}
  /\ dialog' = [dialog EXCEPT !.answers = @ \cup {JobStatus(dialog.jobId)}]
  /\ UNCHANGED vars

\* The answer arrives.
Chega(a) ==
  /\ a \in dialog.answers
  /\ Becomes(IF a = "completed" THEN [dialog EXCEPT !.status = "concluido"]
             ELSE Unfollowed(dialog, "erro"))
  /\ UNCHANGED vars

DialogNext ==
  \/ Selecionar \/ Tick
  \/ \E r \in Request : Enviar(r) \/ Resposta(r) \/ SemResposta(r)
  \/ \E a \in dialog.answers : Chega(a)
  \/ \E r \in Request : (UploadStep(r) \/ UploadFails(r)) /\ UNCHANGED <<workerVars, dialog>>
  \/ WorkerNext /\ UNCHANGED <<req, dialog>>
  \/ \E k \in Key : (Promote(k) \/ EvictCompleted(k))
                    /\ UNCHANGED <<dlq, graph, stored, req, workerVars, dialog>>

DialogSpec == DialogInit /\ [][DialogNext]_<<vars, dialog>>

-----------------------------------------------------------------------------
\* A dialog that says an upload is done followed the job of the first file of an upload that
\* was answered 202, and that nota is in the graph and its XML is stored.  An upload that was
\* answered while its file was shown is still the one shown, however late the polls of its
\* job are answered.  One that was answered after another file was picked or sent is not: the
\* answer of enviar() is taken whatever is shown by then (UploadModal.tsx:90), and the dialog
\* says of the new file what is true of the old one.
ConcluidoIsStored ==
  dialog.status = "concluido" =>
    /\ dialog.jobId \in stored \cap graph
    /\ dialog.follows \in Request
    /\ req[dialog.follows].pc = "202" /\ req[dialog.follows].batch[1].key = dialog.jobId
    /\ ~dialog.late => dialog.follows = dialog.shown

-----------------------------------------------------------------------------
(* The inductive invariant behind it, with IInv of the pipeline: module      *)
(* IngestionProofs proves that it is one.                                    *)

DialogTypeOK ==
  dialog \in [status  : {"idle", "enviando", "processando", "concluido", "erro"},
              arquivo : BOOLEAN,
              jobId   : Key \cup {NoKey},
              sent    : SUBSET Request,
              answers : SUBSET {"completed", "failed"},
              shown   : Request \cup {NoRequest},
              follows : Request \cup {NoRequest},
              late    : BOOLEAN]

\* An upload that was accepted has a first file.
AcceptedHasFile == \A r \in Request : req[r].pc = "202" => req[r].batch # <<>>

\* The dialog follows the job of an upload that was accepted, the one shown if it
\* was not answered late, and an answer on its way is one about the job it follows
\* now.
FollowInv ==
  /\ dialog.status \in {"processando", "concluido"} =>
       /\ dialog.follows \in Request
       /\ req[dialog.follows].pc = "202" /\ req[dialog.follows].batch[1].key = dialog.jobId
       /\ ~dialog.late => dialog.follows = dialog.shown
  /\ dialog.answers # {} => dialog.status = "processando"
  /\ "completed" \in dialog.answers \/ dialog.status = "concluido"
       => dialog.jobId \in stored \cap graph

DialogInv == DialogTypeOK /\ AcceptedHasFile /\ FollowInv
=============================================================================
