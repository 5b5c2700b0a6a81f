---------------------------- MODULE ExportWatcher ----------------------------
(***************************************************************************)
(* The dashboard's watch over the active export: export.store.ts, the      *)
(* effects of ExportWatcher.tsx and gerar of Exports.tsx, against a server *)
(* that runs an export and then ends it.                                   *)
(*                                                                         *)
(* An action is one callback of the browser with the renders and effects   *)
(* it causes: React commits an update of the store and runs its effects    *)
(* before the next callback.  Polls have no order among themselves.        *)
(***************************************************************************)
EXTENDS FiniteSets

CONSTANTS Job,    \* exports the user may ask for
          NoJob   \* jobAtivo: null

VARIABLES server,     \* status of each export on the server
          requested,  \* exports whose POST has no reply yet
          jobAtivo,   \* the active job of the store
          polls,      \* GETs of the watcher in flight, with their answer
          toasts,     \* exports whose toast is on the screen
          closed      \* exports whose toast was closed

watch == <<server, requested, jobAtivo, polls, toasts, closed>>

Pending == {"queued", "processing"}
ExportStatus == Pending \cup {"ready", "failed"}

WatchTypeOK ==
  /\ server \in [Job -> ExportStatus \cup {"none"}]
  /\ requested \subseteq Job
  /\ jobAtivo \in [id : Job, status : ExportStatus] \cup {NoJob}
  /\ polls \subseteq [id : Job, answer : ExportStatus \cup {"awaited"}]
  /\ toasts \subseteq Job
  /\ closed \subseteq Job

WatchInit ==
  /\ server = [e \in Job |-> "none"]
  /\ requested = {}
  /\ jobAtivo = NoJob
  /\ polls = {}
  /\ toasts = {}
  /\ closed = {}

-----------------------------------------------------------------------------
(* The server *)

ServerEnds(e) ==
  /\ server[e] = "processing"
  /\ \E s \in {"ready", "failed"} : server' = [server EXCEPT ![e] = s]
  /\ UNCHANGED <<requested, jobAtivo, polls, toasts, closed>>

ServerAnswers(p) ==
  /\ p.answer = "awaited"
  /\ polls' = (polls \ {p}) \cup {[p EXCEPT !.answer = server[p.id]]}
  /\ UNCHANGED <<server, requested, jobAtivo, toasts, closed>>

-----------------------------------------------------------------------------
(* Exports.tsx *)

\* The user asks for an export; the button is not disabled meanwhile.
Gerar(e) ==
  /\ server[e] = "none"
  /\ server' = [server EXCEPT ![e] = "processing"]
  /\ requested' = requested \cup {e}
  /\ UNCHANGED <<jobAtivo, polls, toasts, closed>>

\* The reply of the POST: its export becomes the active job.
GerarReply(e) ==
  /\ e \in requested
  /\ requested' = requested \ {e}
  /\ jobAtivo' = [id |-> e, status |-> "queued"]
  /\ UNCHANGED <<server, polls, toasts, closed>>

GerarFails(e) ==
  /\ e \in requested
  /\ requested' = requested \ {e}
  /\ UNCHANGED <<server, jobAtivo, polls, toasts, closed>>

-----------------------------------------------------------------------------
(* ExportWatcher.tsx *)

\* Mutant of Pendente: a job is polled only while it is processing.
OnlyProcessing(job) == job # NoJob /\ job.status = "processing"

Pendente(job) == job # NoJob /\ job.status \in Pending

\* The interval of the polling effect.
Tick ==
  /\ Pendente(jobAtivo)
  /\ polls' = polls \cup {[id |-> jobAtivo.id, answer |-> "awaited"]}
  /\ UNCHANGED <<server, requested, jobAtivo, toasts, closed>>

\* Mutant of Announced: a failed export is announced as well.
AnnouncedAtTheEnd(job) ==
  IF job.status \in {"ready", "failed"} THEN toasts \cup {job.id} ELSE toasts

\* The toast effect: one toast per export, by its stable id.
Announced(job) ==
  IF job.status = "ready" THEN toasts \cup {job.id} ELSE toasts

\* atualizarStatus: the answer goes to the job that is active now.
Deliver(p) ==
  /\ p.answer # "awaited"
  /\ polls' = polls \ {p}
  /\ \/ /\ jobAtivo = NoJob
        /\ UNCHANGED <<jobAtivo, toasts>>
     \/ /\ jobAtivo # NoJob
        /\ jobAtivo' = [jobAtivo EXCEPT !.status = p.answer]
        /\ toasts' = Announced(jobAtivo')
  /\ UNCHANGED <<server, requested, closed>>

\* .catch(() => {})
PollFails(p) ==
  /\ polls' = polls \ {p}
  /\ UNCHANGED <<server, requested, jobAtivo, toasts, closed>>

\* Mutant of Close: the job stays active when its toast goes.
CloseKeepsJob(e) ==
  /\ e \in toasts
  /\ toasts' = toasts \ {e}
  /\ closed' = closed \cup {e}
  /\ UNCHANGED <<server, requested, jobAtivo, polls>>

\* The toast of e times out, is dismissed or clicked: setJob(null).
Close(e) ==
  /\ e \in toasts
  /\ toasts' = toasts \ {e}
  /\ closed' = closed \cup {e}
  /\ jobAtivo' = NoJob
  /\ UNCHANGED <<server, requested, polls>>

WatchNext ==
  \/ \E e \in Job : \/ Gerar(e) \/ GerarReply(e) \/ GerarFails(e)
                    \/ ServerEnds(e) \/ Close(e)
  \/ \E p \in polls : ServerAnswers(p) \/ Deliver(p) \/ PollFails(p)
  \/ Tick

\* The interval fires; polls that are repeated are answered and arrive.
WatchFairness ==
  /\ WF_watch(Tick)
  /\ \A e \in Job :
       /\ SF_watch(\E p \in polls : p.id = e /\ ServerAnswers(p))
       /\ SF_watch(\E p \in polls : p.id = e /\ Deliver(p))

WatchSpec == WatchInit /\ [][WatchNext]_watch
FairWatchSpec == WatchSpec /\ WatchFairness

-----------------------------------------------------------------------------
(* Properties *)

\* A notice that was closed does not come back (ExportWatcher.tsx:37-40), with
\* answers of earlier polls still in flight when it closes.
ClosedToastStaysClosed == toasts \cap closed = {}

\* While the user has asked for one export only, its toast says the truth: the
\* answers of its own polls may come late or out of order, but not lie.
LoneToastIsTrue ==
  \A e \in toasts :
    server[e] = "ready" \/ \E f \in Job \ {e} : server[f] # "none"

\* While the user has asked for one export only, its end is announced once it is
\* ready and watched: lost, late and reordered answers only delay the toast.
\* (With a second one an answer of the first can mark it ready: atualizarStatus compares no ids.)
LoneExportIsAnnounced ==
  \A e \in Job :
    (server[e] = "ready" /\ jobAtivo \in [id : {e}, status : Pending])
      ~> (e \in toasts \/ \E f \in Job \ {e} : server[f] # "none")
=============================================================================
