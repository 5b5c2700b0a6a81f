------------------------------ MODULE NFLedger ------------------------------
(***************************************************************************)
(* What the ingestion promises about one nota fiscal, whatever the number  *)
(* of uploads, workers, retries and crashes behind it.  An access key that *)
(* an upload put in the queue is never forgotten: it is pending until its  *)
(* XML is stored or its job is given up, a key that was given up is still  *)
(* known as dead (a dead letter, or a failed job left in the queue) and    *)
(* may be sent again, and an ingested key stays ingested.                  *)
(***************************************************************************)
CONSTANT Key

VARIABLE status

Status == {"unknown", "pending", "dead", "ingested"}

Init == status = [k \in Key |-> "unknown"]

Accept(k) ==
  /\ status[k] \in {"unknown", "dead"}
  /\ status' = [status EXCEPT ![k] = "pending"]

\* From "dead" too: a run that lost its lock may still finish its work.
Ingest(k) ==
  /\ status[k] \in {"pending", "dead"}
  /\ status' = [status EXCEPT ![k] = "ingested"]

GiveUp(k) ==
  /\ status[k] = "pending"
  /\ status' = [status EXCEPT ![k] = "dead"]

Next == \E k \in Key : Accept(k) \/ Ingest(k) \/ GiveUp(k)

Spec == Init /\ [][Next]_status
=============================================================================
