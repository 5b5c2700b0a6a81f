---------------------------- MODULE MCIngestion ----------------------------
(* Finite instances of Ingestion for TLC. *)
EXTENDS Ingestion, TLC

CONSTANTS k1, k2, s1, s2, p1, p2

Small(k) == [key |-> k, valid |-> TRUE, big |-> FALSE]
Big(k) == [key |-> k, valid |-> TRUE, big |-> TRUE]
Bad(k) == [key |-> k, valid |-> FALSE, big |-> FALSE]

\* One nota sent again and again: the life of a single job.
ResendBatches == {<<Small(k1)>>}

\* Batches that overlap, repeat a key, or hold a rejected file.
OverlapBatches ==
  {<<>>, <<Small(k1), Small(k2)>>, <<Small(k2)>>, <<Small(k1), Big(k2)>>,
   <<Small(k1), Small(k1)>>, <<Small(k1), Bad(k2)>>}

TwoProcs == (s1 :> p1 @@ s2 :> p2)
SingleSlot == (s1 :> p1)
=============================================================================
