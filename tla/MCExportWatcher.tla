---------------------------- MODULE MCExportWatcher ----------------------------
(* Finite instances of ExportWatcher for TLC. *)
EXTENDS ExportWatcher

CONSTANTS e1, e2
=============================================================================
