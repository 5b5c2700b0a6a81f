------------------------------- MODULE MCExport -------------------------------
(* Finite instances of ExportService for TLC. *)
EXTENDS ExportService

CONSTANTS e1, r1, r2, r3
=============================================================================
