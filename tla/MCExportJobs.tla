---------------------------- MODULE MCExportJobs ----------------------------
(***************************************************************************)
(* The instance of ExportJobs for TLC: two requests that may overlap.      *)
(***************************************************************************)
EXTENDS ExportJobs

MCJobs == 1 .. 2
=============================================================================
