---------------------------- MODULE MCRawArchive ----------------------------
(***************************************************************************)
(* Small instances of RawArchive for TLC.                                  *)
(***************************************************************************)
EXTENDS RawArchive
=============================================================================
