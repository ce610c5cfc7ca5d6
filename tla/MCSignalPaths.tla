-------------------------- MODULE MCSignalPaths --------------------------
(***************************************************************************)
(* The instance of SignalPaths for TLC has only model values: see the       *)
(* configuration.                                                          *)
(***************************************************************************)
EXTENDS SignalPaths
=============================================================================
