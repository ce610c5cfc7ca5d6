--------------------------- MODULE MCSignalFlow ---------------------------
(***************************************************************************)
(* The instance of SignalFlow for TLC: a match of two legs, a and b.  Only *)
(* a sweeps hard enough to trade, always upwards; b confirms it, or does   *)
(* not.  Three candidates let two orders fill out of the order of their    *)
(* rows before a third is decided.                                         *)
(***************************************************************************)
EXTENDS SignalFlow

CONSTANTS a, b

MCMarkets    == {a, b}
MCSweepers   == {a}
MCMaxBursts  == [m \in MCMarkets |-> IF m = a THEN 3 ELSE 1]
MCBurstSigns == [m \in MCMarkets |-> IF m = a THEN {1} ELSE {-1, 1}]
=============================================================================
