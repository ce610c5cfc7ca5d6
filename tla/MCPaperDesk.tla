---------------------------- MODULE MCPaperDesk ----------------------------
(***************************************************************************)
(* Small instances of PaperDesk for TLC.                                   *)
(***************************************************************************)
EXTENDS PaperDesk

CONSTANTS s1, s2, s3, m1, m2

\* Two signals (one of each strategy) share a market.
MCMarketOf == [s \in Signals |-> IF s = s3 THEN m2 ELSE m1]
MCSleeves == {s2} \cap Signals
=============================================================================
