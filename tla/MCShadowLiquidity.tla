------------------------- MODULE MCShadowLiquidity -------------------------
(***************************************************************************)
(* Small instances of ShadowLiquidity for TLC: two levels, the lower one    *)
(* inexact.  Below the cap's floor it is out of a buy's reach.             *)
(***************************************************************************)
EXTENDS ShadowLiquidity

MCPrices == {1, 2}
MCInexact == {1}
=============================================================================
