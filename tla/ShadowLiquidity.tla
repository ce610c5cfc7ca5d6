-------------------------- MODULE ShadowLiquidity --------------------------
(***************************************************************************)
(* One side (the resting bids) of the counterfactual order book of         *)
(* app/execution.py, fed as app/paper.py feeds it.                         *)
(*                                                                         *)
(* The live book is what the exchange displays.  A ShadowBook keeps two    *)
(* copies of it: observed, the depth last displayed, and shadow, what is   *)
(* left of it for the next simulated order.  A simulated order takes depth *)
(* from shadow only, so that a later order cannot take it again; snapshots *)
(* and deltas keep advancing both copies.                                  *)
(*                                                                         *)
(* A price is the price of a resting bid.  Selling a held side walks its   *)
(* own bids from the best one down to a floor; buying walks the opposite   *)
(* side's bids, whose ask is 100 - price, from the cheapest ask up to a    *)
(* cap: in both cases from the highest bid price down to a lowest one.  A  *)
(* level absent from a dictionary has size 0.  taken and shown are history *)
(* variables.                                                              *)
(***************************************************************************)
EXTENDS Naturals

CONSTANTS
    Prices,       \* bid prices, in book order
    MaxDisplayed, \* bound: displayed size of a level
    MaxShown,     \* bound: liquidity ever displayed at a price
    CapFloor,     \* 100 - config.PRICE_CAP: lowest bid price a buy may lift
    Inexact       \* prices p with 100 - (100 - p) # p in floating point

ASSUME ShadowConstantsOK ==
    /\ Prices \subseteq Nat
    /\ MaxDisplayed \in Nat /\ MaxShown \in Nat
    /\ CapFloor \in Nat
    /\ Inexact \subseteq Prices

VARIABLES
    live,      \* Book.no_bids or Book.yes_bids: price -> size
    liveOk,    \* Book.ok
    observed,  \* ShadowBook._observed_*
    shadow,    \* ShadowBook.yes_bids or no_bids
    shadowOk,  \* ShadowBook.ok
    taken,     \* history: depth taken by orders whose transaction committed
    shown      \* history: depth ever newly displayed to the shadow

shadowVars == <<live, liveOk, observed, shadow, shadowOk, taken, shown>>

Book  == [Prices -> Nat]
Empty == [p \in Prices |-> 0]

\* max(0, a - b), the clamp of every dictionary update.
Minus(a, b) == IF a > b THEN a - b ELSE 0

ShadowInit ==
    /\ live = Empty /\ observed = Empty /\ shadow = Empty
    /\ liveOk = FALSE /\ shadowOk = FALSE
    /\ taken = Empty /\ shown = Empty

-----------------------------------------------------------------------------
(***************************************************************************)
(* Frames                                                                  *)
(***************************************************************************)

\* Mutant: a snapshot starts from the full depth again.
DepletionForgotten == Empty

\* _depletion: what simulated orders took of the depth last observed.
Depletion == [p \in Prices |-> Minus(observed[p], shadow[p])]

\* A snapshot replaces the live book; reset(preserve_depletion=True) takes the
\* same depletion off the new depth.
Snapshot(book) ==
    /\ live' = book
    /\ liveOk' = TRUE
    /\ observed' = book
    /\ shadow' = [p \in Prices |-> Minus(book[p], Depletion[p])]
    /\ shadowOk' = TRUE
    /\ shown' = [p \in Prices |-> shown[p] + Minus(book[p], observed[p])]
    /\ UNCHANGED taken

\* A size change at one level, clamped at zero (_apply_size_delta).
Changed(side, p, grows, n) ==
    [side EXCEPT ![p] = IF grows THEN @ + n ELSE Minus(@, n)]

\* A delta changes the live book; a shadow that was invalidated ignores it.
Delta(p, grows, n) ==
    /\ live' = Changed(live, p, grows, n)
    /\ IF shadowOk
         THEN /\ observed' = Changed(observed, p, grows, n)
              /\ shadow' = Changed(shadow, p, grows, n)
              /\ shown' = IF grows THEN [shown EXCEPT ![p] = @ + n] ELSE shown
         ELSE UNCHANGED <<observed, shadow, shown>>
    /\ UNCHANGED <<liveOk, shadowOk, taken>>

\* Mutant: the gap reaches the live book only.
InvalidateLive ==
    /\ liveOk' = FALSE
    /\ UNCHANGED <<live, observed, shadow, shadowOk, taken, shown>>

\* orderbook_gap: neither book may serve a fill until the next snapshot.
Invalidate ==
    /\ liveOk' = FALSE
    /\ shadowOk' = FALSE
    /\ UNCHANGED <<live, observed, shadow, taken, shown>>

-----------------------------------------------------------------------------
(***************************************************************************)
(* Orders                                                                  *)
(***************************************************************************)

\* A fill that walks the ladder from its best level down to lowest: it takes no
\* more than a level has, and touches a level only when every better one is
\* exhausted.  Each such fill is the walk of the order that wants its total.
IsWalk(fill, lowest) ==
    /\ \A p \in Prices : fill[p] <= shadow[p]
    /\ \A p \in Prices : p < lowest => fill[p] = 0
    /\ \A p, q \in Prices : (p < q /\ fill[p] > 0) => fill[q] = shadow[q]
    /\ \E p \in Prices : fill[p] > 0

Fills == [Prices -> 0..MaxShown]

\* consume_sell.
AfterSell(fill) == [p \in Prices |-> Minus(shadow[p], fill[p])]

\* consume_buy finds the level again as 100 - (100 - price): at an inexact price
\* that is another key, and popping it leaves the level as it was.
AfterBuy(fill) ==
    [p \in Prices |-> IF p \in Inexact THEN shadow[p]
                                       ELSE Minus(shadow[p], fill[p])]

Commit(fill) == taken' = [p \in Prices |-> taken[p] + fill[p]]

\* An entry fills against the shadow and its transaction commits.
Buy(fill) ==
    /\ liveOk /\ shadowOk
    /\ IsWalk(fill, CapFloor)
    /\ shadow' = AfterBuy(fill)
    /\ Commit(fill)
    /\ UNCHANGED <<live, liveOk, observed, shadowOk, shown>>

\* An exit fills against the shadow, down to its price floor, and commits.
Sell(fill, floor) ==
    /\ liveOk /\ shadowOk
    /\ IsWalk(fill, floor)
    /\ shadow' = AfterSell(fill)
    /\ Commit(fill)
    /\ UNCHANGED <<live, liveOk, observed, shadowOk, shown>>

\* The transaction fails after the depth was consumed: source.update(before).
Restored(before, after) == before

OrderWriteFails(fill, floor) ==
    /\ liveOk /\ shadowOk
    /\ IsWalk(fill, floor)
    /\ shadow' = Restored(shadow, AfterSell(fill))
    /\ UNCHANGED <<live, liveOk, observed, shadowOk, taken, shown>>

-----------------------------------------------------------------------------
ShadowNext ==
    \/ \E book \in [Prices -> 0..MaxDisplayed] :
          /\ \A p \in Prices : shown[p] + Minus(book[p], observed[p]) <= MaxShown
          /\ Snapshot(book)
    \/ \E p \in Prices, grows \in BOOLEAN, n \in 1..MaxDisplayed :
          /\ grows => live[p] + n <= MaxDisplayed /\ shown[p] + n <= MaxShown
          /\ Delta(p, grows, n)
    \/ Invalidate
    \/ \E fill \in Fills : Buy(fill)
    \/ \E fill \in Fills, floor \in Prices : Sell(fill, floor)
    \/ \E fill \in Fills, floor \in Prices : OrderWriteFails(fill, floor)

ShadowSpec == ShadowInit /\ [][ShadowNext]_shadowVars

-----------------------------------------------------------------------------
(***************************************************************************)
(* Properties                                                              *)
(***************************************************************************)
ShadowTypeOK ==
    /\ live \in Book /\ observed \in Book /\ shadow \in Book
    /\ liveOk \in BOOLEAN /\ shadowOk \in BOOLEAN
    /\ taken \in Book /\ shown \in Book

\* While the shadow may serve a fill, its notion of the displayed depth is the
\* live book itself, and what it offers is part of that.
ShadowFollowsLive ==
    /\ shadowOk = liveOk
    /\ shadowOk => observed = live
    /\ \A p \in Prices : shadow[p] <= observed[p]

NoLiquidityReuse ==
    \A p \in Prices : taken[p] + shadow[p] <= shown[p]

OnlyCommitsDeplete ==
    \A p \in Prices : observed[p] - shadow[p] <= taken[p]

\* Displayed depth is conserved across snapshots, gaps, cancellations and
\* fills.  Simulated orders cannot reuse it: what committed orders took at a
\* price plus what the shadow still offers there never exceeds the depth the
\* exchange ever displayed.  And failed writes lose none: depth is missing from
\* the shadow only where an order that committed took it.
DepthIsConserved == NoLiquidityReuse /\ OnlyCommitsDeplete
=============================================================================
