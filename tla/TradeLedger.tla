---------------------------- MODULE TradeLedger ----------------------------
(***************************************************************************)
(* What the paper ledger promises, with no process, no memory and no       *)
(* failures in sight: the abstract specification PaperDesk implements.     *)
(*                                                                         *)
(* A signal is recorded once and ends filled or refused.  A trade is a row *)
(* that only ever pays out: it starts open with all of its contracts, each *)
(* step sells some of what remains, and the step that sells the last one   *)
(* closes it.  A closed row is history.  A handler may advance many        *)
(* signals and many trades in one step (a settlement does).                *)
(***************************************************************************)
EXTENDS Naturals, Sequences

CONSTANTS Signals, MaxSize

VARIABLES signals,  \* outcome of each signal
          trades    \* sequence of [signal, size, sold, closed]

ledger == <<signals, trades>>

Init ==
    /\ signals = [s \in Signals |-> "none"]
    /\ trades = << >>

\* The life of a signal row.  A refusal may be overwritten, a fill never.
SignalStep(s) ==
    \/ signals'[s] = signals[s]
    \/ /\ signals[s] = "none"
       /\ signals'[s] = "queued"
    \/ /\ signals[s] \in {"queued", "expired"}
       /\ signals'[s] \in {"filled", "killed", "no_book", "rejected", "expired"}

\* The life of a trade row.
TradeStep(t) ==
    LET old == trades[t]
        new == trades'[t]
    IN  /\ new.signal = old.signal
        /\ new.size = old.size
        /\ new.sold \in old.sold..old.size
        /\ new.closed = (new.sold = new.size)

\* At most one trade is opened at a time, whole, for the signal whose outcome
\* becomes 'filled' in the same step; nothing else makes a signal filled.
OpenStep ==
    /\ Len(trades') \in {Len(trades), Len(trades) + 1}
    /\ \A s \in Signals :
         (signals[s] # "filled" /\ signals'[s] = "filled")
            <=> /\ Len(trades') = Len(trades) + 1
                /\ trades'[Len(trades')].signal = s
    /\ Len(trades') = Len(trades) + 1 =>
         /\ trades'[Len(trades')].sold = 0
         /\ trades'[Len(trades')].size \in 1..MaxSize
         /\ ~trades'[Len(trades')].closed

Next ==
    /\ \A s \in Signals : SignalStep(s)
    /\ \A t \in DOMAIN trades : TradeStep(t)
    /\ OpenStep

Spec == Init /\ [][Next]_ledger
=============================================================================
