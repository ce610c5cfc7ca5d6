----------------------------- MODULE PaperDesk -----------------------------
(***************************************************************************)
(* The realistic (V2) paper desk of app/paper.py together with the durable *)
(* ledger it writes through app/store.py.                                  *)
(*                                                                         *)
(* Two copies of the same facts are kept.  The ledger (signals, trades,    *)
(* paper_fills) lives in SQLite and changes only in whole transactions,    *)
(* each of which may fail.  The desk (positions, pending_entries,          *)
(* pending_exits, kill) lives in memory and is gone after a crash; only    *)
(* restore_open_positions rebuilds a part of it.  Every handler of the     *)
(* desk runs to completion on the event loop, so one handler is one step.  *)
(*                                                                         *)
(* Abstractions: quantities are whole contracts; how much an arriving      *)
(* order can fill is a nondeterministic amount (ShadowLiquidity models     *)
(* where the amount comes from); the refusals that depend only on prices   *)
(* and fees (stale_book, rejected_cap, rejected_floor, unsupported_fee)    *)
(* are one outcome, "rejected"; a pending order is due at any later        *)
(* moment.  The pending entries are a set: all have the same latency, and  *)
(* their order shows only in settle_market, where any of them may be the   *)
(* one whose write fails.                                                  *)
(***************************************************************************)
EXTENDS Naturals, Sequences, FiniteSets

CONSTANTS
    Signals,        \* confirmed candidates the engine may queue
    Markets,        \* market tickers
    MarketOf,       \* the market of a signal
    Sleeves,        \* signals of the price-only sleeve; the others are Gate A
    MaxSize,        \* bound: contracts of one position
    UseStop,        \* config.USE_STOP
    MaxFaults,      \* bound: SQLite transactions that fail
    MaxLoopFaults,  \* bound: telemetry writes that fail inside a loop task
    MaxCrashes      \* bound: abnormal process stops

ASSUME ConstantsOK ==
    /\ MarketOf \in [Signals -> Markets]
    /\ Sleeves \subseteq Signals
    /\ MaxSize \in Nat \ {0}
    /\ UseStop \in BOOLEAN
    /\ MaxFaults \in Nat /\ MaxLoopFaults \in Nat /\ MaxCrashes \in Nat

VARIABLES
    signals,          \* signals.outcome: signal -> outcome ("none": no row)
    trades,           \* rows of trades, indexed by trade id
    paper_fills,      \* quantities of paper_fills rows, summed per trade and leg
    positions,        \* desk.positions: trade id -> Position
    pending_entries,  \* desk.pending_entries
    pending_exits,    \* desk.pending_exits: trade id -> reason of the order
    bookOk,           \* live and shadow book of a market may serve a fill
    kill,             \* desk.kill
    up,               \* the process runs
    loops,            \* background tasks of the engine that are alive
    resolved,         \* markets whose result the exchange has published
    faults, loopFaults, crashes

ledger == <<signals, trades, paper_fills>>
desk   == <<positions, pending_entries, pending_exits>>
vars   == <<signals, trades, paper_fills, positions, pending_entries,
            pending_exits, bookOk, kill, up, loops, resolved,
            faults, loopFaults, crashes>>

Refusals  == {"killed", "no_book", "rejected", "expired"}
Outcomes  == {"none", "queued", "filled"} \cup Refusals
Qty       == 0..MaxSize
TradeIds  == DOMAIN trades
TradeRow  == [signal: Signals, status: {"open", "closed"},
              size: Qty, remaining: Qty, exit_qty: Qty]
FillSums  == [entry: Qty, exit: Qty]
Position  == [signal: Signals, remaining: Qty, exit_qty: Qty]

\* The loop tasks a single failed telemetry write ends for good.
Loops == {"execution", "periodic"}

EmptyMap == [t \in {} |-> {}]

(***************************************************************************)
(* Exit reasons and their priority (_queue_exit).                          *)
(***************************************************************************)
SleeveReasons == {"sleeve_profit_lock", "sleeve_scratch",
                  "sleeve_oscillation", "sleeve_reversal"}
Reasons == {"target", "timeout", "sleeve_timeout", "stop", "flatten"}
             \cup SleeveReasons

priority(reason) ==
    CASE reason = "target" -> 1
      [] reason \in {"timeout", "sleeve_timeout"} -> 2
      [] reason \in {"sleeve_profit_lock", "sleeve_scratch",
                     "sleeve_oscillation"} -> 3
      [] reason \in {"stop", "sleeve_reversal"} -> 4
      [] reason = "flatten" -> 5
      [] OTHER -> 0

\* Mutant: the last trigger wins.
DisplacesAlways(t, reason) == TRUE

\* The order a position has after a trigger: a weaker or equal one is ignored.
Displaces(t, reason) ==
    t \in DOMAIN pending_exits => priority(pending_exits[t]) < priority(reason)

\* _queue_exit for every t in DOMAIN trigger.
QueueExits(trigger) ==
    LET queued == {t \in DOMAIN trigger : Displaces(t, trigger[t])}
    IN  pending_exits' = [t \in DOMAIN pending_exits \cup queued |->
                            IF t \in queued THEN trigger[t]
                                            ELSE pending_exits[t]]

\* The exits a quote can trigger on a position.
BookReasons(sig) ==
    {"target"} \cup (IF UseStop THEN {"stop"} ELSE {})
               \cup (IF sig \in Sleeves THEN SleeveReasons ELSE {})

\* Mutant: a position that has an exit order is left to that order.
UnorderedOn(m) ==
    {t \in DOMAIN positions \ DOMAIN pending_exits :
        MarketOf[positions[t].signal] = m}

PositionsOn(m) == {t \in DOMAIN positions : MarketOf[positions[t].signal] = m}

-----------------------------------------------------------------------------
Init ==
    /\ signals = [s \in Signals |-> "none"]
    /\ trades = << >>
    /\ paper_fills = << >>
    /\ positions = EmptyMap
    /\ pending_entries = {}
    /\ pending_exits = EmptyMap
    /\ bookOk = [m \in Markets |-> FALSE]
    /\ kill = FALSE
    /\ up = TRUE
    /\ loops = Loops
    /\ resolved = {}
    /\ faults = 0 /\ loopFaults = 0 /\ crashes = 0

\* n transactions of the handler roll back: they write nothing.
TransactionsFail(n) ==
    /\ faults + n <= MaxFaults
    /\ faults' = faults + n

-----------------------------------------------------------------------------
(***************************************************************************)
(* Entries                                                                 *)
(***************************************************************************)

\* Mutant: a signal may be queued a second time.
QueueEnterAgain(s) ==
    /\ up
    /\ signals' = [signals EXCEPT ![s] = "queued"]
    /\ pending_entries' = pending_entries \cup {s}
    /\ UNCHANGED <<trades, paper_fills, positions, pending_exits, bookOk, kill,
                   up, loops, resolved, faults, loopFaults, crashes>>

\* A confirmed candidate is recorded as 'queued' and handed to queue_enter.
QueueEnter(s) ==
    /\ up
    /\ signals[s] = "none"
    /\ signals' = [signals EXCEPT ![s] = "queued"]
    /\ pending_entries' = pending_entries \cup {s}
    /\ UNCHANGED <<trades, paper_fills, positions, pending_exits, bookOk, kill,
                   up, loops, resolved, faults, loopFaults, crashes>>

\* record_signal commits the row, and the clock-age sample written after it
\* fails: the exception skips queue_enter, so no order owns the signal.
QueueInterrupted(s) ==
    /\ up
    /\ signals[s] = "none"
    /\ signals' = [signals EXCEPT ![s] = "queued"]
    /\ TransactionsFail(1)
    /\ UNCHANGED <<trades, paper_fills, desk, bookOk, kill, up, loops,
                   resolved, loopFaults, crashes>>

\* Mutant: an order that arrives under the kill switch is left where it is.
EntryRefusalsButKill(s) == IF kill THEN {} ELSE {"no_book", "rejected"}

\* The refusals of _execute_entry, in the order it tests for them.
EntryRefusals(s) ==
    CASE kill -> {"killed"}
      [] ~kill /\ ~bookOk[MarketOf[s]] -> {"no_book"}
      [] OTHER -> {"rejected"}

\* An arriving order is refused: finish_paper_signal commits the outcome.
RefuseEntry(s) ==
    /\ up /\ "execution" \in loops
    /\ s \in pending_entries
    /\ \E outcome \in EntryRefusals(s) :
          signals' = [signals EXCEPT ![s] = outcome]
    /\ pending_entries' = pending_entries \ {s}
    /\ UNCHANGED <<trades, paper_fills, positions, pending_exits, bookOk, kill,
                   up, loops, resolved, faults, loopFaults, crashes>>

\* An arriving order fills q contracts: open_paper_trade commits the trade row,
\* the signal outcome and the entry fills; then the desk owns the position.
FillEntry(s, q) ==
    /\ up /\ "execution" \in loops
    /\ s \in pending_entries
    /\ ~kill
    /\ bookOk[MarketOf[s]]
    /\ LET tid == Len(trades) + 1
       IN  /\ trades' = Append(trades, [signal |-> s, status |-> "open",
                                        size |-> q, remaining |-> q,
                                        exit_qty |-> 0])
           /\ paper_fills' = Append(paper_fills, [entry |-> q, exit |-> 0])
           /\ positions' = [t \in DOMAIN positions \cup {tid} |->
                              IF t = tid
                                THEN [signal |-> s, remaining |-> q, exit_qty |-> 0]
                                ELSE positions[t]]
    /\ signals' = [signals EXCEPT ![s] = "filled"]
    /\ pending_entries' = pending_entries \ {s}
    /\ UNCHANGED <<pending_exits, bookOk, kill, up, loops, resolved,
                   faults, loopFaults, crashes>>

\* The write of a refusal or of a fill fails: the order stays and is retried.
EntryWriteFails(s) ==
    /\ up /\ "execution" \in loops
    /\ s \in pending_entries
    /\ TransactionsFail(1)
    /\ UNCHANGED <<ledger, desk, bookOk, kill, up, loops, resolved,
                   loopFaults, crashes>>

-----------------------------------------------------------------------------
(***************************************************************************)
(* Exits                                                                   *)
(***************************************************************************)

\* record_paper_exit and what follows its commit, for every t in DOMAIN sold:
\* the exit fill, the progress columns computed from the desk's position and,
\* when nothing remains, the closed status; then the desk releases the position
\* and its order, or keeps both with the new progress.
CommitExits(sold) ==
    LET rest(t) == positions[t].remaining - sold[t]
        out(t)  == positions[t].exit_qty + sold[t]
        done    == {t \in DOMAIN sold : rest(t) = 0}
    IN  /\ trades' = [t \in DOMAIN trades |->
              IF t \in DOMAIN sold
                THEN [trades[t] EXCEPT !.remaining = rest(t), !.exit_qty = out(t),
                        !.status = IF t \in done THEN "closed" ELSE @]
                ELSE trades[t]]
        /\ paper_fills' = [t \in DOMAIN paper_fills |->
              IF t \in DOMAIN sold
                THEN [paper_fills[t] EXCEPT !.exit = @ + sold[t]]
                ELSE paper_fills[t]]
        /\ positions' = [t \in DOMAIN positions \ done |->
              IF t \in DOMAIN sold
                THEN [positions[t] EXCEPT !.remaining = rest(t), !.exit_qty = out(t)]
                ELSE positions[t]]
        /\ pending_exits' = [t \in DOMAIN pending_exits \ done |-> pending_exits[t]]

\* A due exit order fills q of what remains, in part or to the last contract.
\* (No book, no depth above the floor: the order is only rescheduled.)
ExecuteExit(t, q) ==
    /\ up /\ "execution" \in loops
    /\ t \in DOMAIN pending_exits
    /\ bookOk[MarketOf[positions[t].signal]]
    /\ q \in 1..positions[t].remaining
    /\ CommitExits([u \in {t} |-> q])
    /\ UNCHANGED <<signals, pending_entries, bookOk, kill, up, loops, resolved,
                   faults, loopFaults, crashes>>

\* The write of an exit fails: depth is restored, position and order stay.
ExitWriteFails(t) ==
    /\ up /\ "execution" \in loops
    /\ t \in DOMAIN pending_exits
    /\ bookOk[MarketOf[positions[t].signal]]
    /\ TransactionsFail(1)
    /\ UNCHANGED <<ledger, desk, bookOk, kill, up, loops, resolved,
                   loopFaults, crashes>>

\* A book frame of market m.  A snapshot makes the book good; a delta leaves
\* its flag as it was, and on_book judges the positions against it either way,
\* queueing at most one exit for each position of the market.
BookFrame(m, snapshot) ==
    /\ up
    /\ bookOk' = [bookOk EXCEPT ![m] = @ \/ snapshot]
    /\ \E hit \in SUBSET PositionsOn(m) :
         \E trigger \in [hit -> Reasons] :
            /\ \A t \in hit : trigger[t] \in BookReasons(positions[t].signal)
            /\ QueueExits(trigger)
    /\ UNCHANGED <<ledger, positions, pending_entries, kill, up, loops, resolved,
                   faults, loopFaults, crashes>>

\* An orderbook_gap frame: invalidate_books, and the live books are not ok.
BookGap(ms) ==
    /\ up
    /\ bookOk' = [m \in Markets |-> bookOk[m] /\ m \notin ms]
    /\ UNCHANGED <<ledger, desk, kill, up, loops, resolved,
                   faults, loopFaults, crashes>>

\* check_timeouts, when the positions in aged have been held too long.
CheckTimeouts(aged) ==
    /\ up /\ "periodic" \in loops
    /\ QueueExits([t \in aged |-> IF positions[t].signal \in Sleeves
                                    THEN "sleeve_timeout" ELSE "timeout"])
    /\ UNCHANGED <<ledger, positions, pending_entries, bookOk, kill, up, loops,
                   resolved, faults, loopFaults, crashes>>

\* POST /api/flatten.
FlattenAll ==
    /\ up
    /\ QueueExits([t \in DOMAIN positions |-> "flatten"])
    /\ UNCHANGED <<ledger, positions, pending_entries, bookOk, kill, up, loops,
                   resolved, faults, loopFaults, crashes>>

-----------------------------------------------------------------------------
(***************************************************************************)
(* Settlement: a lifecycle frame or the settlement poll reports a result.  *)
(***************************************************************************)
PendingOn(m) == {s \in pending_entries : MarketOf[s] = m}

\* settle_market: every queued entry of the market expires, then every position
\* is closed in full; a position in kept is one whose transaction failed.
SettleMarket(m) ==
    /\ up
    /\ m \in resolved
    /\ PendingOn(m) # {} \/ PositionsOn(m) # {}
    /\ \E kept \in SUBSET PositionsOn(m) :
          /\ TransactionsFail(Cardinality(kept))
          /\ CommitExits([t \in PositionsOn(m) \ kept |-> positions[t].remaining])
    /\ signals' = [s \in Signals |-> IF s \in PendingOn(m) THEN "expired"
                                                           ELSE signals[s]]
    /\ pending_entries' = pending_entries \ PendingOn(m)
    /\ UNCHANGED <<bookOk, kill, up, loops, resolved, loopFaults, crashes>>

\* settle_market raises: one entry cannot be finalised.  Those finalised before
\* it are durably 'expired', but the list is replaced only after the loop.
SettleAborts(m) ==
    /\ up
    /\ m \in resolved
    /\ TransactionsFail(1)
    /\ \E done \in SUBSET PendingOn(m) :
          /\ done # PendingOn(m)
          /\ signals' = [s \in Signals |-> IF s \in done THEN "expired"
                                                          ELSE signals[s]]
    /\ UNCHANGED <<trades, paper_fills, desk, bookOk, kill, up, loops, resolved,
                   loopFaults, crashes>>

-----------------------------------------------------------------------------
(***************************************************************************)
(* Operator, environment, crashes                                          *)
(***************************************************************************)

\* POST /api/kill.
SetKill(on) ==
    /\ up
    /\ kill' = on
    /\ UNCHANGED <<ledger, desk, bookOk, up, loops, resolved,
                   faults, loopFaults, crashes>>

\* The exchange publishes the result of a market.
ResultPublished(m) ==
    /\ m \notin resolved
    /\ resolved' = resolved \cup {m}
    /\ UNCHANGED <<ledger, desk, bookOk, kill, up, loops,
                   faults, loopFaults, crashes>>

\* A write outside the loop's try block fails (the scheduler-lag sample of
\* paper_execution_task, record_signal in periodic_task): the task ends.
LoopDies(loop) ==
    /\ up
    /\ loop \in loops
    /\ loopFaults < MaxLoopFaults
    /\ loopFaults' = loopFaults + 1
    /\ loops' = loops \ {loop}
    /\ UNCHANGED <<ledger, desk, bookOk, kill, up, resolved, faults, crashes>>

\* The process stops; everything in memory is gone.
Crash ==
    /\ up
    /\ crashes < MaxCrashes
    /\ crashes' = crashes + 1
    /\ up' = FALSE
    /\ positions' = EmptyMap
    /\ pending_entries' = {}
    /\ pending_exits' = EmptyMap
    /\ bookOk' = [m \in Markets |-> FALSE]
    /\ kill' = FALSE
    /\ loops' = {}
    /\ UNCHANGED <<ledger, resolved, faults, loopFaults>>

\* Mutant: a partly exited trade is not restored.
RestorableUntouched ==
    {t \in TradeIds : trades[t].status = "open" /\ trades[t].exit_qty = 0}

\* The rows load_open_paper_positions returns and restore_open_positions keeps.
Restorable == {t \in TradeIds : trades[t].status = "open" /\ trades[t].remaining > 0}

\* Mutant: a position comes back with its entry quantity.
RestartIgnoresProgress ==
    /\ ~up
    /\ up' = TRUE
    /\ loops' = Loops
    /\ positions' = [t \in Restorable |-> [signal |-> trades[t].signal,
                                           remaining |-> trades[t].size,
                                           exit_qty |-> trades[t].exit_qty]]
    /\ UNCHANGED <<ledger, pending_entries, pending_exits, bookOk, kill, resolved,
                   faults, loopFaults, crashes>>

\* start(): the open positions come back, no pending order does.
Restart ==
    /\ ~up
    /\ up' = TRUE
    /\ loops' = Loops
    /\ positions' = [t \in Restorable |-> [signal |-> trades[t].signal,
                                           remaining |-> trades[t].remaining,
                                           exit_qty |-> trades[t].exit_qty]]
    /\ UNCHANGED <<ledger, pending_entries, pending_exits, bookOk, kill, resolved,
                   faults, loopFaults, crashes>>

-----------------------------------------------------------------------------
Next ==
    \/ \E s \in Signals : \/ QueueEnter(s)
                           \/ QueueInterrupted(s)
                           \/ RefuseEntry(s)
                           \/ \E q \in 1..MaxSize : FillEntry(s, q)
                           \/ EntryWriteFails(s)
    \/ \E t \in TradeIds : \/ \E q \in 1..MaxSize : ExecuteExit(t, q)
                            \/ ExitWriteFails(t)
    \/ \E m \in Markets : \/ \E snapshot \in BOOLEAN : BookFrame(m, snapshot)
                           \/ SettleMarket(m)
                           \/ SettleAborts(m)
                           \/ ResultPublished(m)
    \/ \E ms \in SUBSET Markets \ {{}} : BookGap(ms)
    \/ \E aged \in SUBSET DOMAIN positions : CheckTimeouts(aged)
    \/ FlattenAll
    \/ \E on \in BOOLEAN : SetKill(on)
    \/ \E loop \in Loops : LoopDies(loop)
    \/ Crash
    \/ Restart

Spec == Init /\ [][Next]_vars

-----------------------------------------------------------------------------
(***************************************************************************)
(* Safety                                                                  *)
(***************************************************************************)

\* Every variable has its type; rows and fill sums come in pairs.
TypeOK ==
    /\ signals \in [Signals -> Outcomes]
    /\ trades \in Seq(TradeRow)
    /\ paper_fills \in Seq(FillSums)
    /\ Len(paper_fills) = Len(trades)
    /\ DOMAIN positions \subseteq TradeIds
    /\ positions \in [DOMAIN positions -> Position]
    /\ pending_entries \subseteq Signals
    /\ DOMAIN pending_exits \subseteq TradeIds
    /\ pending_exits \in [DOMAIN pending_exits -> Reasons]
    /\ bookOk \in [Markets -> BOOLEAN]
    /\ kill \in BOOLEAN /\ up \in BOOLEAN
    /\ loops \subseteq Loops
    /\ resolved \subseteq Markets
    /\ faults \in Nat /\ loopFaults \in Nat /\ crashes \in Nat

\* The ledger balances: for every trade the fills that were recorded, the
\* progress columns and the status tell one story, however many partial exits,
\* failed writes, settlements and restarts produced it.  A closed trade has
\* nothing left and an open one something, so no open row is ever one that
\* restore_open_positions would skip.
LedgerBalances ==
    \A t \in TradeIds :
        /\ trades[t].size = paper_fills[t].entry
        /\ trades[t].exit_qty = paper_fills[t].exit
        /\ trades[t].size = trades[t].remaining + trades[t].exit_qty
        /\ trades[t].status = "closed" <=> trades[t].remaining = 0

PositionsMatch ==
    up => /\ DOMAIN positions = {t \in TradeIds : trades[t].status = "open"}
          /\ \A t \in DOMAIN positions :
                /\ positions[t].signal = trades[t].signal
                /\ positions[t].remaining = trades[t].remaining
                /\ positions[t].exit_qty = trades[t].exit_qty

OrdersAreOwned ==
    /\ DOMAIN pending_exits \subseteq DOMAIN positions
    /\ ~up => (DOMAIN positions = {} /\ pending_entries = {} /\ loops = {})

\* While the process runs the desk owns exactly the open trades, with the same
\* progress: no open trade without an owner (it would never be exited), no
\* owned trade that is closed (it would be sold twice), and no exit order that
\* outlives its position.  Nothing is owned while the process is down.
DeskOwnsOpenTrades == PositionsMatch /\ OrdersAreOwned

\* A signal is 'filled' exactly when one trade was opened for it, and such a
\* signal has no order left that could open a second one -- across failed
\* writes, retries, settlements that raise half way, and restarts.
OneTradePerFill ==
    /\ \A s \in Signals :
         signals[s] = "filled" <=> \E t \in TradeIds : trades[t].signal = s
    /\ \A t, u \in TradeIds : trades[t].signal = trades[u].signal => t = u
    /\ \A s \in pending_entries : signals[s] \in {"queued", "expired"}

-----------------------------------------------------------------------------
(***************************************************************************)
(* What a step may never do                                                *)
(***************************************************************************)

\* An exit order lives until its position is gone or the process stops: no
\* failed write, partial fill, bad book or weaker trigger loses it, and a
\* trigger that replaces it is strictly more urgent (a flatten is never turned
\* back into a target or a timeout).
ExitOrdersPersist ==
    [][\A t \in DOMAIN pending_exits :
          (up' /\ t \in DOMAIN positions') =>
             /\ t \in DOMAIN pending_exits'
             /\ \/ pending_exits'[t] = pending_exits[t]
                \/ priority(pending_exits'[t]) > priority(pending_exits[t])]_vars

\* A signal outcome that was finalised stays what it was.
OutcomesAreFinal ==
    [][\A s \in Signals :
         signals[s] \in Refusals \cup {"filled"} => signals'[s] = signals[s]]_vars

\* The durable part implements the abstract ledger.
Ledger == INSTANCE TradeLedger WITH
    trades <- [t \in TradeIds |-> [signal |-> trades[t].signal,
                                  size   |-> trades[t].size,
                                  sold   |-> trades[t].exit_qty,
                                  closed |-> trades[t].status = "closed"]]
ImplementsLedger == Ledger!Spec

-----------------------------------------------------------------------------
(***************************************************************************)
(* Liveness                                                                *)
(***************************************************************************)
AllTradeIds == 1..Cardinality(Signals)

\* settle_poll_task visits every held market every 30 s and survives its own
\* errors; paper_execution_task polls every few milliseconds while it is alive; a
\* stopped process is started again.  Nothing obliges a market to resolve.
Fairness ==
    /\ WF_vars(Restart)
    /\ \A m \in Markets : WF_vars(SettleMarket(m))
    /\ \A s \in Signals :
         WF_vars(RefuseEntry(s) \/ \E q \in 1..MaxSize : FillEntry(s, q))

FairSpec == Spec /\ Fairness

\* Every trade whose market resolves is closed in the end: whatever loop has
\* died, whatever order is pending, whatever write failed, after any crash.
OpenTradesClose ==
    \A t \in AllTradeIds :
        (t \in TradeIds /\ MarketOf[trades[t].signal] \in resolved)
            ~> (t \in TradeIds /\ trades[t].status = "closed")

\* An order whose arrival time has passed is executed, without waiting for its
\* market to settle: after failed writes it is retried, while the loop is alive.
PendingEntriesExecute ==
    \A s \in Signals :
        s \in pending_entries ~> (s \notin pending_entries \/ "execution" \notin loops)

\* No database failure strands a paper order: it is retried until it is executed.
NoOrderIsStranded ==
    \A s \in Signals : s \in pending_entries ~> s \notin pending_entries
=============================================================================
