-------------------------- MODULE PaperDeskProofs --------------------------
(***************************************************************************)
(* Proofs about PaperDesk for every set of signals and markets, every size *)
(* and every number of failed writes and crashes; and, at the end, about   *)
(* the shadow book its orders fill from (ShadowLiquidity).                 *)
(*                                                                         *)
(* The safety properties hold together or not at all: that the ledger      *)
(* balances after an exit follows from the desk's copy agreeing with the   *)
(* row (PositionsMatch), because the columns written are computed from     *)
(* memory; that the copy agrees after a restart follows from open rows     *)
(* having something left (LedgerBalances); and that a fill opens the only  *)
(* trade of its signal follows from pending signals not being filled       *)
(* (OneTradePerFill).  IInv is their conjunction.                          *)
(***************************************************************************)
EXTENDS PaperDesk, ShadowLiquidity, SequenceTheorems, FiniteSetTheorems, TLAPS

IInv ==
    TypeOK /\ LedgerBalances /\ PositionsMatch /\ OrdersAreOwned
           /\ OneTradePerFill

-----------------------------------------------------------------------------
(***************************************************************************)
(* Lemmas                                                                  *)
(***************************************************************************)

\* A function from 1..n into S is a sequence over S.
LEMMA FunctionIsSeq ==
    ASSUME NEW S, NEW n \in Nat, NEW f \in [1..n -> S]
    PROVE  f \in Seq(S) /\ Len(f) = n /\ DOMAIN f = 1..n
  OBVIOUS

\* The tables as functions of trade ids.
LEMMA Tables ==
    ASSUME TypeOK
    PROVE  /\ Len(trades) \in Nat
           /\ TradeIds = 1..Len(trades)
           /\ DOMAIN paper_fills = 1..Len(trades)
           /\ \A t \in TradeIds : trades[t] \in TradeRow /\ paper_fills[t] \in FillSums
           /\ \A t \in DOMAIN positions : t \in TradeIds /\ positions[t] \in Position
  <1>1. /\ Len(trades) \in Nat /\ trades \in [1..Len(trades) -> TradeRow]
        /\ TradeIds = 1..Len(trades)
    BY LenProperties DEF TypeOK, TradeIds
  <1>2. /\ paper_fills \in [1..Len(trades) -> FillSums]
        /\ DOMAIN paper_fills = 1..Len(trades)
    BY LenProperties DEF TypeOK
  <1>3. \A t \in DOMAIN positions : t \in TradeIds /\ positions[t] \in Position
    BY DEF TypeOK
  <1> QED BY <1>1, <1>2, <1>3

\* Queueing exits for owned positions keeps the orders typed and owned.
LEMMA QueueExitsKeeps ==
    ASSUME TypeOK, OrdersAreOwned, NEW trigger,
           DOMAIN trigger \subseteq DOMAIN positions,
           \A t \in DOMAIN trigger : trigger[t] \in Reasons,
           QueueExits(trigger)
    PROVE  /\ DOMAIN pending_exits' \subseteq DOMAIN positions
           /\ pending_exits' \in [DOMAIN pending_exits' -> Reasons]
  <1> DEFINE queued == {t \in DOMAIN trigger : Displaces(t, trigger[t])}
  <1>1. pending_exits' = [t \in DOMAIN pending_exits \cup queued |->
                            IF t \in queued THEN trigger[t] ELSE pending_exits[t]]
    BY DEF QueueExits
  <1>2. DOMAIN pending_exits' = DOMAIN pending_exits \cup queued
    BY <1>1
  <1>3. DOMAIN pending_exits \subseteq DOMAIN positions
    BY DEF OrdersAreOwned
  <1>4. \A t \in DOMAIN pending_exits : pending_exits[t] \in Reasons
    BY DEF TypeOK
  <1>5. \A t \in DOMAIN pending_exits \cup queued : pending_exits'[t] \in Reasons
    BY <1>1, <1>4
  <1>6. pending_exits' \in [DOMAIN pending_exits' -> Reasons]
    BY <1>1, <1>2, <1>5
  <1> QED BY <1>2, <1>3, <1>6

\* A step that leaves ledger and desk alone keeps the invariant.
LEMMA BystanderKeeps ==
    ASSUME IInv, UNCHANGED <<ledger, desk, up>>,
           bookOk' \in [Markets -> BOOLEAN], kill' \in BOOLEAN,
           loops' \subseteq Loops, ~up => loops' = {},
           resolved' \subseteq Markets, faults' \in Nat, loopFaults' \in Nat,
           crashes' \in Nat
    PROVE  IInv'
  <1>1. /\ signals' = signals /\ trades' = trades /\ paper_fills' = paper_fills
        /\ positions' = positions /\ pending_entries' = pending_entries
        /\ pending_exits' = pending_exits /\ up' = up
    BY DEF ledger, desk
  <1>2. TypeOK'
    BY <1>1 DEF IInv, TypeOK, TradeIds
  <1>3. LedgerBalances' /\ PositionsMatch' /\ OneTradePerFill'
    BY <1>1 DEF IInv, LedgerBalances, PositionsMatch, OneTradePerFill, TradeIds
  <1>4. OrdersAreOwned'
    BY <1>1 DEF IInv, OrdersAreOwned
  <1> QED BY <1>2, <1>3, <1>4 DEF IInv

\* A step that only replaces exit orders keeps the invariant.
LEMMA TriggersKeep ==
    ASSUME IInv, NEW trigger,
           DOMAIN trigger \subseteq DOMAIN positions,
           \A t \in DOMAIN trigger : trigger[t] \in Reasons,
           QueueExits(trigger), bookOk' \in [Markets -> BOOLEAN],
           UNCHANGED <<ledger, positions, pending_entries, kill, up, loops,
                       resolved, faults, loopFaults, crashes>>
    PROVE  IInv'
  <1>1. /\ DOMAIN pending_exits' \subseteq DOMAIN positions
        /\ pending_exits' \in [DOMAIN pending_exits' -> Reasons]
    BY QueueExitsKeeps DEF IInv
  <1>2. /\ signals' = signals /\ trades' = trades /\ paper_fills' = paper_fills
        /\ positions' = positions /\ pending_entries' = pending_entries
        /\ up' = up /\ loops' = loops
    BY DEF ledger
  <1>3. TypeOK'
    BY <1>1, <1>2 DEF IInv, TypeOK, TradeIds
  <1>4. LedgerBalances' /\ PositionsMatch' /\ OneTradePerFill'
    BY <1>2 DEF IInv, LedgerBalances, PositionsMatch, OneTradePerFill, TradeIds
  <1>5. OrdersAreOwned'
    BY <1>1, <1>2 DEF IInv, OrdersAreOwned
  <1> QED BY <1>3, <1>4, <1>5 DEF IInv

\* record_paper_exit and its aftermath, for any set of owned positions: the
\* ledger balances again and the desk owns what is still open.
LEMMA CommitExitsKeeps ==
    ASSUME IInv, up, up', NEW sold,
           DOMAIN sold \subseteq DOMAIN positions,
           \A t \in DOMAIN sold : sold[t] \in 1..positions[t].remaining,
           CommitExits(sold)
    PROVE  /\ trades' \in Seq(TradeRow) /\ paper_fills' \in Seq(FillSums)
           /\ Len(trades') = Len(trades) /\ Len(paper_fills') = Len(trades)
           /\ TradeIds' = TradeIds
           /\ \A t \in TradeIds : trades'[t].signal = trades[t].signal
           /\ DOMAIN positions' \subseteq TradeIds
           /\ positions' \in [DOMAIN positions' -> Position]
           /\ DOMAIN pending_exits' \subseteq DOMAIN positions'
           /\ pending_exits' \in [DOMAIN pending_exits' -> Reasons]
           /\ LedgerBalances' /\ PositionsMatch'
  <1> DEFINE rest(t) == positions[t].remaining - sold[t]
             out(t)  == positions[t].exit_qty + sold[t]
             done    == {t \in DOMAIN sold : rest(t) = 0}
  <1>0. TypeOK /\ LedgerBalances /\ OrdersAreOwned
    BY DEF IInv
  <1>1. /\ Len(trades) \in Nat
        /\ TradeIds = 1..Len(trades)
        /\ DOMAIN trades = 1..Len(trades)
        /\ DOMAIN paper_fills = 1..Len(trades)
        /\ \A t \in TradeIds : trades[t] \in TradeRow /\ paper_fills[t] \in FillSums
        /\ \A t \in DOMAIN positions : t \in TradeIds /\ positions[t] \in Position
    BY <1>0, Tables DEF TradeIds
  <1>2. /\ trades' = [t \in DOMAIN trades |->
              IF t \in DOMAIN sold
                THEN [trades[t] EXCEPT !.remaining = rest(t), !.exit_qty = out(t),
                        !.status = IF t \in done THEN "closed" ELSE @]
                ELSE trades[t]]
        /\ paper_fills' = [t \in DOMAIN paper_fills |->
              IF t \in DOMAIN sold
                THEN [paper_fills[t] EXCEPT !.exit = @ + sold[t]]
                ELSE paper_fills[t]]
        /\ positions' = [t \in DOMAIN positions \ done |->
              IF t \in DOMAIN sold
                THEN [positions[t] EXCEPT !.remaining = rest(t), !.exit_qty = out(t)]
                ELSE positions[t]]
        /\ pending_exits' = [t \in DOMAIN pending_exits \ done |-> pending_exits[t]]
    BY DEF CommitExits
  <1>3. ASSUME NEW t \in DOMAIN sold
        PROVE  /\ t \in TradeIds /\ t \in DOMAIN positions
               /\ trades[t].status = "open"
               /\ positions[t].signal = trades[t].signal
               /\ positions[t].remaining = trades[t].remaining
               /\ positions[t].exit_qty = trades[t].exit_qty
               /\ rest(t) \in Qty /\ out(t) \in Qty
               /\ trades[t].size = rest(t) + out(t)
               /\ out(t) = paper_fills[t].exit + sold[t]
               /\ trades[t].size = paper_fills[t].entry
    <2>1. /\ t \in TradeIds /\ t \in DOMAIN positions
          /\ trades[t].status = "open"
          /\ positions[t].signal = trades[t].signal
          /\ positions[t].remaining = trades[t].remaining
          /\ positions[t].exit_qty = trades[t].exit_qty
      BY <1>1 DEF IInv, PositionsMatch
    <2>2. /\ trades[t].size = paper_fills[t].entry
          /\ trades[t].exit_qty = paper_fills[t].exit
          /\ trades[t].size = trades[t].remaining + trades[t].exit_qty
      BY <1>0, <2>1 DEF LedgerBalances
    <2>3. /\ trades[t].size \in 0..MaxSize /\ trades[t].remaining \in 0..MaxSize
          /\ trades[t].exit_qty \in 0..MaxSize
          /\ sold[t] \in 1..trades[t].remaining
      BY <1>1, <2>1 DEF TradeRow, Qty
    <2>4. MaxSize \in Nat
      BY ConstantsOK
    <2> QED BY <2>1, <2>2, <2>3, <2>4 DEF Qty
  <1>4. ASSUME NEW t \in TradeIds, t \notin DOMAIN sold
        PROVE  trades'[t] = trades[t] /\ paper_fills'[t] = paper_fills[t]
    BY <1>1, <1>2, <1>4
  <1>5. ASSUME NEW t \in DOMAIN sold
        PROVE  /\ trades'[t] = [signal |-> trades[t].signal,
                                status |-> IF rest(t) = 0 THEN "closed" ELSE "open",
                                size |-> trades[t].size,
                                remaining |-> rest(t), exit_qty |-> out(t)]
               /\ paper_fills'[t] = [entry |-> paper_fills[t].entry,
                                     exit |-> paper_fills[t].exit + sold[t]]
    <2>1. trades[t] \in TradeRow /\ paper_fills[t] \in FillSums
      BY <1>1, <1>3
    <2>2. t \in done <=> rest(t) = 0
      OBVIOUS
    <2>3. trades'[t] = [trades[t] EXCEPT !.remaining = rest(t), !.exit_qty = out(t),
                          !.status = IF rest(t) = 0 THEN "closed" ELSE "open"]
      BY <1>1, <1>2, <1>3, <2>2
    <2>4. paper_fills'[t] = [paper_fills[t] EXCEPT !.exit = @ + sold[t]]
      BY <1>1, <1>2, <1>3
    <2> QED BY <2>1, <2>3, <2>4 DEF TradeRow, FillSums
  <1>6. /\ trades' \in Seq(TradeRow) /\ Len(trades') = Len(trades)
        /\ DOMAIN trades' = 1..Len(trades)
    <2>1. ASSUME NEW t \in 1..Len(trades)
          PROVE  trades'[t] \in TradeRow
      <3>1. CASE t \in DOMAIN sold
        <4>1. trades[t] \in TradeRow /\ rest(t) \in Qty /\ out(t) \in Qty
          BY <1>1, <1>3, <3>1
        <4>2. trades'[t] = [signal |-> trades[t].signal,
                            status |-> IF rest(t) = 0 THEN "closed" ELSE "open",
                            size |-> trades[t].size,
                            remaining |-> rest(t), exit_qty |-> out(t)]
          BY <1>5, <3>1
        <4> QED BY <4>1, <4>2 DEF TradeRow
      <3>2. CASE t \notin DOMAIN sold
        BY <1>1, <1>4, <3>2
      <3> QED BY <3>1, <3>2
    <2>2. trades' \in [1..Len(trades) -> TradeRow]
      BY <1>1, <1>2, <2>1
    <2> QED BY <1>1, <2>2, FunctionIsSeq
  <1>7. paper_fills' \in Seq(FillSums) /\ Len(paper_fills') = Len(trades)
    <2>1. ASSUME NEW t \in 1..Len(trades)
          PROVE  paper_fills'[t] \in FillSums
      <3>1. CASE t \in DOMAIN sold
        <4>1. /\ paper_fills[t] \in FillSums
              /\ paper_fills[t].exit + sold[t] \in Qty
          BY <1>1, <1>3, <3>1
        <4>3. paper_fills'[t] = [entry |-> paper_fills[t].entry,
                                 exit |-> paper_fills[t].exit + sold[t]]
          BY <1>5, <3>1
        <4> QED BY <4>1, <4>3 DEF FillSums
      <3>2. CASE t \notin DOMAIN sold
        BY <1>1, <1>4, <3>2
      <3> QED BY <3>1, <3>2
    <2>2. paper_fills' \in [1..Len(trades) -> FillSums]
      BY <1>1, <1>2, <2>1
    <2> QED BY <1>1, <2>2, FunctionIsSeq
  <1>8. TradeIds' = TradeIds
    BY <1>1, <1>6 DEF TradeIds
  <1>9. ASSUME NEW t \in TradeIds
        PROVE  trades'[t].signal = trades[t].signal
    <2>1. CASE t \in DOMAIN sold
      <3>1. trades'[t] = [signal |-> trades[t].signal,
                          status |-> IF rest(t) = 0 THEN "closed" ELSE "open",
                          size |-> trades[t].size,
                          remaining |-> rest(t), exit_qty |-> out(t)]
        BY <1>5, <2>1
      <3> QED BY <3>1
    <2>2. CASE t \notin DOMAIN sold
      BY <1>4, <2>2
    <2> QED BY <2>1, <2>2
  <1>10. DOMAIN positions' = DOMAIN positions \ done
    BY <1>2
  <1>11. ASSUME NEW t \in DOMAIN positions'
         PROVE  /\ t \in DOMAIN positions
                /\ t \notin done
                /\ positions'[t] =
                     IF t \in DOMAIN sold
                       THEN [signal |-> positions[t].signal,
                             remaining |-> rest(t), exit_qty |-> out(t)]
                       ELSE positions[t]
                /\ positions'[t] \in Position
    <2>1. t \in DOMAIN positions /\ t \notin done
      BY <1>10
    <2>2. positions[t] \in Position
      BY <1>1, <2>1
    <2>3. positions'[t] = IF t \in DOMAIN sold
                            THEN [positions[t] EXCEPT !.remaining = rest(t),
                                                      !.exit_qty = out(t)]
                            ELSE positions[t]
      BY <1>2, <2>1
    <2>4. positions'[t] = IF t \in DOMAIN sold
                            THEN [signal |-> positions[t].signal,
                                  remaining |-> rest(t), exit_qty |-> out(t)]
                            ELSE positions[t]
      BY <2>2, <2>3 DEF Position
    <2> QED BY <1>3, <2>1, <2>2, <2>4 DEF Position
  <1>12. positions' \in [DOMAIN positions' -> Position]
    BY <1>2, <1>10, <1>11
  <1>13. /\ DOMAIN pending_exits' \subseteq DOMAIN positions'
         /\ pending_exits' \in [DOMAIN pending_exits' -> Reasons]
    <2>1. DOMAIN pending_exits' = DOMAIN pending_exits \ done
      BY <1>2
    <2>2. \A t \in DOMAIN pending_exits' : pending_exits'[t] \in Reasons
      BY <1>0, <1>2, <2>1 DEF TypeOK
    <2> QED BY <1>0, <1>2, <1>10, <2>1, <2>2 DEF OrdersAreOwned
  <1>14. LedgerBalances'
    <2>1. ASSUME NEW t \in TradeIds
          PROVE  /\ trades'[t].size = paper_fills'[t].entry
                 /\ trades'[t].exit_qty = paper_fills'[t].exit
                 /\ trades'[t].size = trades'[t].remaining + trades'[t].exit_qty
                 /\ trades'[t].status = "closed" <=> trades'[t].remaining = 0
      <3>1. CASE t \in DOMAIN sold
        <4>1. /\ rest(t) \in Qty /\ out(t) \in Qty
              /\ trades[t].size = rest(t) + out(t)
              /\ out(t) = paper_fills[t].exit + sold[t]
              /\ trades[t].size = paper_fills[t].entry
          BY <1>3, <3>1
        <4>2. trades'[t] = [signal |-> trades[t].signal,
                            status |-> IF rest(t) = 0 THEN "closed" ELSE "open",
                            size |-> trades[t].size,
                            remaining |-> rest(t), exit_qty |-> out(t)]
          BY <1>5, <3>1
        <4>3. paper_fills'[t] = [entry |-> paper_fills[t].entry,
                                 exit |-> paper_fills[t].exit + sold[t]]
          BY <1>5, <3>1
        <4> QED BY <4>1, <4>2, <4>3 DEF Qty
      <3>2. CASE t \notin DOMAIN sold
        BY <1>0, <1>4, <3>2 DEF LedgerBalances
      <3> QED BY <3>1, <3>2
    <2> QED BY <1>8, <2>1 DEF LedgerBalances
  <1>15. PositionsMatch'
    <2>1. /\ DOMAIN positions = {t \in TradeIds : trades[t].status = "open"}
          /\ \A t \in DOMAIN positions :
                /\ positions[t].signal = trades[t].signal
                /\ positions[t].remaining = trades[t].remaining
                /\ positions[t].exit_qty = trades[t].exit_qty
      BY DEF IInv, PositionsMatch
    <2>2. ASSUME NEW t \in TradeIds
          PROVE  trades'[t].status = "open" <=> t \in DOMAIN positions'
      <3>1. CASE t \in DOMAIN sold
        <4>1. t \in DOMAIN positions /\ (t \in done <=> rest(t) = 0)
          BY <1>3, <3>1
        <4>2. trades'[t] = [signal |-> trades[t].signal,
                            status |-> IF rest(t) = 0 THEN "closed" ELSE "open",
                            size |-> trades[t].size,
                            remaining |-> rest(t), exit_qty |-> out(t)]
          BY <1>5, <3>1
        <4> QED BY <1>10, <4>1, <4>2
      <3>2. CASE t \notin DOMAIN sold
        BY <1>4, <1>10, <2>1, <3>2
      <3> QED BY <3>1, <3>2
    <2>3. DOMAIN positions' = {t \in TradeIds : trades'[t].status = "open"}
      BY <1>1, <1>10, <2>2
    <2>4. ASSUME NEW t \in DOMAIN positions'
          PROVE  /\ positions'[t].signal = trades'[t].signal
                 /\ positions'[t].remaining = trades'[t].remaining
                 /\ positions'[t].exit_qty = trades'[t].exit_qty
      <3>1. CASE t \in DOMAIN sold
        <4>1. positions[t].signal = trades[t].signal
          BY <1>3, <3>1
        <4>2. trades'[t] = [signal |-> trades[t].signal,
                            status |-> IF rest(t) = 0 THEN "closed" ELSE "open",
                            size |-> trades[t].size,
                            remaining |-> rest(t), exit_qty |-> out(t)]
          BY <1>5, <3>1
        <4>3. positions'[t] = [signal |-> positions[t].signal,
                               remaining |-> rest(t), exit_qty |-> out(t)]
          BY <1>11, <3>1
        <4> QED BY <4>1, <4>2, <4>3
      <3>2. CASE t \notin DOMAIN sold
        BY <1>1, <1>4, <1>11, <2>1, <3>2
      <3> QED BY <3>1, <3>2
    <2> QED BY <1>8, <2>3, <2>4 DEF PositionsMatch
  <1> QED BY <1>1, <1>6, <1>7, <1>8, <1>9, <1>10, <1>12, <1>13, <1>14, <1>15

-----------------------------------------------------------------------------
(***************************************************************************)
(* One lemma per action                                                    *)
(***************************************************************************)

LEMMA InitIInv == Init => IInv
  <1> SUFFICES ASSUME Init PROVE IInv
    OBVIOUS
  <1>1. /\ trades = << >> /\ paper_fills = << >>
        /\ DOMAIN positions = {} /\ DOMAIN pending_exits = {}
        /\ TradeIds = {} /\ Len(trades) = 0 /\ Len(paper_fills) = 0
        /\ trades \in Seq(TradeRow) /\ paper_fills \in Seq(FillSums)
    BY DEF Init, EmptyMap, TradeIds
  <1>2. TypeOK
    <2>1. /\ positions \in [DOMAIN positions -> Position]
          /\ pending_exits \in [DOMAIN pending_exits -> Reasons]
      BY <1>1 DEF Init, EmptyMap
    <2> QED BY <1>1, <2>1 DEF Init, TypeOK, Outcomes, Loops
  <1>3. LedgerBalances
    BY <1>1 DEF LedgerBalances
  <1>4. PositionsMatch /\ OrdersAreOwned
    BY <1>1 DEF Init, PositionsMatch, OrdersAreOwned
  <1>5. OneTradePerFill
    BY <1>1 DEF Init, OneTradePerFill
  <1> QED BY <1>2, <1>3, <1>4, <1>5 DEF IInv

\* Steps that change only the outcome of unfilled signals and what is pending.
LEMMA OutcomesKeep ==
    ASSUME IInv, up,
           signals' \in [Signals -> Outcomes],
           pending_entries' \subseteq Signals,
           \A s \in Signals : signals'[s] = "filled" <=> signals[s] = "filled",
           \A s \in pending_entries' : signals'[s] \in {"queued", "expired"},
           faults' \in Nat,
           UNCHANGED <<trades, paper_fills, positions, pending_exits, bookOk, kill,
                       up, loops, resolved, loopFaults, crashes>>
    PROVE  IInv'
  <1>1. TypeOK'
    BY DEF IInv, TypeOK, TradeIds
  <1>2. LedgerBalances' /\ PositionsMatch' /\ OrdersAreOwned'
    BY DEF IInv, LedgerBalances, PositionsMatch, OrdersAreOwned, TradeIds
  <1>3. OneTradePerFill'
    BY DEF IInv, OneTradePerFill, TradeIds
  <1> QED BY <1>1, <1>2, <1>3 DEF IInv

LEMMA QueueKeeps ==
    ASSUME IInv, NEW s \in Signals, QueueEnter(s) \/ QueueInterrupted(s)
    PROVE  IInv'
  <1>1. /\ up /\ signals[s] = "none"
        /\ signals' = [signals EXCEPT ![s] = "queued"]
        /\ pending_entries' \subseteq pending_entries \cup {s}
    BY DEF QueueEnter, QueueInterrupted, desk
  <1>2. /\ signals \in [Signals -> Outcomes] /\ pending_entries \subseteq Signals
        /\ faults \in Nat
        /\ \A u \in pending_entries : signals[u] \in {"queued", "expired"}
    BY DEF IInv, TypeOK, OneTradePerFill
  <1>3. /\ signals' \in [Signals -> Outcomes]
        /\ \A u \in Signals : signals'[u] = "filled" <=> signals[u] = "filled"
        /\ \A u \in pending_entries' : signals'[u] \in {"queued", "expired"}
        /\ pending_entries' \subseteq Signals
    BY <1>1, <1>2 DEF Outcomes
  <1>4. faults' \in Nat
    BY <1>2 DEF QueueEnter, QueueInterrupted, TransactionsFail
  <1>5. UNCHANGED <<trades, paper_fills, positions, pending_exits, bookOk, kill,
                    up, loops, resolved, loopFaults, crashes>>
    BY DEF QueueEnter, QueueInterrupted, desk
  <1> QED BY <1>1, <1>3, <1>4, <1>5, OutcomesKeep

LEMMA RefuseKeeps ==
    ASSUME IInv, NEW s \in Signals, RefuseEntry(s)
    PROVE  IInv'
  <1>1. PICK outcome \in EntryRefusals(s) :
           signals' = [signals EXCEPT ![s] = outcome]
    BY DEF RefuseEntry
  <1>2. outcome \in Refusals
    BY <1>1 DEF EntryRefusals, Refusals
  <1>3. /\ signals \in [Signals -> Outcomes] /\ pending_entries \subseteq Signals
        /\ \A u \in pending_entries : signals[u] \in {"queued", "expired"}
        /\ s \in pending_entries /\ pending_entries' = pending_entries \ {s}
    BY DEF IInv, TypeOK, OneTradePerFill, RefuseEntry
  <1>4. /\ signals' \in [Signals -> Outcomes]
        /\ \A u \in Signals : signals'[u] = "filled" <=> signals[u] = "filled"
        /\ \A u \in pending_entries' : signals'[u] \in {"queued", "expired"}
    BY <1>1, <1>2, <1>3 DEF Outcomes, Refusals
  <1>5. faults' \in Nat /\ up
    BY DEF RefuseEntry, IInv, TypeOK
  <1> QED BY <1>3, <1>4, <1>5, OutcomesKeep DEF RefuseEntry

LEMMA SettleAbortsKeeps ==
    ASSUME IInv, NEW m \in Markets, SettleAborts(m)
    PROVE  IInv'
  <1>1. PICK done \in SUBSET PendingOn(m) :
           signals' = [s \in Signals |-> IF s \in done THEN "expired" ELSE signals[s]]
    BY DEF SettleAborts
  <1>2. /\ signals \in [Signals -> Outcomes] /\ pending_entries \subseteq Signals
        /\ \A u \in pending_entries : signals[u] \in {"queued", "expired"}
        /\ pending_entries' = pending_entries /\ done \subseteq pending_entries
    BY <1>1 DEF IInv, TypeOK, OneTradePerFill, SettleAborts, desk, PendingOn
  <1>3. /\ signals' \in [Signals -> Outcomes]
        /\ \A u \in Signals : signals'[u] = "filled" <=> signals[u] = "filled"
        /\ \A u \in pending_entries' : signals'[u] \in {"queued", "expired"}
    BY <1>1, <1>2 DEF Outcomes, Refusals
  <1>4. faults' \in Nat /\ up
    BY DEF SettleAborts, TransactionsFail, IInv, TypeOK
  <1> QED BY <1>2, <1>3, <1>4, OutcomesKeep DEF SettleAborts, desk

LEMMA FillKeeps ==
    ASSUME IInv, NEW s \in Signals, NEW q \in 1..MaxSize, FillEntry(s, q)
    PROVE  IInv'
  <1> DEFINE tid == Len(trades) + 1
             row == [signal |-> s, status |-> "open", size |-> q,
                     remaining |-> q, exit_qty |-> 0]
             sums == [entry |-> q, exit |-> 0]
             pos == [signal |-> s, remaining |-> q, exit_qty |-> 0]
  <1>0. /\ TypeOK /\ LedgerBalances /\ PositionsMatch /\ OrdersAreOwned
        /\ OneTradePerFill
    BY DEF IInv
  <1>1. /\ Len(trades) \in Nat
        /\ TradeIds = 1..Len(trades)
        /\ DOMAIN paper_fills = 1..Len(trades)
        /\ trades \in Seq(TradeRow) /\ paper_fills \in Seq(FillSums)
        /\ Len(paper_fills) = Len(trades)
        /\ \A t \in DOMAIN positions : t \in TradeIds /\ positions[t] \in Position
    BY <1>0, Tables DEF TypeOK
  <1>2. row \in TradeRow /\ sums \in FillSums /\ pos \in Position
    BY ConstantsOK DEF TradeRow, FillSums, Position, Qty
  <1>3. /\ up /\ s \in pending_entries
        /\ trades' = Append(trades, row)
        /\ paper_fills' = Append(paper_fills, sums)
        /\ positions' = [t \in DOMAIN positions \cup {tid} |->
                           IF t = tid THEN pos ELSE positions[t]]
        /\ signals' = [signals EXCEPT ![s] = "filled"]
        /\ pending_entries' = pending_entries \ {s}
        /\ UNCHANGED <<pending_exits, bookOk, kill, up, loops, resolved,
                       faults, loopFaults, crashes>>
    BY DEF FillEntry
  <1>4. /\ trades' \in Seq(TradeRow) /\ Len(trades') = tid
        /\ TradeIds' = TradeIds \cup {tid} /\ tid \notin TradeIds
        /\ trades'[tid] = row
        /\ \A t \in TradeIds : trades'[t] = trades[t]
    BY <1>1, <1>2, <1>3 DEF TradeIds
  <1>5. /\ paper_fills' \in Seq(FillSums) /\ Len(paper_fills') = tid
        /\ paper_fills'[tid] = sums
        /\ \A t \in TradeIds : paper_fills'[t] = paper_fills[t]
    BY <1>1, <1>2, <1>3
  <1>6. /\ DOMAIN positions' = DOMAIN positions \cup {tid}
        /\ positions'[tid] = pos
        /\ \A t \in DOMAIN positions : positions'[t] = positions[t]
    BY <1>1, <1>3, <1>4
  <1>7. TypeOK'
    <2>1. positions' \in [DOMAIN positions' -> Position]
      BY <1>1, <1>2, <1>3, <1>6
    <2>2. /\ DOMAIN positions' \subseteq TradeIds'
          /\ DOMAIN pending_exits' \subseteq TradeIds'
      BY <1>0, <1>1, <1>3, <1>4, <1>6 DEF TypeOK
    <2>3. signals' \in [Signals -> Outcomes]
      BY <1>0, <1>3 DEF TypeOK, Outcomes
    <2> QED BY <1>0, <1>3, <1>4, <1>5, <2>1, <2>2, <2>3 DEF TypeOK
  <1>8. LedgerBalances'
    <2>1. ASSUME NEW t \in TradeIds'
          PROVE  /\ trades'[t].size = paper_fills'[t].entry
                 /\ trades'[t].exit_qty = paper_fills'[t].exit
                 /\ trades'[t].size = trades'[t].remaining + trades'[t].exit_qty
                 /\ trades'[t].status = "closed" <=> trades'[t].remaining = 0
      <3>1. CASE t = tid
        BY <1>4, <1>5, <3>1
      <3>2. CASE t \in TradeIds
        BY <1>0, <1>4, <1>5, <3>2 DEF LedgerBalances
      <3> QED BY <1>4, <3>1, <3>2
    <2> QED BY <2>1 DEF LedgerBalances
  <1>9. PositionsMatch'
    <2>1. /\ DOMAIN positions = {t \in TradeIds : trades[t].status = "open"}
          /\ \A t \in DOMAIN positions :
                /\ positions[t].signal = trades[t].signal
                /\ positions[t].remaining = trades[t].remaining
                /\ positions[t].exit_qty = trades[t].exit_qty
      BY <1>0, <1>3 DEF PositionsMatch
    <2>2. DOMAIN positions' = {t \in TradeIds' : trades'[t].status = "open"}
      BY <1>4, <1>6, <2>1
    <2>3. ASSUME NEW t \in DOMAIN positions'
          PROVE  /\ positions'[t].signal = trades'[t].signal
                 /\ positions'[t].remaining = trades'[t].remaining
                 /\ positions'[t].exit_qty = trades'[t].exit_qty
      <3>1. CASE t = tid
        BY <1>4, <1>6, <3>1
      <3>2. CASE t \in DOMAIN positions
        BY <1>1, <1>4, <1>6, <2>1, <3>2
      <3> QED BY <1>6, <3>1, <3>2
    <2> QED BY <2>2, <2>3 DEF PositionsMatch
  <1>10. OrdersAreOwned'
    BY <1>0, <1>3, <1>6 DEF OrdersAreOwned
  <1>11. OneTradePerFill'
    <2>1. signals[s] \in {"queued", "expired"}
      BY <1>0, <1>3 DEF OneTradePerFill
    <2>2. \A t \in TradeIds : trades[t].signal # s
      BY <1>0, <2>1 DEF OneTradePerFill
    <2>3. /\ signals'[s] = "filled"
          /\ \A u \in Signals \ {s} : signals'[u] = signals[u]
      BY <1>0, <1>3 DEF TypeOK
    <2>4. ASSUME NEW u \in Signals
          PROVE  signals'[u] = "filled" <=> \E t \in TradeIds' : trades'[t].signal = u
      <3>1. CASE u = s
        BY <1>4, <2>3, <3>1
      <3>2. CASE u # s
        BY <1>0, <1>4, <2>3, <3>2 DEF OneTradePerFill
      <3> QED BY <3>1, <3>2
    <2>5. \A t, u \in TradeIds' : trades'[t].signal = trades'[u].signal => t = u
      BY <1>0, <1>4, <2>2 DEF OneTradePerFill
    <2>6. \A u \in pending_entries' : signals'[u] \in {"queued", "expired"}
      BY <1>0, <1>3, <2>3 DEF OneTradePerFill, TypeOK
    <2> QED BY <2>4, <2>5, <2>6 DEF OneTradePerFill
  <1> QED BY <1>7, <1>8, <1>9, <1>10, <1>11 DEF IInv

\* What CommitExitsKeeps leaves to show, when the signals stay unfilled or
\* filled as they were.
LEMMA ExitsKeep ==
    ASSUME IInv, up, NEW sold,
           DOMAIN sold \subseteq DOMAIN positions,
           \A t \in DOMAIN sold : sold[t] \in 1..positions[t].remaining,
           CommitExits(sold),
           signals' \in [Signals -> Outcomes],
           pending_entries' \subseteq Signals,
           \A s \in Signals : signals'[s] = "filled" <=> signals[s] = "filled",
           \A s \in pending_entries' : signals'[s] \in {"queued", "expired"},
           faults' \in Nat,
           UNCHANGED <<bookOk, kill, up, loops, resolved, loopFaults, crashes>>
    PROVE  IInv'
  <1>1. up'
    OBVIOUS
  <1>2. /\ trades' \in Seq(TradeRow) /\ paper_fills' \in Seq(FillSums)
        /\ Len(trades') = Len(trades) /\ Len(paper_fills') = Len(trades)
        /\ TradeIds' = TradeIds
        /\ \A t \in TradeIds : trades'[t].signal = trades[t].signal
        /\ DOMAIN positions' \subseteq TradeIds
        /\ positions' \in [DOMAIN positions' -> Position]
        /\ DOMAIN pending_exits' \subseteq DOMAIN positions'
        /\ pending_exits' \in [DOMAIN pending_exits' -> Reasons]
        /\ LedgerBalances' /\ PositionsMatch'
    BY <1>1, CommitExitsKeeps
  <1>3. TypeOK'
    BY <1>2 DEF IInv, TypeOK
  <1>4. OrdersAreOwned'
    BY <1>1, <1>2 DEF OrdersAreOwned
  <1>5. OneTradePerFill'
    BY <1>2 DEF IInv, OneTradePerFill
  <1> QED BY <1>2, <1>3, <1>4, <1>5 DEF IInv

LEMMA ExecuteExitKeeps ==
    ASSUME IInv, NEW t, NEW q, ExecuteExit(t, q)
    PROVE  IInv'
  <1> DEFINE sold == [u \in {t} |-> q]
  <1>1. t \in DOMAIN positions /\ DOMAIN sold = {t} /\ sold[t] = q
    BY DEF ExecuteExit, IInv, OrdersAreOwned
  <1>2. /\ up /\ CommitExits(sold) /\ q \in 1..positions[t].remaining
        /\ UNCHANGED <<signals, pending_entries, bookOk, kill, up, loops, resolved,
                       faults, loopFaults, crashes>>
    BY DEF ExecuteExit
  <1>3. /\ DOMAIN sold \subseteq DOMAIN positions
        /\ \A u \in DOMAIN sold : sold[u] \in 1..positions[u].remaining
    BY <1>1, <1>2
  <1>4. /\ signals' \in [Signals -> Outcomes]
        /\ pending_entries' \subseteq Signals
        /\ \A s \in Signals : signals'[s] = "filled" <=> signals[s] = "filled"
        /\ \A s \in pending_entries' : signals'[s] \in {"queued", "expired"}
        /\ faults' \in Nat
    BY <1>2 DEF IInv, TypeOK, OneTradePerFill
  <1> HIDE DEF sold
  <1> QED BY <1>2, <1>3, <1>4, ExitsKeep

LEMMA SettleKeeps ==
    ASSUME IInv, NEW m \in Markets, SettleMarket(m)
    PROVE  IInv'
  <1>1. PICK kept \in SUBSET PositionsOn(m) :
           /\ TransactionsFail(Cardinality(kept))
           /\ CommitExits([t \in PositionsOn(m) \ kept |-> positions[t].remaining])
    BY DEF SettleMarket
  <1> DEFINE sold == [t \in PositionsOn(m) \ kept |-> positions[t].remaining]
  <1>2. /\ up
        /\ signals' = [s \in Signals |-> IF s \in PendingOn(m) THEN "expired"
                                                            ELSE signals[s]]
        /\ pending_entries' = pending_entries \ PendingOn(m)
        /\ UNCHANGED <<bookOk, kill, up, loops, resolved, loopFaults, crashes>>
    BY DEF SettleMarket
  <1>3. /\ DOMAIN sold \subseteq DOMAIN positions
        /\ \A t \in DOMAIN sold : sold[t] \in 1..positions[t].remaining
    <2>1. DOMAIN sold \subseteq DOMAIN positions
      BY DEF PositionsOn
    <2>2. ASSUME NEW t \in DOMAIN positions
          PROVE  positions[t].remaining \in 1..positions[t].remaining
      <3>1. /\ t \in TradeIds /\ trades[t].status = "open"
            /\ positions[t].remaining = trades[t].remaining
        BY <1>2 DEF IInv, PositionsMatch
      <3>2. trades[t].remaining # 0
        BY <3>1 DEF IInv, LedgerBalances
      <3>3. trades[t] \in TradeRow
        <4>1. TypeOK BY DEF IInv
        <4> QED BY <3>1, <4>1, Tables
      <3>4. trades[t].remaining \in Nat
        BY <3>3, ConstantsOK DEF TradeRow, Qty
      <3> QED BY <3>1, <3>2, <3>4
    <2>3. \A t \in DOMAIN sold : sold[t] = positions[t].remaining
      OBVIOUS
    <2> QED BY <2>1, <2>2, <2>3
  <1>4. faults' \in Nat
    <2>0. TypeOK
      BY DEF IInv
    <2>1. kept \subseteq 1..Len(trades) /\ Len(trades) \in Nat
      <3>1. /\ TradeIds = 1..Len(trades) /\ Len(trades) \in Nat
            /\ \A t \in DOMAIN positions : t \in TradeIds
        BY <2>0, Tables
      <3>2. kept \subseteq DOMAIN positions
        BY <1>1 DEF PositionsOn
      <3> QED BY <3>1, <3>2
    <2>2. IsFiniteSet(kept)
      <3>1. IsFiniteSet(1..Len(trades))
        BY <2>1, FS_Interval
      <3> QED BY <2>1, <3>1, FS_Subset
    <2>3. Cardinality(kept) \in Nat
      BY <2>2, FS_CardinalityType
    <2>4. faults \in Nat /\ faults' = faults + Cardinality(kept)
      BY <1>1, <2>0 DEF TransactionsFail, TypeOK
    <2> QED BY <2>3, <2>4
  <1>5. /\ signals' \in [Signals -> Outcomes]
        /\ pending_entries' \subseteq Signals
        /\ \A s \in Signals : signals'[s] = "filled" <=> signals[s] = "filled"
        /\ \A s \in pending_entries' : signals'[s] \in {"queued", "expired"}
    <2>1. /\ signals \in [Signals -> Outcomes] /\ pending_entries \subseteq Signals
          /\ \A s \in pending_entries : signals[s] \in {"queued", "expired"}
      BY DEF IInv, TypeOK, OneTradePerFill
    <2> QED BY <1>2, <2>1 DEF PendingOn, Outcomes, Refusals
  <1>6. CommitExits(sold)
    BY <1>1
  <1> HIDE DEF sold
  <1> QED BY <1>2, <1>3, <1>4, <1>5, <1>6, ExitsKeep

LEMMA CrashKeeps ==
    ASSUME IInv, Crash
    PROVE  IInv'
  <1>1. /\ UNCHANGED <<signals, trades, paper_fills>>
        /\ up' = FALSE /\ loops' = {} /\ pending_entries' = {}
        /\ DOMAIN positions' = {} /\ DOMAIN pending_exits' = {}
        /\ positions' \in [DOMAIN positions' -> Position]
        /\ pending_exits' \in [DOMAIN pending_exits' -> Reasons]
    BY DEF Crash, EmptyMap, ledger
  <1>2. TypeOK'
    <2>1. /\ TypeOK /\ TradeIds' = TradeIds
          /\ DOMAIN positions' \subseteq TradeIds
          /\ DOMAIN pending_exits' \subseteq TradeIds
      BY <1>1 DEF IInv, TradeIds
    <2>2. /\ bookOk' \in [Markets -> BOOLEAN] /\ kill' \in BOOLEAN
          /\ UNCHANGED <<resolved, faults, loopFaults>>
      BY DEF Crash
    <2>3. crashes' \in Nat
      <3>1. crashes' = crashes + 1 /\ crashes \in Nat
        BY <2>1 DEF Crash, TypeOK
      <3> QED BY <3>1
    <2>4. pending_entries' \subseteq Signals /\ loops' \subseteq Loops
          /\ up' \in BOOLEAN
      BY <1>1
    <2> QED BY <1>1, <2>1, <2>2, <2>3, <2>4 DEF TypeOK
  <1>3. LedgerBalances' /\ OneTradePerFill'
    BY <1>1 DEF IInv, LedgerBalances, OneTradePerFill, TradeIds
  <1>4. PositionsMatch' /\ OrdersAreOwned'
    BY <1>1 DEF PositionsMatch, OrdersAreOwned
  <1> QED BY <1>2, <1>3, <1>4 DEF IInv

LEMMA RestartKeeps ==
    ASSUME IInv, Restart
    PROVE  IInv'
  <1>1. /\ UNCHANGED <<signals, trades, paper_fills, pending_entries, pending_exits>>
        /\ up' = TRUE /\ loops' = Loops /\ TradeIds' = TradeIds
        /\ DOMAIN positions' = Restorable
        /\ \A t \in Restorable :
             positions'[t] = [signal |-> trades[t].signal,
                              remaining |-> trades[t].remaining,
                              exit_qty |-> trades[t].exit_qty]
    BY DEF Restart, ledger, TradeIds
  <1>2. \A t \in TradeIds : trades[t] \in TradeRow
    <2>1. TypeOK BY DEF IInv
    <2> QED BY <2>1, Tables
  <1>3. /\ positions' \in [DOMAIN positions' -> Position]
        /\ DOMAIN positions' \subseteq TradeIds
    <2>1. ASSUME NEW t \in Restorable
          PROVE  positions'[t] \in Position
      <3>1. trades[t] \in TradeRow
        BY <1>2 DEF Restorable
      <3>2. positions'[t] = [signal |-> trades[t].signal,
                             remaining |-> trades[t].remaining,
                             exit_qty |-> trades[t].exit_qty]
        BY <1>1
      <3> QED BY <3>1, <3>2 DEF Position, TradeRow
    <2> QED BY <1>1, <2>1 DEF Restart, Restorable
  <1>4. TypeOK'
    BY <1>1, <1>3 DEF Restart, IInv, TypeOK
  <1>5. LedgerBalances' /\ OneTradePerFill'
    BY <1>1 DEF IInv, LedgerBalances, OneTradePerFill
  <1>6. Restorable = {t \in TradeIds : trades[t].status = "open"}
    <2>1. ASSUME NEW t \in TradeIds, trades[t].status = "open"
          PROVE  trades[t].remaining > 0
      <3>1. trades[t].remaining # 0
        BY <2>1 DEF IInv, LedgerBalances
      <3>2. trades[t].remaining \in Nat
        BY <1>2, ConstantsOK DEF TradeRow, Qty
      <3> QED BY <3>1, <3>2
    <2> QED BY <2>1 DEF Restorable
  <1>7. PositionsMatch'
    <2>1. DOMAIN positions' = {t \in TradeIds' : trades'[t].status = "open"}
      BY <1>1, <1>6
    <2>2. ASSUME NEW t \in DOMAIN positions'
          PROVE  /\ positions'[t].signal = trades'[t].signal
                 /\ positions'[t].remaining = trades'[t].remaining
                 /\ positions'[t].exit_qty = trades'[t].exit_qty
      <3>1. positions'[t] = [signal |-> trades[t].signal,
                             remaining |-> trades[t].remaining,
                             exit_qty |-> trades[t].exit_qty]
        BY <1>1
      <3> QED BY <1>1, <3>1
    <2> QED BY <2>1, <2>2 DEF PositionsMatch
  <1>8. OrdersAreOwned'
    <2>1. ~up /\ DOMAIN pending_exits = {}
      BY DEF Restart, IInv, OrdersAreOwned
    <2> QED BY <1>1, <2>1 DEF OrdersAreOwned
  <1> QED BY <1>4, <1>5, <1>7, <1>8 DEF IInv

LEMMA NextKeeps == IInv /\ [Next]_vars => IInv'
  <1> SUFFICES ASSUME IInv, [Next]_vars PROVE IInv'
    OBVIOUS
  <1>0. /\ TypeOK /\ OrdersAreOwned
        /\ faults \in Nat /\ loopFaults \in Nat /\ crashes \in Nat
        /\ loops \subseteq Loops /\ resolved \subseteq Markets
        /\ bookOk \in [Markets -> BOOLEAN] /\ kill \in BOOLEAN
        /\ ~up => loops = {}
    BY DEF IInv, TypeOK, OrdersAreOwned
  <1>1. ASSUME NEW s \in Signals, QueueEnter(s) \/ QueueInterrupted(s)
        PROVE  IInv'
    BY <1>1, QueueKeeps
  <1>2. ASSUME NEW s \in Signals, RefuseEntry(s) PROVE IInv'
    BY <1>2, RefuseKeeps
  <1>3. ASSUME NEW s \in Signals, NEW q \in 1..MaxSize, FillEntry(s, q) PROVE IInv'
    BY <1>3, FillKeeps
  <1>4. ASSUME NEW s \in Signals, EntryWriteFails(s) PROVE IInv'
    <2>1. /\ UNCHANGED <<ledger, desk, up>> /\ faults' \in Nat
          /\ UNCHANGED <<bookOk, kill, loops, resolved, loopFaults, crashes>>
      BY <1>0, <1>4 DEF EntryWriteFails, TransactionsFail
    <2> QED BY <1>0, <2>1, BystanderKeeps
  <1>5. ASSUME NEW t, NEW q, ExecuteExit(t, q) PROVE IInv'
    BY <1>5, ExecuteExitKeeps
  <1>6. ASSUME NEW t, ExitWriteFails(t) PROVE IInv'
    <2>1. /\ UNCHANGED <<ledger, desk, up>> /\ faults' \in Nat
          /\ UNCHANGED <<bookOk, kill, loops, resolved, loopFaults, crashes>>
      BY <1>0, <1>6 DEF ExitWriteFails, TransactionsFail
    <2> QED BY <1>0, <2>1, BystanderKeeps
  <1>7. ASSUME NEW m \in Markets, NEW snapshot \in BOOLEAN, BookFrame(m, snapshot)
        PROVE  IInv'
    <2>0. PICK hit \in SUBSET PositionsOn(m) :
             \E trigger \in [hit -> Reasons] : QueueExits(trigger)
      BY <1>7 DEF BookFrame
    <2>1. PICK trigger \in [hit -> Reasons] : QueueExits(trigger)
      BY <2>0
    <2>2. /\ DOMAIN trigger \subseteq DOMAIN positions
          /\ \A t \in DOMAIN trigger : trigger[t] \in Reasons
      BY <2>1 DEF PositionsOn
    <2>3. bookOk' \in [Markets -> BOOLEAN]
      BY <1>0, <1>7 DEF BookFrame
    <2>4. UNCHANGED <<ledger, positions, pending_entries, kill, up, loops, resolved,
                      faults, loopFaults, crashes>>
      BY <1>7 DEF BookFrame
    <2> QED BY <2>1, <2>2, <2>3, <2>4, TriggersKeep
  <1>8. ASSUME NEW m \in Markets, SettleMarket(m) PROVE IInv'
    BY <1>8, SettleKeeps
  <1>9. ASSUME NEW m \in Markets, SettleAborts(m) PROVE IInv'
    BY <1>9, SettleAbortsKeeps
  <1>10. ASSUME NEW m \in Markets, ResultPublished(m) PROVE IInv'
    <2>1. /\ UNCHANGED <<ledger, desk, up>> /\ resolved' \subseteq Markets
          /\ UNCHANGED <<bookOk, kill, loops, faults, loopFaults, crashes>>
      BY <1>0, <1>10 DEF ResultPublished
    <2> QED BY <1>0, <2>1, BystanderKeeps
  <1>11. ASSUME NEW ms, BookGap(ms) PROVE IInv'
    <2>1. /\ UNCHANGED <<ledger, desk, up>>
          /\ UNCHANGED <<kill, loops, resolved, faults, loopFaults, crashes>>
      BY <1>11 DEF BookGap
    <2>2. bookOk' \in [Markets -> BOOLEAN]
      BY <1>0, <1>11 DEF BookGap
    <2> QED BY <1>0, <2>1, <2>2, BystanderKeeps
  <1>12. ASSUME NEW aged \in SUBSET DOMAIN positions, CheckTimeouts(aged) PROVE IInv'
    <2> DEFINE trigger == [t \in aged |-> IF positions[t].signal \in Sleeves
                                            THEN "sleeve_timeout" ELSE "timeout"]
    <2>1. /\ DOMAIN trigger \subseteq DOMAIN positions
          /\ \A t \in DOMAIN trigger : trigger[t] \in Reasons
      BY DEF Reasons
    <2>2. /\ QueueExits(trigger) /\ bookOk' \in [Markets -> BOOLEAN]
          /\ UNCHANGED <<ledger, positions, pending_entries, kill, up, loops,
                         resolved, faults, loopFaults, crashes>>
      BY <1>0, <1>12 DEF CheckTimeouts
    <2> HIDE DEF trigger
    <2> QED BY <2>1, <2>2, TriggersKeep
  <1>13. ASSUME FlattenAll PROVE IInv'
    <2> DEFINE trigger == [t \in DOMAIN positions |-> "flatten"]
    <2>1. /\ DOMAIN trigger \subseteq DOMAIN positions
          /\ \A t \in DOMAIN trigger : trigger[t] \in Reasons
      BY DEF Reasons
    <2>2. /\ QueueExits(trigger) /\ bookOk' \in [Markets -> BOOLEAN]
          /\ UNCHANGED <<ledger, positions, pending_entries, kill, up, loops,
                         resolved, faults, loopFaults, crashes>>
      BY <1>0, <1>13 DEF FlattenAll
    <2> HIDE DEF trigger
    <2> QED BY <2>1, <2>2, TriggersKeep
  <1>14. ASSUME NEW on \in BOOLEAN, SetKill(on) PROVE IInv'
    <2>1. /\ UNCHANGED <<ledger, desk, up>> /\ kill' \in BOOLEAN
          /\ UNCHANGED <<bookOk, loops, resolved, faults, loopFaults, crashes>>
      BY <1>14 DEF SetKill
    <2> QED BY <1>0, <2>1, BystanderKeeps
  <1>15. ASSUME NEW loop \in Loops, LoopDies(loop) PROVE IInv'
    <2>1. /\ UNCHANGED <<ledger, desk, up>> /\ up
          /\ loops' \subseteq Loops /\ loopFaults' \in Nat
          /\ UNCHANGED <<bookOk, kill, resolved, faults, crashes>>
      BY <1>0, <1>15 DEF LoopDies
    <2> QED BY <1>0, <2>1, BystanderKeeps
  <1>16. ASSUME Crash PROVE IInv'
    BY <1>16, CrashKeeps
  <1>17. ASSUME Restart PROVE IInv'
    BY <1>17, RestartKeeps
  <1>18. CASE UNCHANGED vars
    <2>1. /\ UNCHANGED <<ledger, desk, up>>
          /\ UNCHANGED <<bookOk, kill, loops, resolved, faults, loopFaults, crashes>>
      BY <1>18 DEF vars, ledger, desk
    <2> QED BY <1>0, <2>1, BystanderKeeps
  <1> QED BY <1>1, <1>2, <1>3, <1>4, <1>5, <1>6, <1>7, <1>8, <1>9, <1>10, <1>11,
             <1>12, <1>13, <1>14, <1>15, <1>16, <1>17, <1>18 DEF Next

-----------------------------------------------------------------------------
(***************************************************************************)
(* Theorems                                                                *)
(***************************************************************************)

\* The desk and the ledger satisfy the inductive invariant in every reachable
\* state, whatever fails and however often the process stops.
THEOREM Invariance == Spec => []IInv
  BY InitIInv, NextKeeps, PTL DEF Spec

\* Every variable keeps its type, and rows and fill sums stay paired.
THEOREM TypeCorrect == Spec => []TypeOK
  <1>1. IInv => TypeOK
    BY DEF IInv
  <1> QED BY Invariance, <1>1, PTL

\* Quantities, fills, progress columns and status of every trade agree.
THEOREM LedgerAlwaysBalances == Spec => []LedgerBalances
  <1>1. IInv => LedgerBalances
    BY DEF IInv
  <1> QED BY Invariance, <1>1, PTL

\* A running process owns exactly the open trades, with their progress.
THEOREM NoTradeIsOrphaned == Spec => []DeskOwnsOpenTrades
  <1>1. IInv => DeskOwnsOpenTrades
    BY DEF IInv, DeskOwnsOpenTrades
  <1> QED BY Invariance, <1>1, PTL

\* A filled signal has exactly one trade and no order that could open another.
THEOREM NoDoubleFill == Spec => []OneTradePerFill
  <1>1. IInv => OneTradePerFill
    BY DEF IInv
  <1> QED BY Invariance, <1>1, PTL

-----------------------------------------------------------------------------
(***************************************************************************)
(* Two facts about the steps of PaperDesk: the durable part implements     *)
(* TradeLedger, and an exit order is never lost or weakened.               *)
(*                                                                         *)
(* The refinement needs the invariant on both sides of a step.  A row is   *)
(* rewritten from the desk's copy, so that it only ever pays out follows   *)
(* from PositionsMatch before the step; that it closes with its last       *)
(* contract follows from LedgerBalances after it; and that a trade opens   *)
(* with a fill and with nothing else follows from OneTradePerFill.         *)
(***************************************************************************)

\* The abstract row of a trade, and the abstract table.
Row(t) == [signal |-> trades[t].signal, size |-> trades[t].size,
           sold |-> trades[t].exit_qty, closed |-> trades[t].status = "closed"]
Rows == [t \in TradeIds |-> Row(t)]

\* What TradeLedger allows a row to do, said of the concrete columns.
OnlyPaysOut(t) ==
    /\ trades'[t].signal = trades[t].signal
    /\ trades'[t].size = trades[t].size
    /\ trades'[t].exit_qty \in trades[t].exit_qty..trades[t].size

-----------------------------------------------------------------------------
(***************************************************************************)
(* The refinement mapping                                                  *)
(***************************************************************************)

\* A function from 1..n has length n.
LEMMA TableLength ==
    ASSUME NEW n \in Nat, NEW f, f = [t \in 1..n |-> f[t]]
    PROVE  Len(f) = n
  <1> DEFINE S == {f[t] : t \in 1..n}
  <1>1. f \in [1..n -> S]
    OBVIOUS
  <1> HIDE DEF S
  <1> QED BY <1>1, FunctionIsSeq

\* The abstract table is a sequence with one row for every trade.
LEMMA RowsAreTrades ==
    ASSUME TypeOK
    PROVE  /\ Len(trades) \in Nat /\ TradeIds = 1..Len(trades)
           /\ Len(Rows) = Len(trades) /\ DOMAIN Rows = TradeIds
           /\ \A t \in TradeIds : Rows[t] = Row(t)
  <1>1. Len(trades) \in Nat /\ TradeIds = 1..Len(trades)
    BY Tables
  <1>2. DOMAIN Rows = TradeIds /\ \A t \in TradeIds : Rows[t] = Row(t)
    BY DEF Rows
  <1>3. Rows = [t \in 1..Len(trades) |-> Rows[t]]
    BY <1>1 DEF Rows
  <1> QED BY <1>1, <1>2, <1>3, TableLength

\* The same after a step.
LEMMA RowsStayTrades ==
    ASSUME TypeOK'
    PROVE  /\ Len(trades') \in Nat /\ TradeIds' = 1..Len(trades')
           /\ Len(Rows') = Len(trades') /\ DOMAIN Rows' = TradeIds'
           /\ \A t \in TradeIds' :
                Rows'[t] = [signal |-> trades'[t].signal, size |-> trades'[t].size,
                            sold |-> trades'[t].exit_qty,
                            closed |-> trades'[t].status = "closed"]
  <1>1. Len(trades') \in Nat /\ TradeIds' = 1..Len(trades')
    BY LenProperties DEF TypeOK, TradeIds
  <1>2. Rows' = [t \in TradeIds' |->
                  [signal |-> trades'[t].signal, size |-> trades'[t].size,
                   sold |-> trades'[t].exit_qty,
                   closed |-> trades'[t].status = "closed"]]
    BY DEF Rows, Row
  <1>3. Rows' = [t \in 1..Len(trades') |-> Rows'[t]]
    BY <1>1, <1>2
  <1> QED BY <1>1, <1>2, <1>3, TableLength

\* A row that pays out, in a ledger that balances afterwards, takes a step of
\* an abstract row.
LEMMA RowStep ==
    ASSUME TypeOK, TypeOK', LedgerBalances', NEW t \in TradeIds,
           t \in TradeIds', OnlyPaysOut(t)
    PROVE  Ledger!TradeStep(t)
  <1>1. Rows[t] = Row(t)
    BY RowsAreTrades
  <1>2. Rows'[t] = [signal |-> trades'[t].signal, size |-> trades'[t].size,
                    sold |-> trades'[t].exit_qty,
                    closed |-> trades'[t].status = "closed"]
    BY RowsStayTrades
  <1>3. trades'[t].status = "closed" <=> trades'[t].exit_qty = trades'[t].size
    <2>1. /\ trades'[t].size = trades'[t].remaining + trades'[t].exit_qty
          /\ trades'[t].status = "closed" <=> trades'[t].remaining = 0
      BY DEF LedgerBalances
    <2>2. trades'[t] \in TradeRow
      BY DEF TypeOK, TradeIds
    <2>3. /\ trades'[t].remaining \in Nat /\ trades'[t].exit_qty \in Nat
          /\ trades'[t].size \in Nat
      BY <2>2, ConstantsOK DEF TradeRow, Qty
    <2>4. trades'[t].remaining = 0 <=> trades'[t].exit_qty = trades'[t].size
      BY <2>1, <2>3
    <2> QED BY <2>1, <2>4
  <1> QED BY <1>1, <1>2, <1>3 DEF Ledger!TradeStep, Rows, Row, OnlyPaysOut

\* A step of the desk that leaves the ledger alone stutters.
LEMMA StutterMaps ==
    ASSUME UNCHANGED <<signals, trades>>
    PROVE  UNCHANGED Ledger!ledger
  BY DEF Ledger!ledger, TradeIds

\* A step that opens no trade and fills no signal is a step of the abstract
\* ledger when each signal and each row moves as allowed.
LEMMA NoFillMaps ==
    ASSUME IInv, IInv',
           Len(trades') = Len(trades),
           \A s \in Signals : signals'[s] = "filled" <=> signals[s] = "filled",
           \A s \in Signals : Ledger!SignalStep(s),
           \A t \in TradeIds : OnlyPaysOut(t)
    PROVE  Ledger!Next
  <1>1. TypeOK /\ TypeOK' /\ LedgerBalances'
    BY DEF IInv
  <1>2. Len(Rows) = Len(trades) /\ DOMAIN Rows = TradeIds /\ Len(trades) \in Nat
    BY <1>1, RowsAreTrades
  <1>3. Len(Rows') = Len(trades')
    BY <1>1, RowsStayTrades
  <1>4. TradeIds' = TradeIds
    BY <1>1 DEF TypeOK, TradeIds
  <1>5. \A t \in TradeIds : Ledger!TradeStep(t)
    BY <1>1, <1>4, RowStep
  <1>6. Ledger!OpenStep
    <2>1. Len(Rows') = Len(Rows) /\ Len(Rows) \in Nat
      BY <1>2, <1>3
    <2>2. Len(Rows') \in {Len(Rows), Len(Rows) + 1} /\ Len(Rows') # Len(Rows) + 1
      BY <2>1
    <2>3. \A s \in Signals : ~(signals[s] # "filled" /\ signals'[s] = "filled")
      OBVIOUS
    <2> QED BY <2>2, <2>3, Zenon DEF Ledger!OpenStep, Rows, Row
  <1> QED BY <1>2, <1>5, <1>6 DEF Ledger!Next, Rows, Row

-----------------------------------------------------------------------------
(***************************************************************************)
(* One lemma per action that writes the ledger                             *)
(***************************************************************************)

\* An unchanged row is one that pays out nothing.
LEMMA IdleRow ==
    ASSUME IInv, trades' = trades, NEW t \in TradeIds
    PROVE  OnlyPaysOut(t)
  <1>1. trades[t] \in TradeRow
    <2>1. TypeOK
      BY DEF IInv
    <2> QED BY <2>1, Tables
  <1>2. /\ trades[t].size = trades[t].remaining + trades[t].exit_qty
        /\ trades[t].remaining \in Nat /\ trades[t].exit_qty \in Nat
    BY <1>1, ConstantsOK DEF IInv, LedgerBalances, TradeRow, Qty
  <1>3. trades[t].exit_qty \in trades[t].exit_qty..trades[t].size
    BY <1>2
  <1> QED BY <1>3 DEF OnlyPaysOut

\* A step that writes outcomes only.
LEMMA OutcomesMap ==
    ASSUME IInv, IInv', trades' = trades,
           \A s \in Signals : signals'[s] = "filled" <=> signals[s] = "filled",
           \A s \in Signals : Ledger!SignalStep(s)
    PROVE  Ledger!Next
  <1>1. \A t \in TradeIds : OnlyPaysOut(t)
    BY IdleRow
  <1> QED BY <1>1, NoFillMaps

LEMMA QueueMaps ==
    ASSUME IInv, IInv', NEW s \in Signals, QueueEnter(s) \/ QueueInterrupted(s)
    PROVE  Ledger!Next
  <1>1. /\ signals[s] = "none" /\ trades' = trades
        /\ signals' = [signals EXCEPT ![s] = "queued"]
        /\ signals \in [Signals -> Outcomes]
    BY DEF QueueEnter, QueueInterrupted, IInv, TypeOK
  <1>2. ASSUME NEW u \in Signals
        PROVE  /\ signals'[u] = "filled" <=> signals[u] = "filled"
               /\ Ledger!SignalStep(u)
    BY <1>1 DEF Ledger!SignalStep
  <1> QED BY <1>1, <1>2, OutcomesMap

LEMMA RefuseMaps ==
    ASSUME IInv, IInv', NEW s \in Signals, RefuseEntry(s)
    PROVE  Ledger!Next
  <1>1. PICK outcome \in EntryRefusals(s) :
           signals' = [signals EXCEPT ![s] = outcome]
    BY DEF RefuseEntry
  <1>2. /\ outcome \in {"killed", "no_book", "rejected"} /\ trades' = trades
        /\ signals[s] \in {"queued", "expired"}
        /\ signals \in [Signals -> Outcomes]
    BY <1>1 DEF EntryRefusals, RefuseEntry, IInv, TypeOK, OneTradePerFill
  <1>3. ASSUME NEW u \in Signals
        PROVE  /\ signals'[u] = "filled" <=> signals[u] = "filled"
               /\ Ledger!SignalStep(u)
    BY <1>1, <1>2 DEF Ledger!SignalStep
  <1> QED BY <1>2, <1>3, OutcomesMap

\* Both settlements write 'expired' over pending signals and nothing else.
LEMMA ExpiryStep ==
    ASSUME IInv, NEW late \in SUBSET pending_entries,
           signals' = [s \in Signals |-> IF s \in late THEN "expired"
                                                        ELSE signals[s]],
           NEW s \in Signals
    PROVE  /\ signals'[s] = "filled" <=> signals[s] = "filled"
           /\ Ledger!SignalStep(s)
  <1>1. \A u \in late : signals[u] \in {"queued", "expired"}
    BY DEF IInv, OneTradePerFill
  <1> QED BY <1>1 DEF Ledger!SignalStep

LEMMA SettleAbortsMaps ==
    ASSUME IInv, IInv', NEW m \in Markets, SettleAborts(m)
    PROVE  Ledger!Next
  <1>1. PICK late \in SUBSET PendingOn(m) :
           signals' = [s \in Signals |-> IF s \in late THEN "expired" ELSE signals[s]]
    BY DEF SettleAborts
  <1>2. late \in SUBSET pending_entries /\ trades' = trades
    BY <1>1 DEF SettleAborts, PendingOn
  <1> QED BY <1>1, <1>2, ExpiryStep, OutcomesMap

\* The rows record_paper_exit writes from the desk's positions only pay out.
LEMMA CommitExitsSells ==
    ASSUME IInv, IInv', up, up', NEW sold,
           DOMAIN sold \subseteq DOMAIN positions,
           \A t \in DOMAIN sold : sold[t] \in 1..positions[t].remaining,
           CommitExits(sold)
    PROVE  /\ Len(trades') = Len(trades)
           /\ \A t \in TradeIds : OnlyPaysOut(t)
  <1>1. Len(trades') = Len(trades)
    BY CommitExitsKeeps
  <1>2. ASSUME NEW t \in TradeIds, t \notin DOMAIN sold
        PROVE  OnlyPaysOut(t)
    <2>1. trades'[t] = trades[t]
      BY <1>2 DEF CommitExits, TradeIds
    <2>2. trades[t].exit_qty \in trades[t].exit_qty..trades[t].size
      <3>1. trades[t] \in TradeRow
        <4>1. TypeOK
          BY DEF IInv
        <4> QED BY <4>1, Tables
      <3>2. trades[t].size = trades[t].remaining + trades[t].exit_qty
        BY DEF IInv, LedgerBalances
      <3> QED BY <3>1, <3>2, ConstantsOK DEF TradeRow, Qty
    <2> QED BY <2>1, <2>2 DEF OnlyPaysOut
  <1>3. ASSUME NEW t \in TradeIds, t \in DOMAIN sold
        PROVE  OnlyPaysOut(t)
    <2>1. trades[t] \in TradeRow
      <3>1. TypeOK
        BY DEF IInv
      <3> QED BY <3>1, Tables
    <2>2. /\ trades'[t].signal = trades[t].signal
          /\ trades'[t].size = trades[t].size
          /\ trades'[t].exit_qty = positions[t].exit_qty + sold[t]
      BY <1>3, <2>1 DEF CommitExits, TradeIds, TradeRow
    <2>3. /\ positions[t].remaining = trades[t].remaining
          /\ positions[t].exit_qty = trades[t].exit_qty
          /\ sold[t] \in 1..positions[t].remaining
      BY <1>3 DEF IInv, PositionsMatch
    <2>4. trades[t].size = trades[t].remaining + trades[t].exit_qty
      BY DEF IInv, LedgerBalances
    <2>5. /\ trades[t].remaining \in Nat /\ trades[t].exit_qty \in Nat
      BY <2>1, ConstantsOK DEF TradeRow, Qty
    <2>6. trades[t].exit_qty + sold[t] \in trades[t].exit_qty..trades[t].size
      BY <2>3, <2>4, <2>5
    <2> QED BY <2>2, <2>3, <2>6 DEF OnlyPaysOut
  <1> QED BY <1>1, <1>2, <1>3

LEMMA ExecuteExitMaps ==
    ASSUME IInv, IInv', NEW t, NEW q, ExecuteExit(t, q)
    PROVE  Ledger!Next
  <1> DEFINE sold == [u \in {t} |-> q]
  <1>1. t \in DOMAIN positions
    BY DEF ExecuteExit, IInv, OrdersAreOwned
  <1>2. /\ up /\ up' /\ CommitExits(sold) /\ q \in 1..positions[t].remaining
        /\ signals' = signals
    BY DEF ExecuteExit
  <1>3. /\ DOMAIN sold \subseteq DOMAIN positions
        /\ \A u \in DOMAIN sold : sold[u] \in 1..positions[u].remaining
    BY <1>1, <1>2
  <1> HIDE DEF sold
  <1>4. /\ Len(trades') = Len(trades)
        /\ \A u \in TradeIds : OnlyPaysOut(u)
    BY <1>2, <1>3, CommitExitsSells
  <1>5. \A s \in Signals : Ledger!SignalStep(s)
    BY <1>2 DEF Ledger!SignalStep
  <1> QED BY <1>2, <1>4, <1>5, NoFillMaps

LEMMA SettleMaps ==
    ASSUME IInv, IInv', NEW m \in Markets, SettleMarket(m)
    PROVE  Ledger!Next
  <1>1. PICK kept \in SUBSET PositionsOn(m) :
           CommitExits([t \in PositionsOn(m) \ kept |-> positions[t].remaining])
    BY DEF SettleMarket
  <1> DEFINE sold == [t \in PositionsOn(m) \ kept |-> positions[t].remaining]
  <1>2. /\ up /\ up'
        /\ signals' = [s \in Signals |-> IF s \in PendingOn(m) THEN "expired"
                                                            ELSE signals[s]]
        /\ PendingOn(m) \in SUBSET pending_entries
    BY DEF SettleMarket, PendingOn
  <1>3. ASSUME NEW t \in DOMAIN positions
        PROVE  positions[t].remaining \in 1..positions[t].remaining
    <2>1. /\ t \in TradeIds /\ trades[t].status = "open"
          /\ positions[t].remaining = trades[t].remaining
      BY <1>2 DEF IInv, PositionsMatch
    <2>2. trades[t].remaining # 0
      BY <2>1 DEF IInv, LedgerBalances
    <2>3. trades[t] \in TradeRow
      <3>1. TypeOK
        BY DEF IInv
      <3> QED BY <2>1, <3>1, Tables
    <2> QED BY <2>1, <2>2, <2>3, ConstantsOK DEF TradeRow, Qty
  <1>4. /\ DOMAIN sold \subseteq DOMAIN positions
        /\ \A t \in DOMAIN sold : sold[t] \in 1..positions[t].remaining
    <2>1. DOMAIN sold \subseteq DOMAIN positions
      BY DEF PositionsOn
    <2>2. \A t \in DOMAIN sold : sold[t] = positions[t].remaining
      OBVIOUS
    <2> QED BY <1>3, <2>1, <2>2
  <1>5. CommitExits(sold)
    BY <1>1
  <1> HIDE DEF sold
  <1>6. /\ Len(trades') = Len(trades)
        /\ \A t \in TradeIds : OnlyPaysOut(t)
    BY <1>2, <1>4, <1>5, CommitExitsSells
  <1>7. /\ \A s \in Signals : signals'[s] = "filled" <=> signals[s] = "filled"
        /\ \A s \in Signals : Ledger!SignalStep(s)
    BY <1>2, ExpiryStep
  <1> QED BY <1>6, <1>7, NoFillMaps

\* A fill is the one step that opens a trade, and it opens it whole.
LEMMA FillMaps ==
    ASSUME IInv, IInv', NEW s \in Signals, NEW q \in 1..MaxSize, FillEntry(s, q)
    PROVE  Ledger!Next
  <1> DEFINE tid == Len(trades) + 1
             row == [signal |-> s, status |-> "open", size |-> q,
                     remaining |-> q, exit_qty |-> 0]
  <1>1. /\ TypeOK /\ TypeOK' /\ LedgerBalances'
        /\ s \in pending_entries
        /\ trades' = Append(trades, row)
        /\ signals' = [signals EXCEPT ![s] = "filled"]
    BY DEF IInv, FillEntry
  <1>2. /\ Len(Rows) = Len(trades) /\ DOMAIN Rows = TradeIds
        /\ Len(trades) \in Nat /\ TradeIds = 1..Len(trades)
    BY <1>1, RowsAreTrades
  <1>3. /\ Len(trades') = tid /\ TradeIds' = 1..tid
        /\ trades'[tid] = row
        /\ \A t \in TradeIds : trades'[t] = trades[t]
    BY <1>1, <1>2 DEF TypeOK, TradeIds
  <1>4. /\ Len(Rows') = tid
        /\ Rows'[tid].signal = s /\ Rows'[tid].size = q /\ Rows'[tid].sold = 0
        /\ ~Rows'[tid].closed
    <2>1. tid \in TradeIds'
      BY <1>2, <1>3
    <2>2. /\ Len(Rows') = tid
          /\ Rows'[tid] = [signal |-> trades'[tid].signal, size |-> trades'[tid].size,
                           sold |-> trades'[tid].exit_qty,
                           closed |-> trades'[tid].status = "closed"]
      BY <1>1, <1>3, <2>1, RowsStayTrades
    <2>3. /\ trades'[tid].signal = s /\ trades'[tid].size = q
          /\ trades'[tid].exit_qty = 0 /\ trades'[tid].status # "closed"
      BY <1>3
    <2> HIDE DEF tid, row
    <2>4. /\ Rows'[tid].signal = s /\ Rows'[tid].size = q
          /\ Rows'[tid].sold = 0
      BY <2>2, <2>3
    <2>5. Rows'[tid].closed = (trades'[tid].status = "closed")
      BY <2>2
    <2> QED BY <2>2, <2>3, <2>4, <2>5
  <1>5. /\ signals \in [Signals -> Outcomes]
        /\ signals[s] \in {"queued", "expired"}
    BY <1>1 DEF IInv, TypeOK, OneTradePerFill
  <1>6. \A u \in Signals : Ledger!SignalStep(u)
    BY <1>1, <1>5 DEF Ledger!SignalStep
  <1>7. \A t \in TradeIds : Ledger!TradeStep(t)
    <2>1. ASSUME NEW t \in TradeIds
          PROVE  OnlyPaysOut(t)
      <3>1. trades[t] \in TradeRow
        BY <1>1, Tables
      <3>2. trades[t].size = trades[t].remaining + trades[t].exit_qty
        BY DEF IInv, LedgerBalances
      <3>3. trades[t].exit_qty \in trades[t].exit_qty..trades[t].size
        BY <3>1, <3>2, ConstantsOK DEF TradeRow, Qty
      <3> QED BY <1>3, <3>3 DEF OnlyPaysOut
    <2>2. \A t \in TradeIds : t \in TradeIds'
      BY <1>2, <1>3
    <2> QED BY <1>1, <2>1, <2>2, RowStep
  <1>8. \A u \in Signals :
           (signals[u] # "filled" /\ signals'[u] = "filled") <=> u = s
    BY <1>1, <1>5
  <1> HIDE DEF row
  <1>9. Ledger!OpenStep
    BY <1>2, <1>4, <1>8 DEF Ledger!OpenStep, Rows, Row
  <1> QED BY <1>2, <1>6, <1>7, <1>9 DEF Ledger!Next, Rows, Row

LEMMA InitMaps == Init => Ledger!Init
  <1> SUFFICES ASSUME Init PROVE Ledger!Init
    OBVIOUS
  <1>1. TradeIds = {}
    BY DEF Init, TradeIds
  <1>2. Rows = << >>
    BY <1>1 DEF Rows
  <1> QED BY <1>2 DEF Init, Ledger!Init, Rows, Row

\* Every step of the desk is a step of the abstract ledger or a stutter.
LEMMA StepMaps == IInv /\ IInv' /\ [Next]_vars => [Ledger!Next]_Ledger!ledger
  <1> SUFFICES ASSUME IInv, IInv', [Next]_vars
               PROVE  Ledger!Next \/ UNCHANGED Ledger!ledger
    OBVIOUS
  <1>1. ASSUME NEW s \in Signals, QueueEnter(s) \/ QueueInterrupted(s)
        PROVE  Ledger!Next
    BY <1>1, QueueMaps
  <1>2. ASSUME NEW s \in Signals, RefuseEntry(s) PROVE Ledger!Next
    BY <1>2, RefuseMaps
  <1>3. ASSUME NEW s \in Signals, NEW q \in 1..MaxSize, FillEntry(s, q)
        PROVE  Ledger!Next
    BY <1>3, FillMaps
  <1>4. ASSUME NEW t, NEW q, ExecuteExit(t, q) PROVE Ledger!Next
    BY <1>4, ExecuteExitMaps
  <1>5. ASSUME NEW m \in Markets, SettleMarket(m) PROVE Ledger!Next
    BY <1>5, SettleMaps
  <1>6. ASSUME NEW m \in Markets, SettleAborts(m) PROVE Ledger!Next
    BY <1>6, SettleAbortsMaps
  <1>7. ASSUME \/ \E s \in Signals : EntryWriteFails(s)
               \/ \E t \in TradeIds : ExitWriteFails(t)
               \/ \E m \in Markets : \/ \E snapshot \in BOOLEAN : BookFrame(m, snapshot)
                                      \/ ResultPublished(m)
               \/ \E ms \in SUBSET Markets \ {{}} : BookGap(ms)
               \/ \E aged \in SUBSET DOMAIN positions : CheckTimeouts(aged)
               \/ FlattenAll
               \/ \E on \in BOOLEAN : SetKill(on)
               \/ \E loop \in Loops : LoopDies(loop)
               \/ Crash
               \/ Restart
               \/ UNCHANGED vars
        PROVE  UNCHANGED Ledger!ledger
    <2>1. UNCHANGED <<signals, trades>>
      BY <1>7 DEF EntryWriteFails, ExitWriteFails, BookFrame, ResultPublished,
                  BookGap, CheckTimeouts, FlattenAll, SetKill, LoopDies, Crash,
                  Restart, vars, ledger
    <2> QED BY <2>1, StutterMaps
  <1> QED BY <1>1, <1>2, <1>3, <1>4, <1>5, <1>6, <1>7 DEF Next

-----------------------------------------------------------------------------
(***************************************************************************)
(* Exit orders                                                             *)
(***************************************************************************)

\* What ExitOrdersPersist asks of the order of one position.
Persists(t) ==
    /\ t \in DOMAIN pending_exits'
    /\ \/ pending_exits'[t] = pending_exits[t]
       \/ priority(pending_exits'[t]) > priority(pending_exits[t])

\* Triggers replace an order only by a more urgent one.
LEMMA TriggersPersist ==
    ASSUME NEW trigger, QueueExits(trigger), NEW t \in DOMAIN pending_exits
    PROVE  Persists(t)
  <1> DEFINE queued == {u \in DOMAIN trigger : Displaces(u, trigger[u])}
  <1>1. /\ t \in DOMAIN pending_exits'
        /\ pending_exits'[t] = IF t \in queued THEN trigger[t] ELSE pending_exits[t]
    BY DEF QueueExits
  <1>2. t \in queued => priority(pending_exits[t]) < priority(trigger[t])
    BY DEF Displaces
  <1> QED BY <1>1, <1>2 DEF Persists

\* A sale that leaves a position leaves its order.
LEMMA ExitsPersist ==
    ASSUME NEW sold, CommitExits(sold), NEW t \in DOMAIN pending_exits,
           t \in DOMAIN positions'
    PROVE  Persists(t)
  BY DEF CommitExits, Persists

\* No step drops or weakens the order of a position that stays.
LEMMA OrderSurvives ==
    IInv /\ [Next]_vars =>
      \A t \in DOMAIN pending_exits : (up' /\ t \in DOMAIN positions') => Persists(t)
  <1> SUFFICES ASSUME IInv, [Next]_vars, NEW t \in DOMAIN pending_exits,
                      up', t \in DOMAIN positions'
               PROVE  Persists(t)
    OBVIOUS
  <1>1. ASSUME NEW trigger, QueueExits(trigger) PROVE Persists(t)
    BY <1>1, TriggersPersist
  <1>2. ASSUME NEW sold, CommitExits(sold) PROVE Persists(t)
    BY <1>2, ExitsPersist
  <1>3. ASSUME \/ \E m \in Markets, snapshot \in BOOLEAN : BookFrame(m, snapshot)
               \/ \E aged \in SUBSET DOMAIN positions : CheckTimeouts(aged)
               \/ FlattenAll
        PROVE  Persists(t)
    BY <1>1, <1>3 DEF BookFrame, CheckTimeouts, FlattenAll
  <1>4. ASSUME \/ \E u, q : ExecuteExit(u, q)
               \/ \E m \in Markets : SettleMarket(m)
        PROVE  Persists(t)
    BY <1>2, <1>4 DEF ExecuteExit, SettleMarket
  <1>5. ASSUME Crash PROVE FALSE
    BY <1>5 DEF Crash
  <1>6. ASSUME Restart PROVE FALSE
    BY <1>6 DEF Restart, IInv, OrdersAreOwned
  <1>7. ASSUME UNCHANGED pending_exits PROVE Persists(t)
    BY <1>7 DEF Persists
  <1>8. ASSUME \/ \E s \in Signals :
                     \/ QueueEnter(s) \/ QueueInterrupted(s)
                     \/ RefuseEntry(s) \/ EntryWriteFails(s)
                     \/ \E q \in 1..MaxSize : FillEntry(s, q)
               \/ \E u \in TradeIds : ExitWriteFails(u)
               \/ \E m \in Markets : SettleAborts(m) \/ ResultPublished(m)
               \/ \E ms \in SUBSET Markets \ {{}} : BookGap(ms)
               \/ \E on \in BOOLEAN : SetKill(on)
               \/ \E loop \in Loops : LoopDies(loop)
               \/ UNCHANGED vars
        PROVE  UNCHANGED pending_exits
    BY <1>8 DEF QueueEnter, QueueInterrupted, RefuseEntry, EntryWriteFails,
                FillEntry, ExitWriteFails, SettleAborts, ResultPublished, BookGap,
                SetKill, LoopDies, vars, desk
  <1> QED BY <1>3, <1>4, <1>5, <1>6, <1>7, <1>8 DEF Next

-----------------------------------------------------------------------------
(***************************************************************************)
(* Theorems                                                                *)
(***************************************************************************)

\* The durable part of the desk implements the abstract ledger: a signal is
\* recorded once, a fill opens one whole trade, and a row only ever pays out.
THEOREM DeskImplementsLedger == Spec => ImplementsLedger
  BY InitMaps, StepMaps, Invariance, PTL DEF Spec, ImplementsLedger, Ledger!Spec

\* Until its position is gone or the process stops, an exit order is neither
\* lost nor replaced by one that is not more urgent.
THEOREM ExitOrdersSurvive == Spec => ExitOrdersPersist
  <1>1. IInv /\ [Next]_vars =>
          [\A t \in DOMAIN pending_exits :
             (up' /\ t \in DOMAIN positions') =>
                /\ t \in DOMAIN pending_exits'
                /\ \/ pending_exits'[t] = pending_exits[t]
                   \/ priority(pending_exits'[t]) > priority(pending_exits[t])]_vars
    BY OrderSurvives DEF Persists
  <1> QED BY <1>1, Invariance, PTL DEF Spec, ExitOrdersPersist

-----------------------------------------------------------------------------
(***************************************************************************)
(* The shadow book, for every set of prices, every cap and every bound     *)
(*                                                                         *)
(* The four parts of ShadowIInv are inductive together: that shadow depth  *)
(* never exceeds observed depth is what makes the depletion a snapshot     *)
(* takes off the new depth equal to what is missing, and the other two     *)
(* bound what is missing from both sides by history.                       *)
(***************************************************************************)

\* Every price a buy can reach survives the round trip through its ask price.
RoundTrips == \A p \in Inexact : p < CapFloor

ShadowIInv == ShadowTypeOK /\ ShadowFollowsLive /\ NoLiquidityReuse /\ OnlyCommitsDeplete

\* The clamp is a natural number that is zero or the difference.
LEMMA MinusFacts ==
    ASSUME NEW a \in Nat, NEW b \in Nat
    PROVE  /\ Minus(a, b) \in Nat
           /\ Minus(a, b) <= a
           /\ a >= b => Minus(a, b) = a - b
           /\ a < b => Minus(a, b) = 0
  BY DEF Minus

\* A snapshot keeps a level's books in balance.
LEMMA SnapshotLevel ==
    ASSUME NEW obs \in Nat, NEW shd \in Nat, NEW tak \in Nat, NEW shw \in Nat,
           NEW new \in Nat,
           shd <= obs, tak + shd <= shw, obs - shd <= tak
    PROVE  LET after == Minus(new, Minus(obs, shd))
           IN  /\ after <= new
               /\ tak + after <= shw + Minus(new, obs)
               /\ new - after <= tak
  BY DEF Minus

\* So does a delta in either direction.
LEMMA DeltaLevel ==
    ASSUME NEW obs \in Nat, NEW shd \in Nat, NEW tak \in Nat, NEW shw \in Nat,
           NEW n \in Nat,
           shd <= obs, tak + shd <= shw, obs - shd <= tak
    PROVE  /\ shd + n <= obs + n /\ tak + (shd + n) <= shw + n
           /\ (obs + n) - (shd + n) <= tak
           /\ Minus(shd, n) <= Minus(obs, n)
           /\ tak + Minus(shd, n) <= shw
           /\ Minus(obs, n) - Minus(shd, n) <= tak
  BY DEF Minus

\* Taking f of what a level offers moves it from shadow to taken.
LEMMA TakeLevel ==
    ASSUME NEW obs \in Nat, NEW shd \in Nat, NEW tak \in Nat, NEW shw \in Nat,
           NEW f \in Nat, f <= shd,
           shd <= obs, tak + shd <= shw, obs - shd <= tak
    PROVE  /\ Minus(shd, f) <= obs
           /\ (tak + f) + Minus(shd, f) <= shw
           /\ obs - Minus(shd, f) <= tak + f
  BY DEF Minus

LEMMA ShadowInitIInv == ShadowInit => ShadowIInv
  <1> SUFFICES ASSUME ShadowInit PROVE ShadowIInv
    OBVIOUS
  <1>1. Empty \in Book /\ \A p \in Prices : Empty[p] = 0
    BY DEF Empty, Book
  <1>2. ShadowTypeOK
    BY <1>1 DEF ShadowInit, ShadowTypeOK
  <1>3. ShadowFollowsLive
    <2>1. \A p \in Prices : shadow[p] = 0 /\ observed[p] = 0
      BY <1>1 DEF ShadowInit
    <2>2. \A p \in Prices : shadow[p] <= observed[p]
      <3> TAKE p \in Prices
      <3>1. shadow[p] = 0 /\ observed[p] = 0
        BY <2>1
      <3> QED BY <3>1, SMT
    <2>3. shadowOk = liveOk /\ (shadowOk => observed = live)
      BY DEF ShadowInit
    <2> QED BY <2>2, <2>3 DEF ShadowFollowsLive
  <1>4. NoLiquidityReuse /\ OnlyCommitsDeplete
    <2>1. \A p \in Prices : /\ taken[p] = 0 /\ shadow[p] = 0
                            /\ shown[p] = 0 /\ observed[p] = 0
      BY <1>1 DEF ShadowInit
    <2> QED BY <2>1 DEF NoLiquidityReuse, OnlyCommitsDeplete
  <1> QED BY <1>2, <1>3, <1>4 DEF ShadowIInv

LEMMA SnapshotKeeps ==
    ASSUME ShadowIInv, NEW book \in Book, Snapshot(book)
    PROVE  ShadowIInv'
  <1> USE DEF ShadowIInv, Book
  <1>1. \A p \in Prices : /\ Depletion[p] = Minus(observed[p], shadow[p])
                          /\ Depletion[p] \in Nat
    BY MinusFacts DEF ShadowTypeOK, Depletion
  <1>2. \A p \in Prices :
           /\ observed'[p] = book[p]
           /\ shadow'[p] = Minus(book[p], Minus(observed[p], shadow[p]))
           /\ shown'[p] = shown[p] + Minus(book[p], observed[p])
           /\ taken'[p] = taken[p]
    BY <1>1 DEF Snapshot
  <1>3. ShadowTypeOK'
    <2>1. /\ \A p \in Prices : Minus(book[p], Depletion[p]) \in Nat
          /\ \A p \in Prices : Minus(book[p], observed[p]) \in Nat
      BY <1>1, MinusFacts DEF ShadowTypeOK
    <2> QED BY <2>1 DEF ShadowTypeOK, Snapshot
  <1>4. ASSUME NEW p \in Prices
        PROVE  /\ shadow'[p] <= observed'[p]
               /\ taken'[p] + shadow'[p] <= shown'[p]
               /\ observed'[p] - shadow'[p] <= taken'[p]
    <2>1. /\ observed[p] \in Nat /\ shadow[p] \in Nat /\ taken[p] \in Nat
          /\ shown[p] \in Nat /\ book[p] \in Nat
          /\ shadow[p] <= observed[p]
          /\ taken[p] + shadow[p] <= shown[p]
          /\ observed[p] - shadow[p] <= taken[p]
      BY DEF ShadowTypeOK, ShadowFollowsLive, NoLiquidityReuse, OnlyCommitsDeplete
    <2> QED BY <2>1, <1>2, SnapshotLevel
  <1>5. shadowOk' = liveOk' /\ observed' = live'
    BY DEF Snapshot
  <1> QED BY <1>3, <1>4, <1>5
          DEF ShadowFollowsLive, NoLiquidityReuse, OnlyCommitsDeplete

LEMMA DeltaKeeps ==
    ASSUME ShadowIInv, NEW p \in Prices, NEW grows \in BOOLEAN, NEW n \in Nat, Delta(p, grows, n)
    PROVE  ShadowIInv'
  <1> USE DEF ShadowIInv, Book
  <1>1. \A side \in Book : /\ Changed(side, p, grows, n) \in Book
                           /\ \A q \in Prices : Changed(side, p, grows, n)[q] =
                                IF q # p THEN side[q]
                                ELSE IF grows THEN side[p] + n ELSE Minus(side[p], n)
    <2>1. SUFFICES ASSUME NEW side \in Book
                   PROVE  /\ Changed(side, p, grows, n) \in Book
                          /\ \A q \in Prices : Changed(side, p, grows, n)[q] =
                               IF q # p THEN side[q]
                               ELSE IF grows THEN side[p] + n ELSE Minus(side[p], n)
      OBVIOUS
    <2>2. side[p] \in Nat /\ Minus(side[p], n) \in Nat
      BY MinusFacts
    <2>3. (IF grows THEN side[p] + n ELSE Minus(side[p], n)) \in Nat
      BY <2>2
    <2> QED BY <2>3 DEF Changed
  <1>2. ShadowTypeOK'
    <2>1. CASE shadowOk
      <3>1. shown' \in Book
        BY <2>1 DEF Delta, ShadowTypeOK
      <3> QED BY <1>1, <2>1, <3>1 DEF Delta, ShadowTypeOK
    <2>2. CASE ~shadowOk
      BY <1>1, <2>2 DEF Delta, ShadowTypeOK
    <2> QED BY <2>1, <2>2
  <1>3. ASSUME NEW q \in Prices
        PROVE  /\ shadow'[q] <= observed'[q]
               /\ taken'[q] + shadow'[q] <= shown'[q]
               /\ observed'[q] - shadow'[q] <= taken'[q]
    <2>1. /\ observed[q] \in Nat /\ shadow[q] \in Nat /\ taken[q] \in Nat
          /\ shown[q] \in Nat
          /\ shadow[q] <= observed[q]
          /\ taken[q] + shadow[q] <= shown[q]
          /\ observed[q] - shadow[q] <= taken[q]
      BY DEF ShadowTypeOK, ShadowFollowsLive, NoLiquidityReuse, OnlyCommitsDeplete
    <2>2. CASE ~shadowOk \/ q # p
      <3>1. /\ observed'[q] = observed[q] /\ shadow'[q] = shadow[q]
            /\ taken'[q] = taken[q] /\ shown'[q] = shown[q]
        BY <1>1, <2>2 DEF Delta, ShadowTypeOK
      <3> QED BY <2>1, <3>1
    <2>3. CASE shadowOk /\ q = p /\ grows
      <3>1. /\ observed'[q] = observed[q] + n /\ shadow'[q] = shadow[q] + n
            /\ taken'[q] = taken[q]
        BY <1>1, <2>3 DEF Delta, ShadowTypeOK
      <3>2. shown'[q] = shown[q] + n
        BY <2>3 DEF Delta, ShadowTypeOK
      <3>3. /\ shadow[q] + n <= observed[q] + n
            /\ taken[q] + (shadow[q] + n) <= shown[q] + n
            /\ (observed[q] + n) - (shadow[q] + n) <= taken[q]
        BY <2>1, DeltaLevel
      <3> QED BY <3>1, <3>2, <3>3
    <2>4. CASE shadowOk /\ q = p /\ ~grows
      <3>1. /\ observed'[q] = Minus(observed[q], n)
            /\ shadow'[q] = Minus(shadow[q], n)
            /\ taken'[q] = taken[q] /\ shown'[q] = shown[q]
        BY <1>1, <2>4 DEF Delta, ShadowTypeOK
      <3>2. /\ Minus(shadow[q], n) <= Minus(observed[q], n)
            /\ taken[q] + Minus(shadow[q], n) <= shown[q]
            /\ Minus(observed[q], n) - Minus(shadow[q], n) <= taken[q]
        BY <2>1, DeltaLevel
      <3> QED BY <3>1, <3>2
    <2> QED BY <2>2, <2>3, <2>4
  <1>4. shadowOk' = liveOk' /\ (shadowOk' => observed' = live')
    BY DEF Delta, ShadowFollowsLive
  <1> QED BY <1>2, <1>3, <1>4
          DEF ShadowFollowsLive, NoLiquidityReuse, OnlyCommitsDeplete

\* A walk that takes its levels off the shadow and commits.
LEMMA TakingKeeps ==
    ASSUME ShadowIInv, NEW fill \in [Prices -> Nat],
           \A p \in Prices : fill[p] <= shadow[p],
           shadow' = AfterSell(fill), Commit(fill),
           UNCHANGED <<live, liveOk, observed, shadowOk, shown>>
    PROVE  ShadowIInv'
  <1> USE DEF ShadowIInv, Book
  <1>1. \A p \in Prices : /\ shadow'[p] = Minus(shadow[p], fill[p])
                          /\ taken'[p] = taken[p] + fill[p]
                          /\ shadow'[p] \in Nat
    BY MinusFacts DEF AfterSell, Commit, ShadowTypeOK
  <1>2. ShadowTypeOK'
    <2>1. shadow' \in Book
      BY <1>1 DEF AfterSell
    <2>2. taken' \in Book
      BY DEF Commit, ShadowTypeOK
    <2> QED BY <2>1, <2>2 DEF ShadowTypeOK
  <1>3. ASSUME NEW p \in Prices
        PROVE  /\ shadow'[p] <= observed'[p]
               /\ taken'[p] + shadow'[p] <= shown'[p]
               /\ observed'[p] - shadow'[p] <= taken'[p]
    <2>1. /\ observed[p] \in Nat /\ shadow[p] \in Nat /\ taken[p] \in Nat
          /\ shown[p] \in Nat /\ fill[p] \in Nat /\ fill[p] <= shadow[p]
          /\ shadow[p] <= observed[p]
          /\ taken[p] + shadow[p] <= shown[p]
          /\ observed[p] - shadow[p] <= taken[p]
      BY DEF ShadowTypeOK, ShadowFollowsLive, NoLiquidityReuse, OnlyCommitsDeplete
    <2>2. /\ Minus(shadow[p], fill[p]) <= observed[p]
          /\ (taken[p] + fill[p]) + Minus(shadow[p], fill[p]) <= shown[p]
          /\ observed[p] - Minus(shadow[p], fill[p]) <= taken[p] + fill[p]
      BY <2>1, TakeLevel
    <2>3. observed'[p] = observed[p] /\ shown'[p] = shown[p]
      OBVIOUS
    <2> QED BY <2>2, <2>3, <1>1
  <1>4. shadowOk' = liveOk' /\ (shadowOk' => observed' = live')
    BY DEF ShadowFollowsLive
  <1> QED BY <1>2, <1>3, <1>4
          DEF ShadowFollowsLive, NoLiquidityReuse, OnlyCommitsDeplete

\* A buy only touches levels at or above the cap's floor, which are exact, so
\* its consumption is the one of a sell.
LEMMA BuyConsumes ==
    ASSUME RoundTrips, ShadowIInv, NEW fill \in [Prices -> Nat], IsWalk(fill, CapFloor)
    PROVE  AfterBuy(fill) = AfterSell(fill)
  <1>1. ASSUME NEW p \in Inexact
        PROVE  p \in Prices /\ fill[p] = 0
    BY <1>1, ShadowConstantsOK DEF RoundTrips, IsWalk
  <1>2. ASSUME NEW p \in Inexact
        PROVE  Minus(shadow[p], fill[p]) = shadow[p]
    BY <1>1, <1>2 DEF Minus, ShadowIInv, ShadowTypeOK, Book
  <1> QED BY <1>2 DEF AfterBuy, AfterSell

LEMMA ShadowNextKeeps ==
    ASSUME RoundTrips, ShadowIInv, [ShadowNext]_shadowVars
    PROVE  ShadowIInv'
  <1>0. Fills \subseteq [Prices -> Nat] /\ [Prices -> 0..MaxDisplayed] \subseteq Book
    BY ShadowConstantsOK DEF Fills, Book
  <1>1. ASSUME NEW book \in [Prices -> 0..MaxDisplayed], Snapshot(book)
        PROVE  ShadowIInv'
    BY <1>0, <1>1, SnapshotKeeps
  <1>2. ASSUME NEW p \in Prices, NEW grows \in BOOLEAN, NEW n \in 1..MaxDisplayed,
               Delta(p, grows, n)
        PROVE  ShadowIInv'
    <2>1. n \in Nat
      BY ShadowConstantsOK
    <2> QED BY <1>2, <2>1, DeltaKeeps
  <1>3. CASE Invalidate
    BY <1>3 DEF Invalidate, ShadowIInv, ShadowTypeOK, ShadowFollowsLive, NoLiquidityReuse,
                OnlyCommitsDeplete
  <1>4. ASSUME NEW fill \in Fills, Buy(fill)
        PROVE  ShadowIInv'
    <2>1. fill \in [Prices -> Nat] /\ \A p \in Prices : fill[p] <= shadow[p]
      BY <1>0, <1>4 DEF Buy, IsWalk
    <2>2. shadow' = AfterSell(fill)
      BY <1>4, <2>1, BuyConsumes DEF Buy
    <2> QED BY <1>4, <2>1, <2>2, TakingKeeps DEF Buy
  <1>5. ASSUME NEW fill \in Fills, NEW floor \in Prices, Sell(fill, floor)
        PROVE  ShadowIInv'
    <2>1. fill \in [Prices -> Nat] /\ \A p \in Prices : fill[p] <= shadow[p]
      BY <1>0, <1>5 DEF Sell, IsWalk
    <2> QED BY <1>5, <2>1, TakingKeeps DEF Sell
  <1>6. ASSUME NEW fill \in Fills, NEW floor \in Prices, OrderWriteFails(fill, floor)
        PROVE  ShadowIInv'
    BY <1>6 DEF OrderWriteFails, Restored, ShadowIInv, ShadowTypeOK, ShadowFollowsLive,
                NoLiquidityReuse, OnlyCommitsDeplete
  <1>7. CASE UNCHANGED shadowVars
    BY <1>7 DEF shadowVars, ShadowIInv, ShadowTypeOK, ShadowFollowsLive, NoLiquidityReuse,
                OnlyCommitsDeplete
  <1> QED BY <1>1, <1>2, <1>3, <1>4, <1>5, <1>6, <1>7 DEF ShadowNext

\* The inductive invariant holds whenever every reachable price round-trips.
THEOREM ShadowInvariance ==
    ASSUME RoundTrips
    PROVE  ShadowSpec => []ShadowIInv
  <1>1. ShadowIInv /\ [ShadowNext]_shadowVars => ShadowIInv'
    BY ShadowNextKeeps
  <1> QED BY <1>1, ShadowInitIInv, PTL DEF ShadowSpec

\* Committed orders never take more than was displayed, and a failed
\* transaction costs no paper depth.
THEOREM DepthStaysConserved ==
    ASSUME RoundTrips
    PROVE  ShadowSpec => []DepthIsConserved
  <1>1. ShadowIInv => DepthIsConserved
    BY DEF ShadowIInv, DepthIsConserved
  <1> QED BY <1>1, ShadowInvariance, PTL

\* A shadow that may serve a fill offers a part of what the live book displays.
THEOREM ShadowIsPartOfLive ==
    ASSUME RoundTrips
    PROVE  ShadowSpec => [](ShadowTypeOK /\ ShadowFollowsLive)
  <1>1. ShadowIInv => ShadowTypeOK /\ ShadowFollowsLive
    BY DEF ShadowIInv
  <1> QED BY <1>1, ShadowInvariance, PTL
=============================================================================
