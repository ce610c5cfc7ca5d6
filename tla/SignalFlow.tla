----------------------------- MODULE SignalFlow -----------------------------
(***************************************************************************)
(* From a detected sweep to its signal rows: app/engine.py process_trade,  *)
(* the pending confirmations, act_on_signal and the two strategies, the    *)
(* per-market lockout and the periodic expiry.                             *)
(*                                                                         *)
(* The markets are the legs of one match, each the sibling of the others.  *)
(* What the detector makes of a trade (nothing, a notable burst, a         *)
(* tradeable sweep) is an input of Trade; its cooldown and its book of     *)
(* bursts are kept here.  A candidate is identified, as in episode_id, by  *)
(* its market and its exchange timestamp.  now is the wall clock; a frame  *)
(* carries an exchange timestamp at most MaxLag behind it, in any order.   *)
(* The pending list is a set whose elements carry the number of their      *)
(* episode: the list only grows at its end, so that this is its order.     *)
(*                                                                         *)
(* Every row is written by a call that may raise.  An interrupted handler  *)
(* leaves the rows and orders of the calls before the failure.  Within its *)
(* pass over the pending list it leaves that list as it was, so that what  *)
(* it had decided waits again; once the list is replaced, it loses only    *)
(* the decision on its own candidate.                                      *)
(***************************************************************************)
EXTENDS Integers, Sequences, FiniteSets

CONSTANTS
    Markets,     \* the legs of one match
    Conf,        \* config.CONF_MS
    MaxAge,      \* config.CONF_TRADE_MAX_AGE_S
    Wait,        \* config.CONF_WAIT_S
    Cooldown,    \* config.EPISODE_COOLDOWN_S
    Lockout,     \* config.LOCKOUT_S
    Latency,     \* config.PAPER_ENTRY_LATENCY_MS
    Retry,       \* 0.1 s after an execution that failed
    LateOnly,    \* config.LATE_ONLY: Gate A may decline
    Sweepers,    \* bound: markets whose bursts may be tradeable
    MaxLag,      \* bound: exchange timestamp behind the wall clock
    MaxTime,     \* bound: the wall clock
    MaxBursts,   \* bound: market -> notable bursts
    BurstSigns,  \* bound: market -> their signs
    MaxEpisodes, \* bound: candidates the detector emits
    MaxRefusals, \* bound: rows declined by a strategy or refused by the desk
    MaxFaults    \* bound: writes that fail and abnormal stops

ASSUME ConstantsOK ==
    /\ {Conf, MaxAge, Wait, Cooldown, Lockout, Latency, Retry} \subseteq Nat
    /\ {MaxLag, MaxTime, MaxEpisodes, MaxRefusals, MaxFaults} \subseteq Nat
    /\ Cooldown > 0 /\ Lockout > 0 /\ Retry > 0
    /\ MaxBursts \in [Markets -> Nat]
    /\ BurstSigns \in [Markets -> SUBSET {-1, 1}]
    /\ LateOnly \in BOOLEAN /\ Sweepers \subseteq Markets

Strategies == {"gate_a", "price_only"}
Signs      == {-1, 1}

VARIABLES
    now,        \* time.time()
    bursts,     \* MarketState.big_bursts
    lastCand,   \* MarketState.last_candidate_ms
    pending,    \* Engine.pending: candidates that wait for a sibling
    rows,       \* the signals table
    orders,     \* PaperDesk.pending_entries: row numbers with their due times
    lastEntry,  \* Engine.last_entry_ms
    alive,      \* periodic_task has not died
    trades,     \* last id of the paper_trades table
    fills,      \* trades opened by, or restored to, this process: id, row, entry_ts
    episodes,   \* history: candidates emitted
    abandoned,  \* history: handlers that failed on their way through the pending list
    faults, crashes

engine == <<bursts, lastCand, pending, lastEntry, alive>>
desk   == <<orders, trades, fills>>
history == <<episodes, abandoned>>
budget == <<faults, crashes>>
vars   == <<now, engine, rows, desk, history, budget>>

Never    == -(Lockout + MaxLag)  \* no fill yet: no exchange time is locked
NotSwept == -(Cooldown + MaxLag) \* no candidate yet: none is within the cooldown

Candidate == [mkt : Markets, ts : Int, sign : Signs]
Pending   == [nr : Nat, cand : Candidate, queuedAt : Nat, deadline : Nat]
Outcomes  == {"queued", "filled", "refused", "strategy_lockout", "declined",
              "confirmed_late", "unconfirmed"}
Row       == [cand : Candidate, strat : Strategies \cup {"none"}, out : Outcomes]

Init ==
    /\ now = 0
    /\ bursts = [m \in Markets |-> {}]
    /\ lastCand = [m \in Markets |-> NotSwept]
    /\ pending = {} /\ rows = <<>> /\ orders = {}
    /\ lastEntry = [k \in Strategies \X Markets |-> Never]
    /\ alive = TRUE /\ trades = 0 /\ fills = {}
    /\ episodes = 0 /\ abandoned = 0
    /\ faults = 0 /\ crashes = 0

-----------------------------------------------------------------------------
(***************************************************************************)
(* Verdicts                                                                *)
(***************************************************************************)

Distance(a, b) == IF a < b THEN b - a ELSE a - b

\* Detector.confirm: a sibling's burst of opposite sign near the candidate.
Confirmed(c, book) ==
    \E m \in Markets \ {c.mkt} : \E b \in book[m] :
        Distance(b.ts, c.ts) <= Conf /\ b.sign # c.sign

\* What a trade of market m makes of the pending candidate p.
Verdict(p, m, book) ==
    IF p.cand.mkt # m /\ Confirmed(p.cand, book)
    THEN IF now - p.queuedAt <= MaxAge THEN "act" ELSE "confirmed_late"
    ELSE IF now < p.deadline THEN "wait" ELSE "unconfirmed"

\* Mutant: fills are taken to come in exchange order, so that one stamped after
\* the candidate does not lock it.
LockedInOrder(strat, c) ==
    LET age == c.ts - lastEntry[<<strat, c.mkt>>] IN age >= 0 /\ age < Lockout

\* _is_strategy_locked.
Locked(strat, c) == c.ts - lastEntry[<<strat, c.mkt>>] < Lockout

\* _run_gate_a and _run_price_only: a strategy whose own gate declines the
\* candidate is never locked out; the others share _execute_strategy_candidate.
Decision(strat, c, declined) ==
    [cand |-> c, strat |-> strat,
     out |-> IF strat \in declined THEN "declined"
             ELSE IF Locked(strat, c) THEN "strategy_lockout" ELSE "queued"]

\* Mutant: a confirmation that comes too late is dropped without a row.
RowsOfTimely(c, verdict, declined) ==
    CASE verdict = "act"         -> {Decision(s, c, declined) : s \in Strategies}
      [] verdict = "unconfirmed" -> {[cand |-> c, strat |-> "none", out |-> verdict]}
      [] OTHER                   -> {}

\* The rows a verdict writes; act_on_signal runs both strategies.
RowsOf(c, verdict, declined) ==
    CASE verdict = "act"  -> {Decision(s, c, declined) : s \in Strategies}
      [] verdict = "wait" -> {}
      [] OTHER            -> {[cand |-> c, strat |-> "none", out |-> verdict]}

\* The same as writes, numbered by the episode they belong to.
Numbered(p, verdict, declined) ==
    {[nr |-> p.nr, row |-> r] : r \in RowsOf(p.cand, verdict, declined)}

\* Candidates in the order of the pending list, Gate A before the price-only
\* sleeve.
Before(v, w) ==
    \/ v.nr < w.nr
    \/ v.nr = w.nr /\ v.row.strat = "gate_a" /\ w.row.strat # "gate_a"

InOrder(writes) ==
    {q \in [1 .. Cardinality(writes) -> writes] :
        \A i, j \in DOMAIN q : i < j => Before(q[i], q[j])}

\* Mutant: whatever the strategies decided, their orders are queued.
InsertAndQueue(q, n, unqueued) ==
    /\ rows' = rows \o [i \in 1 .. n |-> q[i].row]
    /\ orders' = orders \cup {[row |-> Len(rows) + i, due |-> now + Latency] : i \in 1 .. n}

\* The first n writes of q are inserted; the last of them may be the one whose
\* latency sample fails before queue_enter.
Insert(q, n, unqueued) ==
    /\ rows' = rows \o [i \in 1 .. n |-> q[i].row]
    /\ orders' = orders \cup
           {[row |-> Len(rows) + i, due |-> now + Latency] :
                i \in {i \in 1 .. n : q[i].row.out = "queued"
                                      /\ ~(unqueued /\ i = n)}}

-----------------------------------------------------------------------------
(***************************************************************************)
(* Trades and ticks                                                        *)
(***************************************************************************)

\* Detector.on_trade: a notable burst is remembered for the siblings; a
\* tradeable one outside the cooldown is a candidate.
Emits(m, ts, sweep) == sweep /\ ts - lastCand[m] >= Cooldown

OnTrade(m, ts, sign, sweep) ==
    /\ bursts' = IF sign = 0 THEN bursts
                 ELSE [bursts EXCEPT ![m] = @ \cup {[ts |-> ts, sign |-> sign]}]
    /\ IF Emits(m, ts, sweep)
       THEN /\ episodes < MaxEpisodes /\ episodes' = episodes + 1
            /\ lastCand' = [lastCand EXCEPT ![m] = ts]
       ELSE UNCHANGED <<episodes, lastCand>>

\* The candidate this trade produced, if any, as it would be queued.
Fresh(m, ts, sign, sweep) ==
    IF Emits(m, ts, sweep)
    THEN {[nr |-> episodes + 1, cand |-> [mkt |-> m, ts |-> ts, sign |-> sign],
           queuedAt |-> now, deadline |-> now + Wait]}
    ELSE {}

\* Mutant: a new candidate waits for a sibling that has swept already.
FreshWaits(c, book) ==
    IF Markets # {c.mkt} THEN "wait" ELSE "unconfirmed"

FreshVerdict(c, book) ==
    IF Confirmed(c, book) THEN "act"
    ELSE IF Markets # {c.mkt} THEN "wait" ELSE "unconfirmed"

\* What process_trade writes: the verdicts on the pending candidates, and on
\* the candidate this trade produced.
Writes(m, fresh, book, declined) ==
    (UNION {Numbered(p, Verdict(p, m, book), declined) : p \in pending})
    \cup (UNION {Numbered(p, FreshVerdict(p.cand, book), declined) : p \in fresh})

\* Mutant: what has been acted on stays until its deadline.
WaitingUntilDeadline(m, fresh, book) ==
    {p \in pending : now < p.deadline}
    \cup {p \in fresh : FreshVerdict(p.cand, book) = "wait"}

Waiting(m, fresh, book) ==
    {p \in pending : Verdict(p, m, book) = "wait"}
    \cup {p \in fresh : FreshVerdict(p.cand, book) = "wait"}

Trade(m, ts, sign, sweep, declined) ==
    LET fresh == Fresh(m, ts, sign, sweep) IN
    /\ OnTrade(m, ts, sign, sweep)
    /\ \E q \in InOrder(Writes(m, fresh, bursts', declined)) : Insert(q, Len(q), FALSE)
    /\ pending' = Waiting(m, fresh, bursts')
    /\ UNCHANGED <<now, lastEntry, alive, trades, fills, abandoned, budget>>

\* The k-th write raises, before its row is inserted or after it, and what was to
\* come is abandoned.  By the time its own candidate is decided the handler has
\* replaced the pending list.
TradeInterrupted(m, ts, sign, sweep, declined, inserted, unqueued) ==
    LET fresh == Fresh(m, ts, sign, sweep) IN
    /\ faults + crashes < MaxFaults
    /\ OnTrade(m, ts, sign, sweep)
    /\ \E q \in InOrder(Writes(m, fresh, bursts', declined)) : \E k \in DOMAIN q :
           /\ Insert(q, IF inserted THEN k ELSE k - 1, unqueued)
           /\ IF \E p \in fresh : q[k].nr = p.nr
              THEN pending' = Waiting(m, fresh, bursts') /\ UNCHANGED abandoned
              ELSE UNCHANGED pending /\ abandoned' = abandoned + 1
    /\ faults' = faults + 1
    /\ UNCHANGED <<now, lastEntry, alive, trades, fills, crashes>>

\* periodic_task: candidates past their deadline are recorded.
Expired == {p \in pending : now >= p.deadline}

ExpiryRows == UNION {Numbered(p, "unconfirmed", {}) : p \in Expired}

ExpirePending ==
    /\ alive /\ Expired # {}
    /\ \E q \in InOrder(ExpiryRows) : Insert(q, Len(q), FALSE)
    /\ pending' = pending \ Expired
    /\ UNCHANGED <<now, bursts, lastCand, lastEntry, alive, trades, fills, history, budget>>

\* The task has no handler around its body: a failed row ends it, and so does any
\* other failed write, whatever has expired.
ExpiryDies ==
    /\ alive
    /\ faults + crashes < MaxFaults
    /\ \E q \in InOrder(ExpiryRows) : \E n \in 0 .. Len(q) : Insert(q, n, FALSE)
    /\ alive' = FALSE
    /\ faults' = faults + 1
    /\ abandoned' = abandoned + (IF Expired = {} THEN 0 ELSE 1)
    /\ UNCHANGED <<now, bursts, lastCand, pending, lastEntry, trades, fills, episodes, crashes>>

-----------------------------------------------------------------------------
(***************************************************************************)
(* Fills, time and restarts                                                *)
(***************************************************************************)

\* _remember_fill.
RememberFill(c, strat) == lastEntry' = [lastEntry EXCEPT ![<<strat, c.mkt>>] = c.ts]

\* process_pending takes the orders whose time has come in the order of its list,
\* which is that of their rows.
Turn(o) == o.due <= now /\ \A p \in orders : p.due <= now => o.row <= p.row

\* It executes the order; a fill is reported through on_paper_entry_result.
Execute(o, filled) ==
    LET row == rows[o.row] IN
    /\ Turn(o)
    /\ orders' = orders \ {o}
    /\ rows' = [rows EXCEPT ![o.row].out = IF filled THEN "filled" ELSE "refused"]
    /\ IF filled
       THEN /\ RememberFill(row.cand, row.strat)
            /\ trades' = trades + 1
            /\ fills' = fills \cup {[id |-> trades + 1, row |-> o.row, at |-> now]}
       ELSE UNCHANGED <<lastEntry, trades, fills>>
    /\ UNCHANGED <<now, bursts, lastCand, pending, alive, history, budget>>

\* Its write fails: the order is tried again later, those behind it are not held.
ExecuteFails(o) ==
    /\ Turn(o)
    /\ faults + crashes < MaxFaults
    /\ orders' = (orders \ {o}) \cup {[o EXCEPT !.due = now + Retry]}
    /\ faults' = faults + 1
    /\ UNCHANGED <<now, engine, rows, trades, fills, history, crashes>>

Tick ==
    /\ now < MaxTime
    /\ now' = now + 1
    /\ UNCHANGED <<engine, rows, desk, history, budget>>

\* A stop and the start that follows it: the pending candidates, the orders
\* and the tapes are gone; the lockouts come back from the trades that are
\* still open, at the wall time of their entry, by id, so that the last counts.
Restart(open) ==
    LET of(k) == {t \in open : <<rows[t.row].strat, rows[t.row].cand.mkt>> = k} IN
    /\ faults + crashes < MaxFaults
    /\ crashes' = crashes + 1
    /\ bursts' = [m \in Markets |-> {}]
    /\ lastCand' = [m \in Markets |-> NotSwept]
    /\ pending' = {} /\ orders' = {}
    /\ lastEntry' = [k \in Strategies \X Markets |->
           IF of(k) = {} THEN Never
           ELSE (CHOOSE t \in of(k) : \A u \in of(k) : u.id <= t.id).at]
    /\ alive' = TRUE
    /\ fills' = open
    /\ UNCHANGED <<now, rows, trades, history, faults>>

MayRefuse ==
    Cardinality({i \in DOMAIN rows : rows[i].out \in {"declined", "refused"}}) < MaxRefusals

\* A trade within the bounds, handled to its end or not.
AnyTrade(m, ts, sign, sweep, declined) ==
    /\ sweep => sign # 0 /\ m \in Sweepers /\ now + Wait <= MaxTime
    /\ "gate_a" \in declined => LateOnly
    /\ declined # {} => MayRefuse
    /\ sign = 0 => ts = now
    /\ sign # 0 => sign \in BurstSigns[m] /\ Cardinality(bursts[m]) < MaxBursts[m]
    /\ \/ Trade(m, ts, sign, sweep, declined)
       \/ \E inserted, unqueued \in BOOLEAN :
              /\ unqueued => inserted
              /\ TradeInterrupted(m, ts, sign, sweep, declined, inserted, unqueued)

Next ==
    \/ \E m \in Markets, ts \in (now - MaxLag) .. now, sign \in {-1, 0, 1},
          sweep \in BOOLEAN, declined \in SUBSET Strategies :
           AnyTrade(m, ts, sign, sweep, declined)
    \/ ExpirePending
    \/ ExpiryDies
    \/ \E o \in orders, filled \in BOOLEAN : (filled \/ MayRefuse) /\ Execute(o, filled)
    \/ \E o \in orders : ExecuteFails(o)
    \/ Tick
    \/ \E open \in SUBSET fills : Restart(open)

\* Time passes and the periodic task goes on ticking while it is alive.
Fairness == WF_vars(Tick) /\ WF_vars(ExpirePending)

Spec == Init /\ [][Next]_vars /\ Fairness

-----------------------------------------------------------------------------
(***************************************************************************)
(* Properties                                                              *)
(***************************************************************************)

\* Types: orders and open trades belong to rows in the matching state.
TypeOK ==
    /\ now \in 0 .. MaxTime
    /\ pending \subseteq Pending
    /\ \A i \in DOMAIN rows : rows[i] \in Row
    /\ \A o \in orders : o.row \in DOMAIN rows /\ rows[o.row].out = "queued"
    /\ \A t \in fills :
          t.id \in 1 .. trades /\ t.row \in DOMAIN rows /\ rows[t.row].out = "filled"
    /\ lastEntry \in [Strategies \X Markets -> Int]
    /\ alive \in BOOLEAN

\* A candidate waits only while no sibling has confirmed it: whatever order the
\* frames of the legs arrive in, the trade that brings the confirming burst is
\* the one that takes the candidate out (process_trade).  Only a write that fails
\* on the way through the pending list leaves a confirmed candidate waiting; one
\* that fails for the trade's own candidate comes after the list was replaced.
PendingIsUnconfirmed ==
    abandoned = 0 => \A p \in pending : ~Confirmed(p.cand, bursts)

Decisions(c, strat) ==
    {i \in DOMAIN rows : rows[i].cand = c /\ rows[i].strat = strat}

\* An episode is decided once: one row per strategy or one row for both.  Only a
\* handler that fails on its way through the pending list, or a restart, which
\* forgets the cooldowns, repeats it, each at most once.
EpisodesAreDecidedOnce ==
    \A i \in DOMAIN rows :
        LET c == rows[i].cand IN
        /\ Cardinality(Decisions(c, rows[i].strat)) <= 1 + abandoned + crashes
        /\ abandoned + crashes = 0 =>
               (rows[i].strat = "none" <=> Decisions(c, "gate_a") = {})

\* The fills of a strategy on a market that this process knows of.
FillsOf(strat, m) ==
    {f \in fills : rows[f.row].strat = strat /\ rows[f.row].cand.mkt = m}

\* No order is queued within the lockout of the last fill of the same strategy
\* and market, the one executed last, whether its candidate is stamped before or
\* after that fill, in whatever order retries execute, and across a restart with
\* the trade open.
LockoutHolds ==
    [][\A i \in DOMAIN rows' \ DOMAIN rows :
           LET row   == rows'[i]
               known == FillsOf(row.strat, row.cand.mkt) IN
           row.out = "queued" =>
               \A f \in known :
                   (\A g \in known : g.id <= f.id) =>
                       row.cand.ts - rows[f.row].cand.ts >= Lockout]_vars

\* Not kept: no order is queued within the lockout of any fill of its strategy and
\* market (README, Known departures).
EveryFillLocks ==
    [][\A i \in DOMAIN rows' \ DOMAIN rows : \A j \in DOMAIN rows :
           /\ rows'[i].out = "queued" /\ rows[j].out = "filled"
           /\ rows[j].strat = rows'[i].strat /\ rows[j].cand.mkt = rows'[i].cand.mkt
           => rows'[i].cand.ts - rows[j].cand.ts >= Lockout]_vars

\* Every pending candidate leaves a row, unless a failed write has killed the
\* periodic task or the process restarts (the bounds let no other candidate wait).
PendingIsRecorded ==
    \A m \in Sweepers, ts \in -MaxLag .. MaxTime - Wait :
        LET waits == \E p \in pending : p.cand.mkt = m /\ p.cand.ts = ts
            recorded == \E i \in DOMAIN rows :
                         rows[i].cand.mkt = m /\ rows[i].cand.ts = ts IN
        waits ~> recorded \/ ~alive \/ crashes > 0
=============================================================================
