------------------------- MODULE SignalFlowProofs -------------------------
(***************************************************************************)
(* Proofs about SignalFlow, for any legs, any windows and latencies, any   *)
(* order of the frames, any number of failed writes and restarts.          *)
(*                                                                         *)
(* The safety properties rest on one invariant.  That an episode is        *)
(* decided once is not inductive: Charged counts what may still be decided *)
(* with what has been.  An episode costs one decision, whether it is       *)
(* written or waits, from the moment its market's cooldown has reached it  *)
(* (Seen); a handler that fails on its way through the pending list, or a  *)
(* restart, pays for one more.  That retried orders fill out of the order  *)
(* of their rows is why the newest fill is the one with the last id.       *)
(***************************************************************************)
EXTENDS SignalFlow, FiniteSetTheorems, SequenceTheorems, WellFoundedInduction, TLAPS

Verdicts == {"act", "wait", "confirmed_late", "unconfirmed"}

-----------------------------------------------------------------------------
(***************************************************************************)
(* The invariant                                                           *)
(***************************************************************************)

Types ==
    /\ TypeOK
    /\ IsFiniteSet(pending)
    /\ rows \in Seq(Row)
    /\ bursts \in [Markets -> SUBSET [ts : Int, sign : Signs]]
    /\ lastCand \in [Markets -> Int]
    /\ episodes \in Nat /\ abandoned \in Nat /\ trades \in Nat
    /\ faults \in Nat /\ crashes \in Nat
    /\ \A t \in fills : t.at \in Int

\* Only a strategy queues orders.
StrategiesTrade ==
    \A i \in DOMAIN rows :
        rows[i].out \in {"queued", "filled"} => rows[i].strat \in Strategies

\* A row is queued once, and a trade has an id of its own.
OnceEach ==
    /\ \A o, p \in orders : o.row = p.row => o = p
    /\ \A f, g \in fills : f.id = g.id => f = g

\* No exchange timestamp is ahead of the wall clock.
Stamped ==
    /\ \A i \in DOMAIN rows : rows[i].cand.ts <= now
    /\ \A p \in pending : p.cand.ts <= now
    /\ \A t \in fills : rows[t.row].cand.ts <= t.at

\* The lockout of a strategy on a market counts from its newest fill, or later.
NewestFillLocks ==
    \A s \in Strategies, m \in Markets : \A f \in FillsOf(s, m) :
        (\A g \in FillsOf(s, m) : g.id <= f.id) =>
            rows[f.row].cand.ts <= lastEntry[<<s, m>>]

\* A candidate waits once, and its market's cooldown has reached it.
WaitsOnce ==
    /\ \A p \in pending : p.cand.ts <= lastCand[p.cand.mkt]
    /\ \A p, q \in pending : p.cand = q.cand => p = q

InPending(c) == IF \E p \in pending : p.cand = c THEN 1 ELSE 0
Seen(c) == IF c.ts <= lastCand[c.mkt] THEN 1 ELSE 0

Charged ==
    \A c \in Candidate, s \in Strategies \cup {"none"} :
        Cardinality(Decisions(c, s)) + InPending(c) <= abandoned + crashes + Seen(c)

\* While nothing is abandoned an episode is decided by the strategies or by neither.
OneKind ==
    abandoned + crashes = 0 =>
        \A i \in DOMAIN rows :
            rows[i].strat = "none" <=> Decisions(rows[i].cand, "gate_a") = {}

IInv ==
    /\ Types
    /\ StrategiesTrade /\ OnceEach /\ Stamped /\ NewestFillLocks
    /\ PendingIsUnconfirmed /\ WaitsOnce /\ Charged /\ OneKind

-----------------------------------------------------------------------------
(***************************************************************************)
(* What a list of candidates writes                                        *)
(***************************************************************************)

\* The writes for the candidates of L with the verdicts V.
Written(L, V, declined) == UNION {Numbered(p, V[p], declined) : p \in L}

\* Candidates that are there once, none ahead of the clock.
Candidates(L) ==
    /\ L \subseteq Pending /\ IsFiniteSet(L)
    /\ \A p, q \in L : p.cand = q.cand => p = q
    /\ \A p \in L : p.cand.ts <= now

LEMMA DecisionType ==
    ASSUME NEW c \in Candidate, NEW s \in Strategies, NEW declined
    PROVE  LET r == Decision(s, c, declined) IN
           /\ r \in Row /\ r.cand = c /\ r.strat = s
           /\ r.out # "filled"
           /\ r.out = "queued" => ~Locked(s, c)
<1>1. /\ Decision(s, c, declined).cand = c
      /\ Decision(s, c, declined).strat = s
      /\ Decision(s, c, declined).out \in {"declined", "strategy_lockout", "queued"}
      /\ Decision(s, c, declined).out = "queued" => ~Locked(s, c)
  BY DEF Decision
<1>2. Decision(s, c, declined) \in Row
  BY DEF Decision, Row, Outcomes
<1> QED BY <1>1, <1>2

\* w is what the verdict v on the candidate p writes.
Origin(w, p, v, declined) ==
    /\ v # "wait"
    /\ w = [nr |-> p.nr, row |-> w.row]
    /\ w.nr \in Nat
    /\ w.row \in Row /\ w.row.cand = p.cand
    /\ w.row.out # "filled"
    /\ w.row.out = "queued" => /\ w.row.strat \in Strategies
                               /\ ~Locked(w.row.strat, p.cand)
    /\ v = "act" => /\ w.row.strat \in Strategies
                    /\ w.row = Decision(w.row.strat, p.cand, declined)
    /\ v # "act" => /\ w.row.strat = "none"
                    /\ w.row = [cand |-> p.cand, strat |-> "none", out |-> v]

\* Where a row comes from.
LEMMA WrittenFrom ==
    ASSUME NEW L \in SUBSET Pending, NEW V \in [L -> Verdicts], NEW declined,
           NEW w \in Written(L, V, declined)
    PROVE  \E p \in L : Origin(w, p, V[p], declined)
<1>1. PICK p \in L : w \in Numbered(p, V[p], declined)
  BY DEF Written
<1>2. PICK r \in RowsOf(p.cand, V[p], declined) : w = [nr |-> p.nr, row |-> r]
  BY <1>1 DEF Numbered
<1>3. w.nr = p.nr /\ w.row = r /\ w.nr \in Nat /\ p.cand \in Candidate
  BY <1>2 DEF Pending
<1>4. CASE V[p] = "act"
  <2>1. PICK s \in Strategies : r = Decision(s, p.cand, declined)
    BY <1>2, <1>4 DEF RowsOf
  <2>2. r.strat = s
    BY <1>3, <2>1, DecisionType
  <2>3. /\ r \in Row /\ r.cand = p.cand /\ r.out # "filled"
        /\ r.out = "queued" => ~Locked(r.strat, p.cand)
    BY <1>3, <2>1, <2>2, DecisionType
  <2>4. Origin(w, p, V[p], declined)
    BY <1>2, <1>3, <1>4, <2>1, <2>2, <2>3 DEF Origin
  <2> QED BY <2>4
<1>5. CASE V[p] \in {"confirmed_late", "unconfirmed"}
  <2>1. r = [cand |-> p.cand, strat |-> "none", out |-> V[p]]
    BY <1>2, <1>5 DEF RowsOf
  <2>2. r \in Row
    BY <1>3, <1>5, <2>1 DEF Row, Outcomes
  <2>3. Origin(w, p, V[p], declined)
    BY <1>2, <1>3, <1>5, <2>1, <2>2 DEF Origin
  <2> QED BY <2>3
<1>6. V[p] # "wait"
  BY <1>2 DEF RowsOf
<1> QED BY <1>4, <1>5, <1>6 DEF Verdicts

\* What a candidate is sure to write.
LEMMA WrittenBy ==
    ASSUME NEW L \in SUBSET Pending, NEW V \in [L -> Verdicts], NEW declined,
           NEW p \in L
    PROVE  /\ V[p] = "act" => \A s \in Strategies :
                  [nr |-> p.nr, row |-> Decision(s, p.cand, declined)] \in Written(L, V, declined)
           /\ V[p] \notin {"act", "wait"} =>
                  [nr |-> p.nr, row |-> [cand |-> p.cand, strat |-> "none", out |-> V[p]]]
                      \in Written(L, V, declined)
<1>1. Numbered(p, V[p], declined) \subseteq Written(L, V, declined)
  BY DEF Written
<1>2. ASSUME V[p] = "act", NEW s \in Strategies
      PROVE  [nr |-> p.nr, row |-> Decision(s, p.cand, declined)] \in Numbered(p, V[p], declined)
  <2>1. Decision(s, p.cand, declined) \in RowsOf(p.cand, V[p], declined)
    BY <1>2 DEF RowsOf
  <2> QED BY <2>1 DEF Numbered
<1>3. ASSUME V[p] \notin {"act", "wait"}
      PROVE  [nr |-> p.nr, row |-> [cand |-> p.cand, strat |-> "none", out |-> V[p]]]
                 \in Numbered(p, V[p], declined)
  <2>1. [cand |-> p.cand, strat |-> "none", out |-> V[p]] \in RowsOf(p.cand, V[p], declined)
    BY <1>3 DEF RowsOf
  <2> QED BY <2>1 DEF Numbered
<1> QED BY <1>1, <1>2, <1>3

LEMMA WrittenFinite ==
    ASSUME NEW L, IsFiniteSet(L), NEW V, NEW declined
    PROVE  IsFiniteSet(Written(L, V, declined))
<1>1. ASSUME NEW p \in L PROVE IsFiniteSet(Numbered(p, V[p], declined))
  <2>1. ASSUME NEW a, NEW b, Numbered(p, V[p], declined) \subseteq {a, b}
        PROVE  IsFiniteSet(Numbered(p, V[p], declined))
    <3>1. IsFiniteSet({a} \cup {b}) /\ {a, b} = {a} \cup {b}
      BY FS_Singleton, FS_AddElement
    <3> QED BY <2>1, <3>1, FS_Subset
  <2> DEFINE n(r) == [nr |-> p.nr, row |-> r]
  <2>2. CASE V[p] = "act"
    <3>1. RowsOf(p.cand, V[p], declined) =
              {Decision("gate_a", p.cand, declined), Decision("price_only", p.cand, declined)}
      BY <2>2 DEF RowsOf, Strategies
    <3>2. Numbered(p, V[p], declined) \subseteq
              {n(Decision("gate_a", p.cand, declined)), n(Decision("price_only", p.cand, declined))}
      BY <3>1 DEF Numbered
    <3> QED BY <2>1, <3>2
  <2>3. CASE V[p] # "act"
    <3> DEFINE r == [cand |-> p.cand, strat |-> "none", out |-> V[p]]
    <3>1. RowsOf(p.cand, V[p], declined) \subseteq {r}
      BY <2>3 DEF RowsOf
    <3>2. Numbered(p, V[p], declined) \subseteq {n(r), n(r)}
      BY <3>1 DEF Numbered
    <3> QED BY <2>1, <3>2
  <2> QED BY <2>2, <2>3
<1> DEFINE All == {Numbered(p, V[p], declined) : p \in L}
           f   == [p \in L |-> Numbered(p, V[p], declined)]
<1>2. f \in Surjection(L, All)
  BY DEF Surjection
<1>3. IsFiniteSet(All)
  BY <1>2, FS_Surjection
<1> QED BY <1>1, <1>3, FS_UNION DEF Written

\* A strategy writes at most one row for a candidate.
LEMMA WrittenOnce ==
    ASSUME NEW L, Candidates(L), NEW V \in [L -> Verdicts], NEW declined,
           NEW v \in Written(L, V, declined), NEW w \in Written(L, V, declined),
           v.row.cand = w.row.cand, v.row.strat = w.row.strat
    PROVE  v = w
<1>0. L \in SUBSET Pending
  BY DEF Candidates
<1>1. PICK p \in L : Origin(v, p, V[p], declined)
  BY <1>0, WrittenFrom
<1>2. PICK q \in L : Origin(w, q, V[q], declined)
  BY <1>0, WrittenFrom
<1>3. p = q
  BY <1>1, <1>2 DEF Candidates, Origin
<1>4. v.row = w.row
  BY <1>1, <1>2, <1>3 DEF Origin
<1>5. v = [nr |-> p.nr, row |-> v.row] /\ w = [nr |-> p.nr, row |-> w.row]
  BY <1>1, <1>2, <1>3 DEF Origin
<1> QED BY <1>4, <1>5

\* Putting writes in order loses none and repeats none.
LEMMA OrderFacts ==
    ASSUME NEW W, IsFiniteSet(W), \A w \in W : w.nr \in Nat, NEW q \in InOrder(W)
    PROVE  /\ Cardinality(W) \in Nat
           /\ q \in [1 .. Cardinality(W) -> W]
           /\ q \in Seq(W) /\ Len(q) = Cardinality(W)
           /\ \A i, j \in 1 .. Len(q) : q[i] = q[j] => i = j
           /\ \A i, j \in 1 .. Len(q) : i < j => Before(q[i], q[j])
           /\ \A w \in W : \E i \in 1 .. Len(q) : q[i] = w
<1> DEFINE k == Cardinality(W)
<1>1. k \in Nat
  BY FS_CardinalityType
<1>2. q \in [1 .. k -> W] /\ \A i, j \in 1 .. k : i < j => Before(q[i], q[j])
  BY DEF InOrder
<1> HIDE DEF k
<1>3. q \in Seq(W) /\ Len(q) = k
  BY <1>1, <1>2
<1>4. \A w \in W : ~Before(w, w)
  BY DEF Before
<1>5. \A i, j \in 1 .. k : q[i] = q[j] => i = j
  <2>1. ASSUME NEW i \in 1 .. k, NEW j \in 1 .. k, i < j PROVE q[i] # q[j]
    BY <1>2, <1>4, <2>1
  <2> QED BY <1>1, <2>1
<1>6. q \in Injection(1 .. k, W)
  BY <1>2, <1>5 DEF Injection, IsInjective
<1>7. Cardinality(1 .. k) = k
  BY <1>1, FS_Interval
<1>8. q \in Surjection(1 .. k, W)
  BY <1>6, <1>7, FS_Injection DEF k
<1>9. \A w \in W : \E i \in 1 .. k : q[i] = w
  BY <1>8 DEF Surjection
<1> QED BY <1>1, <1>2, <1>3, <1>5, <1>9 DEF k

-----------------------------------------------------------------------------
(***************************************************************************)
(* A handler that inserts rows                                             *)
(***************************************************************************)

\* The first n writes of the candidates of L are inserted, in the order q.
Inserts(L, V, declined, q, n, unqueued) ==
    /\ Candidates(L) /\ V \in [L -> Verdicts]
    /\ q \in InOrder(Written(L, V, declined))
    /\ n \in 0 .. Len(q)
    /\ Insert(q, n, unqueued)

NewRows == DOMAIN rows' \ DOMAIN rows

LEMMA InsertRows ==
    ASSUME Types, NEW L, NEW V, NEW declined, NEW q, NEW n, NEW unqueued,
           Inserts(L, V, declined, q, n, unqueued)
    PROVE  /\ n \in Nat /\ Len(rows) \in Nat
           /\ DOMAIN rows = 1 .. Len(rows) /\ DOMAIN rows' = 1 .. (Len(rows) + n)
           /\ rows' \in Seq(Row)
           /\ \A i \in DOMAIN rows : i \in DOMAIN rows' /\ rows'[i] = rows[i]
           /\ \A j \in 1 .. n : /\ Len(rows) + j \in NewRows
                                /\ rows'[Len(rows) + j] = q[j].row
           /\ \A i \in NewRows : /\ i - Len(rows) \in 1 .. n
                                 /\ rows'[i] = q[i - Len(rows)].row
           /\ q \in [1 .. Len(q) -> Written(L, V, declined)]
           /\ Len(q) \in Nat
<1> DEFINE W == Written(L, V, declined)
<1>1. IsFiniteSet(W) /\ \A w \in W : w.nr \in Nat /\ w.row \in Row
  <2>1. L \in SUBSET Pending /\ V \in [L -> Verdicts] /\ IsFiniteSet(L)
    BY DEF Inserts, Candidates
  <2>2. ASSUME NEW w \in W PROVE w.nr \in Nat /\ w.row \in Row
    BY <2>1, <2>2, WrittenFrom DEF Origin
  <2> QED BY <2>1, <2>2, WrittenFinite
<1>2. /\ Len(q) \in Nat /\ q \in [1 .. Len(q) -> W]
  BY <1>1, OrderFacts DEF Inserts
<1> HIDE DEF W
<1> DEFINE add == [i \in 1 .. n |-> q[i].row]
<1>3. n \in Nat /\ \A i \in 1 .. n : i \in 1 .. Len(q)
  BY <1>2 DEF Inserts
<1>4. \A i \in 1 .. n : q[i].row \in Row
  BY <1>1, <1>2, <1>3
<1>5. add \in [1 .. n -> Row]
  BY <1>4
<1>6. add \in Seq(Row) /\ Len(add) = n
  BY <1>3, <1>5
<1>7. rows \in Seq(Row) /\ rows' = rows \o add
  BY DEF Types, Inserts, Insert
<1>8. \A i \in 1 .. n : add[i] = q[i].row
  OBVIOUS
<1> HIDE DEF add
<1>9. /\ rows' \in Seq(Row) /\ Len(rows) \in Nat
      /\ DOMAIN rows = 1 .. Len(rows) /\ DOMAIN rows' = 1 .. (Len(rows) + n)
      /\ \A i \in 1 .. Len(rows) : rows'[i] = rows[i]
      /\ \A i \in 1 .. n : rows'[Len(rows) + i] = add[i]
  <2>1. /\ rows' \in Seq(Row) /\ Len(rows') = Len(rows) + n
        /\ \A i \in 1 .. (Len(rows) + n) :
              rows'[i] = IF i <= Len(rows) THEN rows[i] ELSE add[i - Len(rows)]
    BY <1>6, <1>7, ConcatProperties
  <2>2. /\ Len(rows) \in Nat
        /\ DOMAIN rows = 1 .. Len(rows) /\ DOMAIN rows' = 1 .. (Len(rows) + n)
    BY <1>7, <2>1, LenProperties
  <2>3. \A i \in 1 .. Len(rows) : rows'[i] = rows[i]
    BY <1>3, <2>1, <2>2
  <2>4. ASSUME NEW i \in 1 .. n PROVE rows'[Len(rows) + i] = add[i]
    <3>1. /\ Len(rows) + i \in 1 .. (Len(rows) + n) /\ ~(Len(rows) + i <= Len(rows))
          /\ (Len(rows) + i) - Len(rows) = i
      BY <1>3, <2>2
    <3> QED BY <2>1, <3>1
  <2> QED BY <2>1, <2>2, <2>3, <2>4
<1>10. \A j \in 1 .. n : Len(rows) + j \in NewRows
  BY <1>3, <1>9 DEF NewRows
<1>11. ASSUME NEW i \in NewRows
       PROVE  i - Len(rows) \in 1 .. n /\ rows'[i] = q[i - Len(rows)].row
  <2>1. i - Len(rows) \in 1 .. n /\ i = Len(rows) + (i - Len(rows))
    BY <1>3, <1>9 DEF NewRows
  <2> QED BY <2>1, <1>8, <1>9
<1>12. \A i \in DOMAIN rows : i \in DOMAIN rows' /\ rows'[i] = rows[i]
  BY <1>3, <1>9
<1>13. \A j \in 1 .. n : Len(rows) + j \in NewRows /\ rows'[Len(rows) + j] = q[j].row
  BY <1>8, <1>9, <1>10
<1>14. q \in [1 .. Len(q) -> Written(L, V, declined)] /\ Len(q) \in Nat
  BY <1>2 DEF W
<1> QED BY <1>3, <1>9, <1>11, <1>12, <1>13, <1>14

\* A new row comes from a candidate of L.
LEMMA NewRowFrom ==
    ASSUME Types, NEW L, NEW V, NEW declined, NEW q, NEW n, NEW unqueued,
           Inserts(L, V, declined, q, n, unqueued), NEW i \in NewRows
    PROVE  \E w \in Written(L, V, declined), p \in L :
               /\ w = q[i - Len(rows)] /\ rows'[i] = w.row
               /\ Origin(w, p, V[p], declined)
<1>1. /\ i - Len(rows) \in 1 .. n /\ rows'[i] = q[i - Len(rows)].row
      /\ q \in [1 .. Len(q) -> Written(L, V, declined)]
      /\ n \in Nat /\ Len(q) \in Nat /\ Len(rows) \in Nat
  BY InsertRows
<1>2. L \in SUBSET Pending /\ V \in [L -> Verdicts] /\ n \in 0 .. Len(q)
  BY DEF Inserts, Candidates
<1>3. i - Len(rows) \in 1 .. Len(q)
  BY <1>1, <1>2
<1> DEFINE w == q[i - Len(rows)]
<1>4. w \in Written(L, V, declined)
  BY <1>1, <1>3
<1>5. PICK p \in L : Origin(w, p, V[p], declined)
  BY <1>2, <1>4, WrittenFrom
<1> QED BY <1>1, <1>4, <1>5

\* The body of LockoutHolds.
LockoutKept ==
    \A i \in NewRows :
        LET row   == rows'[i]
            known == FillsOf(row.strat, row.cand.mkt) IN
        row.out = "queued" =>
            \A f \in known :
                (\A g \in known : g.id <= f.id) =>
                    row.cand.ts - rows[f.row].cand.ts >= Lockout

\* What an insertion queues is not within the lockout.
LEMMA InsertLocks ==
    ASSUME Types, NewestFillLocks,
           NEW L, NEW V, NEW declined, NEW q, NEW n, NEW unqueued,
           Inserts(L, V, declined, q, n, unqueued)
    PROVE  LockoutKept
<1> SUFFICES ASSUME NEW i \in NewRows, rows'[i].out = "queued",
                    NEW f \in FillsOf(rows'[i].strat, rows'[i].cand.mkt),
                    \A g \in FillsOf(rows'[i].strat, rows'[i].cand.mkt) : g.id <= f.id
             PROVE  rows'[i].cand.ts - rows[f.row].cand.ts >= Lockout
  BY DEF LockoutKept
<1>1. PICK w \in Written(L, V, declined), p \in L :
          rows'[i] = w.row /\ Origin(w, p, V[p], declined)
  BY NewRowFrom
<1> DEFINE c == rows'[i].cand
           s == rows'[i].strat
           e == lastEntry[<<s, c.mkt>>]
<1>2. s \in Strategies /\ ~Locked(s, c) /\ c \in Candidate
  BY <1>1 DEF Origin, Row
<1>3. rows[f.row].cand.ts <= e
  BY <1>2 DEF NewestFillLocks, Candidate
<1>4. ~(c.ts - e < Lockout)
  BY <1>2 DEF Locked
<1>5. c.ts \in Int /\ e \in Int /\ rows[f.row].cand.ts \in Int /\ Lockout \in Nat
  <2>1. <<s, c.mkt>> \in Strategies \X Markets
    BY <1>2 DEF Candidate
  <2>2. f.row \in DOMAIN rows /\ rows[f.row] \in Row
    BY DEF FillsOf, Types, TypeOK
  <2> QED BY <1>2, <2>1, <2>2, ConstantsOK DEF Types, TypeOK, Candidate, Row
<1> HIDE DEF e
<1> QED BY <1>3, <1>4, <1>5

\* Orders, strategies and stamps survive an insertion.
LEMMA InsertKeeps ==
    ASSUME Types, StrategiesTrade, OnceEach, Stamped, NewestFillLocks,
           NEW L, NEW V, NEW declined, NEW q, NEW n, NEW unqueued,
           Inserts(L, V, declined, q, n, unqueued),
           UNCHANGED <<now, lastEntry, trades, fills>>
    PROVE  /\ \A i \in DOMAIN rows' : rows'[i] \in Row
           /\ \A o \in orders' : o.row \in DOMAIN rows' /\ rows'[o.row].out = "queued"
           /\ \A t \in fills' : /\ t.id \in 1 .. trades' /\ t.row \in DOMAIN rows'
                            /\ rows'[t.row].out = "filled"
           /\ StrategiesTrade' /\ OnceEach' /\ NewestFillLocks'
           /\ \A i \in DOMAIN rows' : rows'[i].cand.ts <= now'
           /\ \A t \in fills' : rows'[t.row].cand.ts <= t.at
<1>1. /\ n \in Nat /\ Len(rows) \in Nat
      /\ DOMAIN rows = 1 .. Len(rows) /\ DOMAIN rows' = 1 .. (Len(rows) + n)
      /\ rows' \in Seq(Row)
      /\ \A i \in DOMAIN rows : i \in DOMAIN rows' /\ rows'[i] = rows[i]
      /\ \A j \in 1 .. n : /\ Len(rows) + j \in NewRows
                           /\ rows'[Len(rows) + j] = q[j].row
  BY InsertRows
<1>2. ASSUME NEW i \in NewRows
      PROVE  /\ rows'[i].out # "filled" /\ rows'[i].cand.ts <= now
             /\ rows'[i].out = "queued" => rows'[i].strat \in Strategies
  <2>1. PICK w \in Written(L, V, declined), p \in L :
            rows'[i] = w.row /\ Origin(w, p, V[p], declined)
    BY NewRowFrom
  <2>2. p.cand.ts <= now
    BY DEF Inserts, Candidates
  <2> QED BY <2>1, <2>2 DEF Origin
<1>3. \A i \in DOMAIN rows' : rows'[i] \in Row
  BY <1>1
<1>4. ASSUME NEW o \in orders', o \notin orders
      PROVE  /\ o.row \in NewRows /\ rows'[o.row].out = "queued"
             /\ o.row > Len(rows) /\ o = [row |-> o.row, due |-> now + Latency]
  <2>1. PICK j \in 1 .. n : /\ q[j].row.out = "queued"
                            /\ o = [row |-> Len(rows) + j, due |-> now + Latency]
    BY <1>4 DEF Inserts, Insert
  <2>2. o.row = Len(rows) + j
    BY <2>1
  <2> QED BY <1>1, <2>1, <2>2
<1>5. ASSUME NEW o \in orders
      PROVE  o.row \in DOMAIN rows /\ rows[o.row].out = "queued" /\ o.row <= Len(rows)
  BY <1>1 DEF Types, TypeOK
<1>6. \A o \in orders' : o.row \in DOMAIN rows' /\ rows'[o.row].out = "queued"
  BY <1>1, <1>4, <1>5 DEF NewRows
<1>7. ASSUME NEW t \in fills
      PROVE  /\ t.id \in 1 .. trades
             /\ t.row \in DOMAIN rows /\ rows[t.row].out = "filled" /\ t.row <= Len(rows)
             /\ rows'[t.row] = rows[t.row] /\ t.row \in DOMAIN rows'
  BY <1>1 DEF Types, TypeOK
<1>8. StrategiesTrade'
  BY <1>1, <1>2 DEF StrategiesTrade, NewRows
<1>9. OnceEach'
  <2>1. ASSUME NEW o \in orders', NEW p \in orders', o.row = p.row
        PROVE  o = p
    <3>1. CASE o \in orders /\ p \in orders
      BY <2>1, <3>1 DEF OnceEach
    <3>2. CASE o \notin orders /\ p \notin orders
      BY <1>4, <2>1, <3>2
    <3>3. CASE o \in orders /\ p \notin orders
      BY <1>1, <1>4, <1>5, <2>1, <3>3
    <3>4. CASE o \notin orders /\ p \in orders
      BY <1>1, <1>4, <1>5, <2>1, <3>4
    <3> QED BY <3>1, <3>2, <3>3, <3>4
  <2>2. \A f, g \in fills' : f.id = g.id => f = g
    BY DEF OnceEach
  <2> QED BY <2>1, <2>2 DEF OnceEach
<1>10. ASSUME NEW s, NEW m PROVE FillsOf(s, m)' = FillsOf(s, m)
  BY <1>7 DEF FillsOf
<1>11. NewestFillLocks'
  <2> SUFFICES ASSUME NEW s \in Strategies, NEW m \in Markets, NEW f \in FillsOf(s, m)',
                      \A g \in FillsOf(s, m)' : g.id <= f.id
               PROVE  rows'[f.row].cand.ts <= lastEntry'[<<s, m>>]
    BY DEF NewestFillLocks
  <2>1. f \in FillsOf(s, m) /\ \A g \in FillsOf(s, m) : g.id <= f.id
    BY <1>10
  <2>2. f \in fills
    BY <2>1 DEF FillsOf
  <2> QED BY <1>7, <2>1, <2>2 DEF NewestFillLocks
<1>12. \A i \in DOMAIN rows' : rows'[i].cand.ts <= now'
  BY <1>1, <1>2 DEF Stamped, NewRows
<1>13. \A t \in fills' : rows'[t.row].cand.ts <= t.at
  BY <1>7 DEF Stamped
<1> QED BY <1>3, <1>6, <1>7, <1>8, <1>9, <1>11, <1>12, <1>13

LEMMA DecisionsFinite ==
    ASSUME Types, NEW c, NEW s
    PROVE  /\ IsFiniteSet(Decisions(c, s))
           /\ Cardinality(Decisions(c, s)) \in Nat
<1>1. Len(rows) \in Nat /\ DOMAIN rows = 1 .. Len(rows)
  BY LenProperties DEF Types
<1>2. Decisions(c, s) \in SUBSET (1 .. Len(rows))
  BY <1>1 DEF Decisions
<1>3. IsFiniteSet(1 .. Len(rows))
  BY <1>1, FS_Interval
<1> QED BY <1>2, <1>3, FS_Subset, FS_CardinalityType

\* The order of the writes repeats none, loses none and puts Gate A first.
LEMMA InsertOrder ==
    ASSUME Types, NEW L, NEW V, NEW declined, NEW q, NEW n, NEW unqueued,
           Inserts(L, V, declined, q, n, unqueued)
    PROVE  /\ \A i, j \in 1 .. Len(q) : q[i] = q[j] => i = j
           /\ \A i, j \in 1 .. Len(q) : i < j => Before(q[i], q[j])
           /\ \A w \in Written(L, V, declined) : \E i \in 1 .. Len(q) : q[i] = w
<1>1. /\ L \in SUBSET Pending /\ V \in [L -> Verdicts] /\ IsFiniteSet(L)
      /\ q \in InOrder(Written(L, V, declined))
  BY DEF Inserts, Candidates
<1>2. \A w \in Written(L, V, declined) : w.nr \in Nat
  BY <1>1, WrittenFrom DEF Origin
<1> QED BY <1>1, <1>2, WrittenFinite, OrderFacts

\* An insertion decides a candidate at most once more for a strategy, and only
\* if it is one whose verdict writes.
LEMMA InsertCounts ==
    ASSUME Types, NEW L, NEW V, NEW declined, NEW q, NEW n, NEW unqueued,
           Inserts(L, V, declined, q, n, unqueued), NEW c, NEW s
    PROVE  /\ Cardinality(Decisions(c, s)) \in Nat
           /\ Cardinality(Decisions(c, s)') \in Nat
           /\ Cardinality(Decisions(c, s)') <= Cardinality(Decisions(c, s)) + 1
           /\ (\A p \in L : p.cand = c => V[p] = "wait") =>
                  Decisions(c, s)' = Decisions(c, s)
<1> DEFINE D   == Decisions(c, s)
           Dp  == Decisions(c, s)'
           New == {i \in NewRows : rows'[i].cand = c /\ rows'[i].strat = s}
<1>1. /\ Len(rows) \in Nat /\ n \in Nat /\ Len(q) \in Nat
      /\ DOMAIN rows = 1 .. Len(rows) /\ DOMAIN rows' = 1 .. (Len(rows) + n)
      /\ \A i \in DOMAIN rows : i \in DOMAIN rows' /\ rows'[i] = rows[i]
      /\ \A i \in NewRows : i - Len(rows) \in 1 .. n
  BY InsertRows
<1>2. Dp = D \cup New
  BY <1>1 DEF Decisions, NewRows
<1>7. \A i, j \in 1 .. Len(q) : q[i] = q[j] => i = j
  BY InsertOrder
<1>3. IsFiniteSet(D) /\ Cardinality(D) \in Nat
  BY DecisionsFinite
<1>4. ASSUME NEW i \in New, NEW j \in New PROVE i = j
  <2>1. PICK v \in Written(L, V, declined), p \in L :
            /\ v = q[i - Len(rows)] /\ rows'[i] = v.row /\ Origin(v, p, V[p], declined)
    BY NewRowFrom
  <2>2. PICK w \in Written(L, V, declined), p2 \in L :
            /\ w = q[j - Len(rows)] /\ rows'[j] = w.row /\ Origin(w, p2, V[p2], declined)
    BY NewRowFrom
  <2>3. v.row.cand = w.row.cand /\ v.row.strat = w.row.strat
    BY <2>1, <2>2
  <2>4. v = w
    BY <2>3, WrittenOnce DEF Inserts
  <2>5. /\ i - Len(rows) \in 1 .. Len(q) /\ j - Len(rows) \in 1 .. Len(q)
        /\ i \in Nat /\ j \in Nat
    BY <1>1 DEF NewRows, Inserts
  <2>6. i - Len(rows) = j - Len(rows)
    BY <1>7, <2>1, <2>2, <2>4, <2>5
  <2> QED BY <1>1, <2>5, <2>6
<1>5. CASE New = {}
  <2>1. Dp = D
    BY <1>2, <1>5
  <2> QED BY <1>3, <2>1
<1>6. CASE New # {}
  <2>1. PICK i \in New : New = {i}
    BY <1>4, <1>6
  <2>2. Dp = D \cup {i}
    BY <1>2, <2>1
  <2>3. /\ IsFiniteSet(Dp)
        /\ Cardinality(Dp) = IF i \in D THEN Cardinality(D) ELSE Cardinality(D) + 1
    BY <1>3, <2>2, FS_AddElement
  <2>4. Cardinality(Dp) \in Nat /\ Cardinality(Dp) <= Cardinality(D) + 1
    BY <1>3, <2>3
  <2>5. \E p \in L : p.cand = c /\ V[p] # "wait"
    <3>1. PICK w \in Written(L, V, declined), p \in L :
              rows'[i] = w.row /\ Origin(w, p, V[p], declined)
      BY NewRowFrom
    <3> QED BY <3>1 DEF Origin
  <2> QED BY <1>3, <2>4, <2>5
<1> QED BY <1>5, <1>6

\* The candidates of L wait already, or have just been reached by the cooldown.
Due(L) ==
    /\ \A c \in Candidate : c.ts <= lastCand[c.mkt] => c.ts <= lastCand'[c.mkt]
    /\ \A p \in L : \/ p \in pending
                    \/ /\ ~(p.cand.ts <= lastCand[p.cand.mkt])
                       /\ p.cand.ts <= lastCand'[p.cand.mkt]

LEMMA ChargedType ==
    ASSUME NEW c
    PROVE  /\ InPending(c) \in {0, 1} /\ InPending(c)' \in {0, 1}
           /\ Seen(c) \in {0, 1} /\ Seen(c)' \in {0, 1}
BY DEF InPending, Seen

\* A handler that replaces the list: every candidate it looked at is decided, or
\* was to be, or waits.
LEMMA FinishCharges ==
    ASSUME Types, Charged, NEW L, NEW V, NEW declined, NEW q, NEW n, NEW unqueued,
           Inserts(L, V, declined, q, n, unqueued), Due(L),
           pending' = {p \in L : V[p] = "wait"}, UNCHANGED <<abandoned, crashes>>
    PROVE  Charged'
<1> SUFFICES ASSUME NEW c \in Candidate, NEW s \in Strategies \cup {"none"}
             PROVE  Cardinality(Decisions(c, s)') + InPending(c)'
                        <= abandoned' + crashes' + Seen(c)'
  BY DEF Charged
<1> DEFINE k == Cardinality(Decisions(c, s))
           j == Cardinality(Decisions(c, s)')
<1>1. /\ k \in Nat /\ j \in Nat /\ j <= k + 1
      /\ (\A p \in L : p.cand = c => V[p] = "wait") => j = k
  BY InsertCounts
<1>2. k + InPending(c) <= abandoned + crashes + Seen(c)
  BY DEF Charged
<1>3. abandoned \in Nat /\ crashes \in Nat /\ abandoned' = abandoned /\ crashes' = crashes
  BY DEF Types
<1> HIDE DEF k, j
<1>4. Seen(c) <= Seen(c)'
  BY DEF Due, Seen
<1>5. CASE \A p \in L : p.cand # c
  <2>1. InPending(c)' = 0
    BY <1>5 DEF InPending
  <2>2. j = k
    BY <1>1, <1>5
  <2> QED BY <1>1, <1>2, <1>3, <1>4, <2>1, <2>2, ChargedType DEF j
<1>6. ASSUME NEW p \in L, p.cand = c
      PROVE  j + InPending(c)' <= abandoned' + crashes' + Seen(c)'
  <2>1. \A r \in L : r.cand = c => r = p
    BY <1>6 DEF Inserts, Candidates
  <2>2. j + InPending(c)' <= k + 1
    <3>1. CASE V[p] = "wait"
      <4>1. j = k
        BY <1>1, <2>1, <3>1
      <4> QED BY <1>1, <4>1, ChargedType
    <3>2. CASE V[p] # "wait"
      <4>1. InPending(c)' = 0
        BY <2>1, <3>2 DEF InPending
      <4> QED BY <1>1, <4>1
    <3> QED BY <3>1, <3>2
  <2>3. k + 1 <= abandoned + crashes + Seen(c)'
    <3>1. CASE p \in pending
      <4>1. InPending(c) = 1
        BY <1>6, <3>1 DEF InPending
      <4> QED BY <1>1, <1>2, <1>3, <1>4, <4>1, ChargedType
    <3>2. CASE p \notin pending
      <4>1. Seen(c) = 0 /\ Seen(c)' = 1
        BY <1>6, <3>2 DEF Due, Seen
      <4> QED BY <1>1, <1>2, <1>3, <4>1, ChargedType
    <3> QED BY <3>1, <3>2
  <2> QED BY <1>1, <1>3, <2>2, <2>3, ChargedType
<1> QED BY <1>5, <1>6 DEF j

\* A handler that leaves the list as it was: its failure pays for what is repeated.
LEMMA InterruptionCharges ==
    ASSUME Types, Charged, NEW L, NEW V, NEW declined, NEW q, NEW n, NEW unqueued,
           Inserts(L, V, declined, q, n, unqueued), Due(L),
           pending' = pending, abandoned' = abandoned + 1, crashes' = crashes
    PROVE  Charged'
<1> SUFFICES ASSUME NEW c \in Candidate, NEW s \in Strategies \cup {"none"}
             PROVE  Cardinality(Decisions(c, s)') + InPending(c)'
                        <= abandoned' + crashes' + Seen(c)'
  BY DEF Charged
<1> DEFINE k == Cardinality(Decisions(c, s))
           j == Cardinality(Decisions(c, s)')
<1>1. k \in Nat /\ j \in Nat /\ j <= k + 1
  BY InsertCounts
<1>2. k + InPending(c) <= abandoned + crashes + Seen(c)
  BY DEF Charged
<1>3. abandoned \in Nat /\ crashes \in Nat
  BY DEF Types
<1> HIDE DEF k, j
<1>4. Seen(c) <= Seen(c)' /\ InPending(c)' = InPending(c)
  BY DEF Due, Seen, InPending
<1>5. j + InPending(c)' <= abandoned' + crashes' + Seen(c)'
  BY <1>1, <1>2, <1>3, <1>4, ChargedType
<1> QED BY <1>5 DEF j

\* As long as nothing was abandoned, a candidate that waits or is new has no
\* row yet.
LEMMA DueIsUndecided ==
    ASSUME Types, Charged, abandoned + crashes = 0, NEW L \in SUBSET Pending, Due(L),
           NEW p \in L, NEW s \in Strategies \cup {"none"}
    PROVE  Decisions(p.cand, s) = {}
<1> DEFINE k == Cardinality(Decisions(p.cand, s))
<1>1. k \in Nat
  BY DecisionsFinite
<1>2. k + InPending(p.cand) <= 0 + Seen(p.cand)
  BY DEF Charged, Pending
<1>3. k = 0
  <2>1. CASE p \in pending
    <3>1. InPending(p.cand) = 1
      BY <2>1 DEF InPending
    <3> QED BY <1>1, <1>2, <3>1, ChargedType
  <2>2. CASE p \notin pending
    <3>1. Seen(p.cand) = 0
      BY <2>2 DEF Due, Seen
    <3> QED BY <1>1, <1>2, <3>1, ChargedType
  <2> QED BY <2>1, <2>2
<1> QED BY <1>3, DecisionsFinite, FS_EmptySet

\* Gate A writes before the price-only sleeve, so that no failure leaves the row
\* of the second without that of the first.
LEMMA FinishKeepsOneKind ==
    ASSUME Types, Charged, OneKind,
           NEW L, NEW V, NEW declined, NEW q, NEW n, NEW unqueued,
           Inserts(L, V, declined, q, n, unqueued), Due(L),
           UNCHANGED <<abandoned, crashes>>
    PROVE  OneKind'
<1> DEFINE After(c, s) == {l \in DOMAIN rows' : rows'[l].cand = c /\ rows'[l].strat = s}
<1> SUFFICES ASSUME abandoned + crashes = 0, NEW i \in DOMAIN rows'
             PROVE  rows'[i].strat = "none" <=> After(rows'[i].cand, "gate_a") = {}
  BY DEF OneKind, Decisions
<1>0. L \in SUBSET Pending /\ V \in [L -> Verdicts]
  BY DEF Inserts, Candidates
<1>6. /\ n \in Nat /\ Len(rows) \in Nat
      /\ DOMAIN rows = 1 .. Len(rows) /\ DOMAIN rows' = 1 .. (Len(rows) + n)
      /\ rows' \in Seq(Row)
      /\ \A l \in DOMAIN rows : l \in DOMAIN rows' /\ rows'[l] = rows[l]
      /\ \A l \in 1 .. n : /\ Len(rows) + l \in NewRows
                           /\ rows'[Len(rows) + l] = q[l].row
      /\ \A l \in NewRows : /\ l - Len(rows) \in 1 .. n
                            /\ rows'[l] = q[l - Len(rows)].row
      /\ q \in [1 .. Len(q) -> Written(L, V, declined)]
      /\ Len(q) \in Nat
  BY ONLY InsertRows, Types, Inserts(L, V, declined, q, n, unqueued)
<1>1. /\ Len(rows) \in Nat /\ Len(q) \in Nat /\ n \in Nat /\ rows \in Seq(Row)
      /\ DOMAIN rows = 1 .. Len(rows)
      /\ \A l \in DOMAIN rows : l \in DOMAIN rows' /\ rows'[l] = rows[l]
      /\ \A l \in 1 .. n : Len(rows) + l \in NewRows /\ rows'[Len(rows) + l] = q[l].row
      /\ \A l \in NewRows : l - Len(rows) \in 1 .. n
  BY <1>6 DEF Types
<1>5. n <= Len(q)
  BY <1>1 DEF Inserts
<1>4. ASSUME NEW c, \A p \in L : p.cand # c
      PROVE  After(c, "gate_a") = Decisions(c, "gate_a")
  <2>1. Decisions(c, "gate_a")' = Decisions(c, "gate_a")
    BY <1>4, InsertCounts
  <2> QED BY <2>1 DEF Decisions
<1>2. CASE i \in DOMAIN rows
  <2> DEFINE c == rows[i].cand
  <2>1. rows[i] \in Row /\ i \in Decisions(c, rows[i].strat)
    BY <1>1, <1>2 DEF Decisions
  <2>2. \A p \in L : p.cand # c
    BY <1>0, <2>1, DueIsUndecided DEF Row
  <2>3. After(c, "gate_a") = Decisions(c, "gate_a")
    BY <1>4, <2>2
  <2>4. rows'[i] = rows[i]
    BY <1>1, <1>2
  <2>5. rows[i].strat = "none" <=> Decisions(c, "gate_a") = {}
    BY <1>2 DEF OneKind
  <2> QED BY <2>3, <2>4, <2>5
<1>3. CASE i \in NewRows
  <2>1. PICK w \in Written(L, V, declined), p \in L :
            /\ w = q[i - Len(rows)] /\ rows'[i] = w.row
            /\ Origin(w, p, V[p], declined)
    BY <1>3, NewRowFrom
  <2>2. rows'[i].cand = p.cand
    BY <2>1 DEF Origin
  <2>3. CASE V[p] = "act"
    <3>1. rows'[i].strat # "none"
      BY <2>1, <2>3 DEF Origin, Strategies
    <3> DEFINE v == [nr |-> p.nr, row |-> Decision("gate_a", p.cand, declined)]
    <3>2. v \in Written(L, V, declined)
      BY <1>0, <2>3, WrittenBy DEF Strategies
    <3>3. PICK l \in 1 .. Len(q) : q[l] = v
      BY <3>2, InsertOrder
    <3> DEFINE j == i - Len(rows)
    <3>7. j \in 1 .. n /\ w = q[j] /\ w.nr = p.nr /\ w.row.strat \in Strategies
      BY <1>1, <1>3, <2>1, <2>3 DEF Origin
    <3>8. l <= j
      <4>1. ASSUME j < l PROVE FALSE
        <5>1. Before(w, v)
          <6>1. j \in 1 .. Len(q)
            BY <1>1, <1>5, <3>7
          <6> QED BY <3>3, <3>7, <4>1, <6>1, InsertOrder
        <5>2. v.nr = p.nr /\ v.row.strat = "gate_a" /\ p.nr \in Nat
          BY <1>0 DEF Decision, Pending
        <5> QED BY <3>7, <5>1, <5>2 DEF Before
      <4> QED BY <1>1, <3>3, <3>7, <4>1
    <3>9. l \in 1 .. n
      BY <1>1, <3>3, <3>7, <3>8
    <3>4. rows'[Len(rows) + l] = Decision("gate_a", p.cand, declined)
      BY <1>1, <3>3, <3>9
    <3>5. Len(rows) + l \in DOMAIN rows'
      BY <1>1, <3>9 DEF NewRows
    <3>6. /\ rows'[Len(rows) + l].cand = p.cand
          /\ rows'[Len(rows) + l].strat = "gate_a"
      BY <3>4 DEF Decision
    <3> QED BY <2>2, <3>1, <3>5, <3>6
  <2>4. CASE V[p] # "act"
    <3>1. rows'[i].strat = "none"
      BY <2>1, <2>4 DEF Origin
    <3>2. ASSUME NEW l \in DOMAIN rows', rows'[l].cand = p.cand, rows'[l].strat = "gate_a"
          PROVE  FALSE
      <4>1. CASE l \in DOMAIN rows
        <5>1. l \in Decisions(p.cand, "gate_a")
          BY <1>1, <3>2, <4>1 DEF Decisions
        <5> QED BY <1>0, <5>1, DueIsUndecided DEF Strategies
      <4>2. CASE l \in NewRows
        <5>1. PICK x \in Written(L, V, declined), r \in L :
                  rows'[l] = x.row /\ Origin(x, r, V[r], declined)
          BY <4>2, NewRowFrom
        <5>2. r = p
          BY <3>2, <5>1 DEF Origin, Inserts, Candidates
        <5> QED BY <2>4, <3>2, <5>1, <5>2 DEF Origin
      <4> QED BY <4>1, <4>2 DEF NewRows
    <3> QED BY <2>2, <3>1, <3>2
  <2> QED BY <2>3, <2>4
<1> QED BY <1>2, <1>3 DEF NewRows

\* What a handler may do to the detector's part of the state.
DetectorMoves ==
    /\ bursts' \in [Markets -> SUBSET [ts : Int, sign : Signs]]
    /\ lastCand' \in [Markets -> Int]
    /\ episodes' \in Nat /\ alive' \in BOOLEAN

LEMMA FinishKeeps ==
    ASSUME IInv, NEW L, NEW V, NEW declined, NEW q, NEW n, NEW unqueued,
           Inserts(L, V, declined, q, n, unqueued), Due(L), DetectorMoves,
           pending' = {p \in L : V[p] = "wait"}, PendingIsUnconfirmed', faults' \in Nat,
           UNCHANGED <<now, lastEntry, trades, fills, abandoned, crashes>>
    PROVE  IInv' /\ LockoutKept
<1> USE DEF IInv
<1>0. Candidates(L) /\ pending' \subseteq L
  BY DEF Inserts
<1>1. /\ rows' \in Seq(Row)
      /\ \A i \in DOMAIN rows' : rows'[i] \in Row
      /\ \A o \in orders' : o.row \in DOMAIN rows' /\ rows'[o.row].out = "queued"
      /\ \A t \in fills' : /\ t.id \in 1 .. trades' /\ t.row \in DOMAIN rows'
                            /\ rows'[t.row].out = "filled"
      /\ StrategiesTrade' /\ OnceEach' /\ NewestFillLocks'
      /\ \A i \in DOMAIN rows' : rows'[i].cand.ts <= now'
      /\ \A t \in fills' : rows'[t.row].cand.ts <= t.at
  BY InsertKeeps, InsertRows
<1>2. Types'
  <2>1. pending' \subseteq Pending /\ IsFiniteSet(pending')
    BY <1>0, FS_Subset DEF Candidates
  <2>2. /\ now' \in 0 .. MaxTime /\ lastEntry' \in [Strategies \X Markets -> Int]
        /\ abandoned' \in Nat /\ trades' \in Nat /\ crashes' \in Nat
        /\ \A t \in fills' : t.at \in Int
    BY DEF Types, TypeOK
  <2>3. TypeOK'
    BY <1>1, <2>1, <2>2 DEF TypeOK, DetectorMoves
  <2> QED BY <1>1, <2>1, <2>2, <2>3 DEF Types, DetectorMoves
<1>3. Stamped'
  BY <1>0, <1>1 DEF Stamped, Candidates
<1>4. WaitsOnce'
  <2>1. ASSUME NEW p \in pending' PROVE p.cand.ts <= lastCand'[p.cand.mkt]
    <3>1. p \in L /\ p.cand \in Candidate
      BY <1>0 DEF Candidates, Pending
    <3>2. p \in pending => p.cand.ts <= lastCand[p.cand.mkt]
      BY DEF WaitsOnce
    <3> QED BY <3>1, <3>2 DEF Due
  <2> QED BY <1>0, <2>1 DEF WaitsOnce, Candidates
<1>5. Charged'
  BY FinishCharges
<1>6. OneKind'
  BY FinishKeepsOneKind
<1>7. LockoutKept
  BY InsertLocks
<1> QED BY <1>1, <1>2, <1>3, <1>4, <1>5, <1>6, <1>7

LEMMA InterruptionKeeps ==
    ASSUME IInv, NEW L, NEW V, NEW declined, NEW q, NEW n, NEW unqueued,
           Inserts(L, V, declined, q, n, unqueued), Due(L), DetectorMoves,
           pending' = pending, abandoned' = abandoned + 1, faults' \in Nat,
           UNCHANGED <<now, lastEntry, trades, fills, crashes>>
    PROVE  IInv' /\ LockoutKept
<1> USE DEF IInv
<1>1. /\ rows' \in Seq(Row)
      /\ \A i \in DOMAIN rows' : rows'[i] \in Row
      /\ \A o \in orders' : o.row \in DOMAIN rows' /\ rows'[o.row].out = "queued"
      /\ \A t \in fills' : /\ t.id \in 1 .. trades' /\ t.row \in DOMAIN rows'
                            /\ rows'[t.row].out = "filled"
      /\ StrategiesTrade' /\ OnceEach' /\ NewestFillLocks'
      /\ \A i \in DOMAIN rows' : rows'[i].cand.ts <= now'
      /\ \A t \in fills' : rows'[t.row].cand.ts <= t.at
  BY InsertKeeps, InsertRows
<1>2. /\ now' \in 0 .. MaxTime /\ lastEntry' \in [Strategies \X Markets -> Int]
      /\ abandoned \in Nat /\ crashes \in Nat
      /\ abandoned' \in Nat /\ trades' \in Nat /\ crashes' \in Nat
      /\ \A t \in fills' : t.at \in Int
      /\ pending' \subseteq Pending /\ IsFiniteSet(pending')
  BY DEF Types, TypeOK
<1>3. TypeOK'
  BY <1>1, <1>2 DEF TypeOK, DetectorMoves
<1>4. Types'
  BY <1>1, <1>2, <1>3 DEF Types, DetectorMoves
<1>5. Stamped'
  BY <1>1 DEF Stamped
<1>6. WaitsOnce'
  BY <1>2 DEF WaitsOnce, Due, Pending
<1>7. Charged'
  BY InterruptionCharges
<1>8. OneKind' /\ PendingIsUnconfirmed'
  <2>1. abandoned' # 0 /\ abandoned' + crashes' # 0
    BY <1>2
  <2> QED BY <2>1 DEF OneKind, PendingIsUnconfirmed
<1>9. LockoutKept
  BY InsertLocks
<1> QED BY <1>1, <1>4, <1>5, <1>6, <1>7, <1>8, <1>9

-----------------------------------------------------------------------------
(***************************************************************************)
(* Trades                                                                  *)
(***************************************************************************)

\* The verdicts of a trade on the pending candidates and on its own.
TradeVerdicts(m, fresh, book) ==
    [p \in pending \cup fresh |->
        IF p \in pending THEN Verdict(p, m, book) ELSE FreshVerdict(p.cand, book)]

\* A trade that Next allows, taken by the detector.
TradeTaken(m, ts, sign, sweep) ==
    /\ m \in Markets /\ ts \in (now - MaxLag) .. now
    /\ sign \in {-1, 0, 1} /\ sweep \in BOOLEAN /\ (sweep => sign # 0)
    /\ OnTrade(m, ts, sign, sweep)

\* The candidate of a trade is beyond the cooldown of its market.
LEMMA FreshFacts ==
    ASSUME Types, WaitsOnce, NEW m, NEW ts, NEW sign, NEW sweep,
           TradeTaken(m, ts, sign, sweep),
           NEW fresh, fresh = Fresh(m, ts, sign, sweep)
    PROVE  /\ fresh \subseteq Pending /\ IsFiniteSet(fresh)
           /\ \A p, q \in fresh : p = q
           /\ \A p \in fresh : /\ p.cand.ts <= now
                               /\ p \notin pending
                               /\ \A r \in pending : r.cand # p.cand
           /\ Due(pending \cup fresh)
           /\ bursts' \in [Markets -> SUBSET [ts : Int, sign : Signs]]
           /\ \A l \in Markets \ {m} : bursts'[l] = bursts[l]
           /\ lastCand' \in [Markets -> Int] /\ episodes' \in Nat
<1> DEFINE p0 == [nr |-> episodes + 1, cand |-> [mkt |-> m, ts |-> ts, sign |-> sign],
                  queuedAt |-> now, deadline |-> now + Wait]
<1>0. /\ m \in Markets /\ sign \in {-1, 0, 1} /\ (sweep => sign # 0)
      /\ OnTrade(m, ts, sign, sweep)
  BY DEF TradeTaken
<1>1. /\ now \in Nat /\ ts \in Int /\ ts <= now /\ Wait \in Nat /\ episodes \in Nat
      /\ Cooldown \in Nat /\ Cooldown > 0 /\ lastCand[m] \in Int
      /\ lastCand \in [Markets -> Int]
      /\ bursts \in [Markets -> SUBSET [ts : Int, sign : Signs]]
  BY ConstantsOK DEF Types, TypeOK, TradeTaken
<1>2. /\ bursts' \in [Markets -> SUBSET [ts : Int, sign : Signs]]
      /\ \A l \in Markets \ {m} : bursts'[l] = bursts[l]
  <2>1. CASE sign = 0
    BY <1>0, <1>1, <2>1 DEF OnTrade
  <2>2. CASE sign # 0
    <3>1. [ts |-> ts, sign |-> sign] \in [ts : Int, sign : Signs]
      BY <1>0, <1>1, <2>2 DEF Signs
    <3>2. bursts' = [bursts EXCEPT ![m] = bursts[m] \cup {[ts |-> ts, sign |-> sign]}]
      BY <1>0, <2>2 DEF OnTrade
    <3>3. bursts[m] \cup {[ts |-> ts, sign |-> sign]} \in SUBSET [ts : Int, sign : Signs]
      BY <1>0, <1>1, <3>1
    <3> QED BY <1>0, <1>1, <3>2, <3>3
  <2> QED BY <2>1, <2>2
<1>3. CASE Emits(m, ts, sweep)
  <2>1. fresh = {p0}
    BY <1>0, <1>3 DEF Fresh
  <2>2. sweep /\ ts - lastCand[m] >= Cooldown
    BY <1>0, <1>3 DEF Emits
  <2>3. ts > lastCand[m]
    BY <1>0, <1>1, <2>2
  <2>4. p0 \in Pending /\ p0.cand.mkt = m /\ p0.cand.ts = ts
    BY <1>0, <1>1, <2>2 DEF Pending, Candidate, Signs
  <2>5. lastCand' = [lastCand EXCEPT ![m] = ts] /\ episodes' = episodes + 1
    BY <1>0, <1>3 DEF OnTrade
  <2>6. lastCand' \in [Markets -> Int] /\ lastCand'[m] = ts /\ episodes' \in Nat
    BY <1>0, <1>1, <2>5
  <2>7. ASSUME NEW c \in Candidate, c.ts <= lastCand[c.mkt]
        PROVE  c.ts <= lastCand'[c.mkt]
    <3>1. c.ts \in Int /\ c.mkt \in Markets
      BY DEF Candidate
    <3>2. CASE c.mkt = m
      BY <1>0, <1>1, <2>3, <2>6, <2>7, <3>1, <3>2
    <3>3. CASE c.mkt # m
      BY <1>0, <1>1, <2>5, <2>7, <3>1, <3>3
    <3> QED BY <3>2, <3>3
  <2>8. \A r \in pending : r.cand # p0.cand
    BY <1>0, <1>1, <2>3, <2>4 DEF WaitsOnce
  <2>9. Due(pending \cup fresh)
    BY <1>0, <1>1, <2>1, <2>3, <2>4, <2>6, <2>7 DEF Due
  <2>10. IsFiniteSet(fresh)
    BY <2>1, FS_Singleton
  <2> HIDE DEF p0
  <2> QED BY <1>0, <1>1, <1>2, <2>1, <2>4, <2>6, <2>8, <2>9, <2>10
<1>4. CASE ~Emits(m, ts, sweep)
  <2>1. fresh = {} /\ lastCand' = lastCand /\ episodes' = episodes
    BY <1>0, <1>4 DEF Fresh, OnTrade
  <2>2. Due(pending \cup fresh)
    BY <2>1 DEF Due
  <2> QED BY <1>0, <1>1, <1>2, <2>1, <2>2, FS_EmptySet
<1> QED BY <1>3, <1>4

\* A trade looks at every pending candidate and at its own.
LEMMA TradeLooks ==
    ASSUME Types, WaitsOnce, Stamped, PendingIsUnconfirmed,
           NEW m, NEW ts, NEW sign, NEW sweep,
           TradeTaken(m, ts, sign, sweep), NEW declined,
           NEW fresh, fresh = Fresh(m, ts, sign, sweep),
           NEW L, L = pending \cup fresh,
           NEW V, V = TradeVerdicts(m, fresh, bursts')
    PROVE  /\ Candidates(L) /\ V \in [L -> Verdicts]
           /\ Writes(m, fresh, bursts', declined) = Written(L, V, declined)
           /\ Waiting(m, fresh, bursts') = {p \in L : V[p] = "wait"}
           /\ abandoned = 0 => \A p \in L : V[p] = "wait" => ~Confirmed(p.cand, bursts')
<1>1. /\ fresh \subseteq Pending /\ IsFiniteSet(fresh)
      /\ \A p, q \in fresh : p = q
      /\ \A p \in fresh : /\ p.cand.ts <= now
                          /\ p \notin pending
                          /\ \A r \in pending : r.cand # p.cand
      /\ \A l \in Markets \ {m} : bursts'[l] = bursts[l]
  BY FreshFacts
<1>2. Candidates(L)
  <2>1. L \subseteq Pending /\ IsFiniteSet(L)
    BY <1>1, FS_Union DEF Types, TypeOK
  <2> QED BY <1>1, <2>1 DEF Candidates, WaitsOnce, Stamped
<1>3. /\ \A p \in pending : V[p] = Verdict(p, m, bursts')
      /\ \A p \in fresh : V[p] = FreshVerdict(p.cand, bursts')
  BY <1>1 DEF TradeVerdicts
<1>4. V \in [L -> Verdicts]
  BY DEF TradeVerdicts, Verdict, FreshVerdict, Verdicts
<1>5. Writes(m, fresh, bursts', declined) = Written(L, V, declined)
  <2>1. \A p \in pending :
            Numbered(p, V[p], declined) = Numbered(p, Verdict(p, m, bursts'), declined)
    BY <1>3
  <2>2. \A p \in fresh :
            Numbered(p, V[p], declined) = Numbered(p, FreshVerdict(p.cand, bursts'), declined)
    BY <1>3
  <2>3. Written(L, V, declined) =
            (UNION {Numbered(p, V[p], declined) : p \in pending})
            \cup (UNION {Numbered(p, V[p], declined) : p \in fresh})
    BY DEF Written
  <2> QED BY <2>1, <2>2, <2>3 DEF Writes
<1>6. Waiting(m, fresh, bursts') = {p \in L : V[p] = "wait"}
  BY <1>3 DEF Waiting
<1>7. ASSUME abandoned = 0, NEW p \in L, V[p] = "wait"
      PROVE  ~Confirmed(p.cand, bursts')
  <2>1. CASE p \in fresh
    BY <1>3, <1>7, <2>1 DEF FreshVerdict
  <2>2. CASE p \in pending /\ p.cand.mkt # m
    BY <1>3, <1>7, <2>2 DEF Verdict
  <2>3. CASE p \in pending /\ p.cand.mkt = m
    <3>1. ~Confirmed(p.cand, bursts)
      BY <1>7, <2>3 DEF PendingIsUnconfirmed
    <3> QED BY <1>1, <2>3, <3>1 DEF Confirmed
  <2> QED BY <2>1, <2>2, <2>3
<1> QED BY <1>2, <1>4, <1>5, <1>6, <1>7

LEMMA TradeKeeps ==
    ASSUME IInv, NEW m \in Markets, NEW ts \in (now - MaxLag) .. now,
           NEW sign \in {-1, 0, 1}, NEW sweep \in BOOLEAN, sweep => sign # 0,
           NEW declined, Trade(m, ts, sign, sweep, declined)
    PROVE  IInv' /\ LockoutKept
<1> DEFINE fresh == Fresh(m, ts, sign, sweep)
           L     == pending \cup fresh
           V     == TradeVerdicts(m, fresh, bursts')
<1>1. /\ Types /\ WaitsOnce /\ Stamped /\ PendingIsUnconfirmed
      /\ TradeTaken(m, ts, sign, sweep)
  BY DEF IInv, Trade, TradeTaken
<1>2. /\ Candidates(L) /\ V \in [L -> Verdicts]
      /\ Writes(m, fresh, bursts', declined) = Written(L, V, declined)
      /\ Waiting(m, fresh, bursts') = {p \in L : V[p] = "wait"}
      /\ abandoned = 0 => \A p \in L : V[p] = "wait" => ~Confirmed(p.cand, bursts')
  <2> HIDE DEF fresh
  <2>1. fresh = Fresh(m, ts, sign, sweep)
    BY DEF fresh
  <2> HIDE DEF V
  <2>2. V = TradeVerdicts(m, fresh, bursts')
    BY DEF V
  <2>3. L = pending \cup fresh
    OBVIOUS
  <2> HIDE DEF L
  <2> QED BY <1>1, <2>1, <2>2, <2>3, TradeLooks
<1>3. /\ Due(L) /\ lastCand' \in [Markets -> Int] /\ episodes' \in Nat
      /\ bursts' \in [Markets -> SUBSET [ts : Int, sign : Signs]]
  BY <1>1, FreshFacts
<1>4. PICK q \in InOrder(Writes(m, fresh, bursts', declined)) : Insert(q, Len(q), FALSE)
  BY DEF Trade
<1>5. /\ pending' = Waiting(m, fresh, bursts')
      /\ UNCHANGED <<now, lastEntry, alive, trades, fills, abandoned, faults, crashes>>
  BY DEF Trade, budget
<1> HIDE DEF fresh, V
<1>6. Inserts(L, V, declined, q, Len(q), FALSE)
  <2>1. Len(q) \in Nat
    <3>1. IsFiniteSet(Written(L, V, declined))
      BY <1>2, WrittenFinite DEF Candidates
    <3>2. \A w \in Written(L, V, declined) : w.nr \in Nat
      BY <1>2, WrittenFrom DEF Candidates, Origin
    <3> QED BY <1>2, <1>4, <3>1, <3>2, OrderFacts
  <2>2. Len(q) \in 0 .. Len(q)
    BY <2>1
  <2> QED BY <1>2, <1>4, <2>2 DEF Inserts
<1>7. DetectorMoves
  BY <1>1, <1>3, <1>5 DEF DetectorMoves, Types, TypeOK
<1>8. PendingIsUnconfirmed'
  BY <1>2, <1>5 DEF PendingIsUnconfirmed
<1>9. faults' \in Nat
  BY <1>1, <1>5 DEF Types
<1> QED BY <1>2, <1>3, <1>5, <1>6, <1>7, <1>8, <1>9, FinishKeeps

\* The failure leaves the list as it was, or as a trade that finishes would.
LEMMA TradeInterruptedKeeps ==
    ASSUME IInv, NEW m \in Markets, NEW ts \in (now - MaxLag) .. now,
           NEW sign \in {-1, 0, 1}, NEW sweep \in BOOLEAN, sweep => sign # 0,
           NEW declined, NEW inserted \in BOOLEAN, NEW unqueued,
           TradeInterrupted(m, ts, sign, sweep, declined, inserted, unqueued)
    PROVE  IInv' /\ LockoutKept
<1> DEFINE fresh == Fresh(m, ts, sign, sweep)
           L     == pending \cup fresh
           V     == TradeVerdicts(m, fresh, bursts')
<1>1. /\ Types /\ WaitsOnce /\ Stamped /\ PendingIsUnconfirmed
      /\ TradeTaken(m, ts, sign, sweep)
  BY DEF IInv, TradeInterrupted, TradeTaken
<1>2. /\ Candidates(L) /\ V \in [L -> Verdicts]
      /\ Writes(m, fresh, bursts', declined) = Written(L, V, declined)
      /\ Waiting(m, fresh, bursts') = {p \in L : V[p] = "wait"}
      /\ abandoned = 0 => \A p \in L : V[p] = "wait" => ~Confirmed(p.cand, bursts')
  <2> HIDE DEF fresh
  <2>1. fresh = Fresh(m, ts, sign, sweep)
    BY DEF fresh
  <2> HIDE DEF V
  <2>2. V = TradeVerdicts(m, fresh, bursts')
    BY DEF V
  <2>3. L = pending \cup fresh
    OBVIOUS
  <2> HIDE DEF L
  <2> QED BY <1>1, <2>1, <2>2, <2>3, TradeLooks
<1>3. /\ Due(L) /\ lastCand' \in [Markets -> Int] /\ episodes' \in Nat
      /\ bursts' \in [Markets -> SUBSET [ts : Int, sign : Signs]]
  BY <1>1, FreshFacts
<1>4. PICK q \in InOrder(Writes(m, fresh, bursts', declined)) : \E k \in DOMAIN q :
          /\ Insert(q, IF inserted THEN k ELSE k - 1, unqueued)
          /\ \/ pending' = Waiting(m, fresh, bursts') /\ abandoned' = abandoned
             \/ pending' = pending /\ abandoned' = abandoned + 1
  BY DEF TradeInterrupted
<1>5. /\ faults' = faults + 1
      /\ UNCHANGED <<now, lastEntry, alive, trades, fills, crashes>>
  BY DEF TradeInterrupted
<1> HIDE DEF fresh, V
<1>6. PICK k \in DOMAIN q :
          /\ Insert(q, IF inserted THEN k ELSE k - 1, unqueued)
          /\ \/ pending' = Waiting(m, fresh, bursts') /\ abandoned' = abandoned
             \/ pending' = pending /\ abandoned' = abandoned + 1
  BY <1>4
<1> DEFINE n == IF inserted THEN k ELSE k - 1
<1>7. n \in 0 .. Len(q)
  <2>1. IsFiniteSet(Written(L, V, declined))
    BY <1>2, WrittenFinite DEF Candidates
  <2>2. \A w \in Written(L, V, declined) : w.nr \in Nat
    BY <1>2, WrittenFrom DEF Candidates, Origin
  <2>3. Len(q) \in Nat /\ DOMAIN q = 1 .. Len(q)
    BY <1>2, <2>1, <2>2, OrderFacts
  <2> QED BY <2>3
<1> HIDE DEF n
<1>8. Inserts(L, V, declined, q, n, unqueued)
  BY <1>2, <1>6, <1>7 DEF Inserts, n
<1>9. DetectorMoves
  BY <1>1, <1>3, <1>5 DEF DetectorMoves, Types, TypeOK
<1>10. faults' \in Nat
  BY <1>1, <1>5 DEF Types
<1>11. CASE pending' = Waiting(m, fresh, bursts') /\ abandoned' = abandoned
  <2>1. PendingIsUnconfirmed'
    BY <1>2, <1>11 DEF PendingIsUnconfirmed
  <2> QED BY <1>2, <1>3, <1>5, <1>8, <1>9, <1>10, <1>11, <2>1, FinishKeeps
<1>12. CASE pending' = pending /\ abandoned' = abandoned + 1
  BY <1>3, <1>5, <1>8, <1>9, <1>10, <1>12, InterruptionKeeps
<1> QED BY <1>6, <1>11, <1>12

-----------------------------------------------------------------------------
(***************************************************************************)
(* The expiry                                                              *)
(***************************************************************************)

ExpiryVerdicts == [p \in pending |-> IF p \in Expired THEN "unconfirmed" ELSE "wait"]

LEMMA ExpiryLooks ==
    ASSUME Types, WaitsOnce, Stamped, lastCand' = lastCand,
           NEW V, V = ExpiryVerdicts
    PROVE  /\ Candidates(pending) /\ V \in [pending -> Verdicts] /\ Due(pending)
           /\ ExpiryRows = Written(pending, V, {})
           /\ pending \ Expired = {p \in pending : V[p] = "wait"}
<1>1. Candidates(pending) /\ Due(pending)
  BY DEF Candidates, Types, TypeOK, WaitsOnce, Stamped, Due
<1>2. V \in [pending -> Verdicts] /\ Expired \subseteq pending
  BY DEF ExpiryVerdicts, Verdicts, Expired
<1>3. \A p \in pending : /\ p \in Expired => V[p] = "unconfirmed"
                         /\ p \notin Expired => V[p] = "wait"
  BY DEF ExpiryVerdicts
<1>4. \A p \in pending : p \notin Expired => Numbered(p, V[p], {}) = {}
  BY <1>3 DEF Numbered, RowsOf
<1>5. \A p \in Expired : Numbered(p, V[p], {}) = Numbered(p, "unconfirmed", {})
  BY <1>2, <1>3
<1>6. ExpiryRows = UNION {Numbered(p, V[p], {}) : p \in Expired}
  BY <1>5 DEF ExpiryRows
<1>7. ExpiryRows = Written(pending, V, {})
  BY <1>2, <1>4, <1>6 DEF Written
<1>8. pending \ Expired = {p \in pending : V[p] = "wait"}
  BY <1>3
<1> QED BY <1>1, <1>2, <1>7, <1>8

LEMMA ExpirePendingKeeps ==
    ASSUME IInv, ExpirePending
    PROVE  IInv' /\ LockoutKept
<1> DEFINE V == ExpiryVerdicts
<1>1. /\ Types /\ WaitsOnce /\ Stamped /\ PendingIsUnconfirmed
      /\ UNCHANGED <<now, bursts, lastCand, lastEntry, alive, trades, fills>>
      /\ UNCHANGED <<episodes, abandoned, faults, crashes>>
      /\ pending' = pending \ Expired
  BY DEF IInv, ExpirePending, history, budget
<1> HIDE DEF V
<1>2. /\ Candidates(pending) /\ V \in [pending -> Verdicts] /\ Due(pending)
      /\ ExpiryRows = Written(pending, V, {})
      /\ pending \ Expired = {p \in pending : V[p] = "wait"}
  BY <1>1, ExpiryLooks DEF V
<1>3. PICK q \in InOrder(ExpiryRows) : Insert(q, Len(q), FALSE)
  BY DEF ExpirePending
<1>4. Inserts(pending, V, {}, q, Len(q), FALSE)
  <2>1. IsFiniteSet(Written(pending, V, {}))
    BY <1>2, WrittenFinite DEF Candidates
  <2>2. \A w \in Written(pending, V, {}) : w.nr \in Nat
    BY <1>2, WrittenFrom DEF Candidates, Origin
  <2>3. Len(q) \in Nat
    BY <1>2, <1>3, <2>1, <2>2, OrderFacts
  <2>4. Len(q) \in 0 .. Len(q)
    BY <2>3
  <2> QED BY <1>2, <1>3, <2>4 DEF Inserts
<1>5. DetectorMoves
  BY <1>1 DEF DetectorMoves, Types, TypeOK
<1>6. PendingIsUnconfirmed'
  BY <1>1 DEF PendingIsUnconfirmed, Confirmed
<1>7. faults' \in Nat
  BY <1>1 DEF Types
<1> QED BY <1>1, <1>2, <1>4, <1>5, <1>6, <1>7, FinishKeeps

\* Without an expired candidate the pass decides nothing, and nothing is abandoned.
LEMMA ExpiryDiesKeeps ==
    ASSUME IInv, ExpiryDies
    PROVE  IInv' /\ LockoutKept
<1> DEFINE V == ExpiryVerdicts
<1>1. /\ Types /\ WaitsOnce /\ Stamped /\ PendingIsUnconfirmed
      /\ UNCHANGED <<now, bursts, lastCand, pending, lastEntry, trades, fills, episodes, crashes>>
      /\ alive' = FALSE /\ faults' = faults + 1
      /\ abandoned' = abandoned + (IF Expired = {} THEN 0 ELSE 1)
  BY DEF IInv, ExpiryDies
<1> HIDE DEF V
<1>2. /\ Candidates(pending) /\ V \in [pending -> Verdicts] /\ Due(pending)
      /\ ExpiryRows = Written(pending, V, {})
      /\ pending \ Expired = {p \in pending : V[p] = "wait"}
  BY <1>1, ExpiryLooks DEF V
<1>3. PICK q \in InOrder(ExpiryRows) : \E n \in 0 .. Len(q) : Insert(q, n, FALSE)
  BY DEF ExpiryDies
<1>4. PICK n \in 0 .. Len(q) : Insert(q, n, FALSE)
  BY <1>3
<1>5. Inserts(pending, V, {}, q, n, FALSE)
  BY <1>2, <1>3, <1>4 DEF Inserts
<1>6. DetectorMoves
  BY <1>1 DEF DetectorMoves, Types, TypeOK
<1>7. abandoned \in Nat /\ faults' \in Nat
  BY <1>1 DEF Types
<1>8. CASE Expired = {}
  <2>1. pending' = {p \in pending : V[p] = "wait"} /\ abandoned' = abandoned
    BY <1>1, <1>2, <1>7, <1>8
  <2>2. PendingIsUnconfirmed'
    BY <1>1, <2>1 DEF PendingIsUnconfirmed, Confirmed
  <2> QED BY <1>1, <1>2, <1>5, <1>6, <1>7, <2>1, <2>2, FinishKeeps
<1>9. CASE Expired # {}
  <2>1. abandoned' = abandoned + 1
    BY <1>1, <1>9
  <2> QED BY <1>1, <1>2, <1>5, <1>6, <1>7, <2>1, InterruptionKeeps
<1> QED BY <1>8, <1>9

-----------------------------------------------------------------------------
(***************************************************************************)
(* Fills and restarts                                                      *)
(***************************************************************************)

\* An execution changes the outcome of one row.
LEMMA ExecuteRows ==
    ASSUME IInv, NEW o \in orders, NEW filled \in BOOLEAN, Execute(o, filled)
    PROVE  /\ o.row \in DOMAIN rows /\ rows[o.row] \in Row
           /\ rows[o.row].out = "queued" /\ rows[o.row].strat \in Strategies
           /\ rows' \in Seq(Row) /\ DOMAIN rows' = DOMAIN rows
           /\ \A i \in DOMAIN rows : /\ rows'[i].cand = rows[i].cand
                                     /\ rows'[i].strat = rows[i].strat
                                     /\ i # o.row => rows'[i] = rows[i]
           /\ rows'[o.row].out = IF filled THEN "filled" ELSE "refused"
<1> DEFINE out == IF filled THEN "filled" ELSE "refused"
           new == [rows[o.row] EXCEPT !.out = out]
<1>1. /\ o.row \in DOMAIN rows /\ rows[o.row].out = "queued" /\ rows \in Seq(Row)
      /\ DOMAIN rows = 1 .. Len(rows) /\ Len(rows) \in Nat
  BY LenProperties DEF IInv, Types, TypeOK
<1>2. rows[o.row] \in Row /\ rows[o.row].strat \in Strategies
  BY <1>1 DEF IInv, StrategiesTrade
<1>3. /\ new \in Row /\ new.cand = rows[o.row].cand /\ new.strat = rows[o.row].strat
      /\ new.out = out
  BY <1>2 DEF Row, Outcomes
<1>4. rows' = [rows EXCEPT ![o.row] = new]
  BY DEF Execute
<1> HIDE DEF new, out
<1>5. /\ rows' \in Seq(Row) /\ Len(rows') = Len(rows)
      /\ \A i \in 1 .. Len(rows) : rows'[i] = IF i = o.row THEN new ELSE rows[i]
  BY <1>1, <1>3, <1>4, ExceptSeq
<1>6. DOMAIN rows' = DOMAIN rows
  BY <1>1, <1>4
<1>7. /\ rows'[o.row] = new
      /\ \A i \in DOMAIN rows : i # o.row => rows'[i] = rows[i]
  BY <1>1, <1>4
<1> QED BY <1>1, <1>2, <1>3, <1>5, <1>6, <1>7 DEF out

\* Whatever row it belongs to, the new fill is the newest of its strategy and
\* market: its trade has the last id.
LEMMA ExecuteKeeps ==
    ASSUME IInv, NEW o \in orders, NEW filled \in BOOLEAN, Execute(o, filled)
    PROVE  IInv'
<1> DEFINE row == rows[o.row]
           t0  == [id |-> trades + 1, row |-> o.row, at |-> now]
<1>1. /\ o.row \in DOMAIN rows /\ row \in Row
      /\ row.out = "queued" /\ row.strat \in Strategies
      /\ rows' \in Seq(Row) /\ DOMAIN rows' = DOMAIN rows
      /\ \A i \in DOMAIN rows : /\ rows'[i].cand = rows[i].cand
                                /\ rows'[i].strat = rows[i].strat
                                /\ i # o.row => rows'[i] = rows[i]
      /\ rows'[o.row].out = IF filled THEN "filled" ELSE "refused"
  BY ExecuteRows
<1>2. /\ orders' = orders \ {o}
      /\ filled => /\ lastEntry' = [lastEntry EXCEPT ![<<row.strat, row.cand.mkt>>] = row.cand.ts]
                   /\ trades' = trades + 1 /\ fills' = fills \cup {t0}
      /\ ~filled => UNCHANGED <<lastEntry, trades, fills>>
      /\ UNCHANGED <<now, bursts, lastCand, pending, alive, episodes, abandoned>>
      /\ UNCHANGED <<faults, crashes>>
  BY DEF Execute, RememberFill, history, budget
<1> HIDE DEF row
<1>3. /\ Types /\ TypeOK /\ StrategiesTrade /\ OnceEach /\ Stamped /\ NewestFillLocks
      /\ PendingIsUnconfirmed /\ WaitsOnce /\ Charged /\ OneKind
      /\ rows \in Seq(Row) /\ DOMAIN rows = 1 .. Len(rows) /\ Len(rows) \in Nat
      /\ now \in Nat /\ trades \in Nat /\ row.cand \in Candidate /\ row.cand.ts \in Int
      /\ row.cand.mkt \in Markets /\ row.cand.ts <= now
      /\ lastEntry \in [Strategies \X Markets -> Int]
  <2>1. Types /\ TypeOK /\ Stamped
    BY DEF IInv, Types
  <2>2. rows \in Seq(Row) /\ DOMAIN rows = 1 .. Len(rows) /\ Len(rows) \in Nat
    BY <2>1, LenProperties DEF Types
  <2>3. now \in Nat /\ trades \in Nat /\ lastEntry \in [Strategies \X Markets -> Int]
    BY <2>1, ConstantsOK DEF Types, TypeOK
  <2>4. row.cand \in Candidate /\ row.cand.ts \in Int /\ row.cand.mkt \in Markets
    BY <1>1 DEF Row, Candidate
  <2>5. row.cand.ts <= now
    BY <1>1, <2>1 DEF Stamped, row
  <2> QED BY <2>1, <2>2, <2>3, <2>4, <2>5 DEF IInv
<1>4. ASSUME NEW f \in fills
      PROVE  /\ f.row \in DOMAIN rows /\ f.row # o.row /\ f.id \in 1 .. trades
             /\ rows'[f.row] = rows[f.row] /\ rows[f.row].out = "filled" /\ f.at \in Int
  BY <1>1, <1>3 DEF Types, TypeOK, row
<1>5. ASSUME NEW p \in orders'
      PROVE  /\ p \in orders /\ p.row \in DOMAIN rows /\ p.row # o.row
             /\ rows'[p.row] = rows[p.row] /\ rows[p.row].out = "queued"
  <2>1. p \in orders /\ p # o /\ p.row \in DOMAIN rows /\ rows[p.row].out = "queued"
    BY <1>2, <1>3 DEF TypeOK
  <2>2. p.row # o.row
    BY <1>3, <2>1 DEF OnceEach
  <2> QED BY <1>1, <2>1, <2>2
<1>6. ASSUME NEW t \in fills', t \notin fills
      PROVE  filled /\ t = t0 /\ t.id = trades + 1 /\ t.row = o.row /\ t.at = now
  BY <1>2, <1>6
<1>7. Types'
  <2>1. lastEntry' \in [Strategies \X Markets -> Int]
    BY <1>1, <1>2, <1>3
  <2>2. \A t \in fills' : /\ t.id \in 1 .. trades'
                          /\ t.row \in DOMAIN rows' /\ rows'[t.row].out = "filled"
                          /\ t.at \in Int
    <3>1. ASSUME NEW t \in fills' PROVE t.id \in 1 .. trades'
      BY <1>2, <1>3, <1>4, <1>6
    <3>2. ASSUME NEW t \in fills' PROVE /\ t.row \in DOMAIN rows' /\ rows'[t.row].out = "filled"
                                        /\ t.at \in Int
      BY <1>1, <1>3, <1>4, <1>6
    <3> QED BY <3>1, <3>2
  <2>3. \A p \in orders' : p.row \in DOMAIN rows' /\ rows'[p.row].out = "queued"
    BY <1>1, <1>5
  <2>4. \A i \in DOMAIN rows' : rows'[i] \in Row
    BY <1>1
  <2>5. TypeOK'
    BY <1>2, <1>3, <2>1, <2>2, <2>3, <2>4 DEF TypeOK
  <2>6. trades' \in Nat
    BY <1>2, <1>3
  <2> QED BY <1>1, <1>2, <1>3, <2>2, <2>5, <2>6 DEF Types
<1>8. StrategiesTrade'
  BY <1>1, <1>3 DEF StrategiesTrade, row
<1>9. OnceEach'
  <2>1. \A p, r \in orders' : p.row = r.row => p = r
    BY <1>3, <1>5 DEF OnceEach
  <2>2. ASSUME NEW f \in fills', NEW g \in fills', f.id = g.id PROVE f = g
    <3>1. CASE f \in fills /\ g \in fills
      BY <1>3, <2>2, <3>1 DEF OnceEach
    <3>2. CASE f \notin fills /\ g \notin fills
      BY <1>6, <3>2
    <3>3. CASE f \in fills /\ g \notin fills
      BY <1>3, <1>4, <1>6, <2>2, <3>3
    <3>4. CASE f \notin fills /\ g \in fills
      BY <1>3, <1>4, <1>6, <2>2, <3>4
    <3> QED BY <3>1, <3>2, <3>3, <3>4
  <2> QED BY <2>1, <2>2 DEF OnceEach
<1>10. Stamped'
  <2>1. \A i \in DOMAIN rows' : rows'[i].cand.ts <= now'
    BY <1>1, <1>2, <1>3 DEF Stamped
  <2>2. \A t \in fills' : rows'[t.row].cand.ts <= t.at
    <3>1. ASSUME NEW t \in fills PROVE rows'[t.row].cand.ts <= t.at
      BY <1>3, <1>4 DEF Stamped
    <3>2. ASSUME NEW t \in fills', t \notin fills PROVE rows'[t.row].cand.ts <= t.at
      BY <1>1, <1>3, <1>6, <3>2 DEF row
    <3> QED BY <3>1, <3>2
  <2> QED BY <1>2, <1>3, <2>1, <2>2 DEF Stamped
<1>11. NewestFillLocks'
  <2> SUFFICES ASSUME NEW s \in Strategies, NEW m \in Markets,
                      NEW f \in fills', rows'[f.row].strat = s, rows'[f.row].cand.mkt = m,
                      \A g \in fills' :
                         (rows'[g.row].strat = s /\ rows'[g.row].cand.mkt = m) => g.id <= f.id
               PROVE  rows'[f.row].cand.ts <= lastEntry'[<<s, m>>]
    BY DEF NewestFillLocks, FillsOf
  <2>1. CASE filled /\ s = row.strat /\ m = row.cand.mkt
    <3>1. t0 \in fills' /\ t0.row = o.row /\ t0.id = trades + 1
      BY <1>2, <2>1
    <3>2. rows'[o.row].strat = s /\ rows'[o.row].cand.mkt = m
      BY <1>1, <2>1 DEF row
    <3>3. trades + 1 <= f.id
      BY <3>1, <3>2
    <3>4. f \notin fills
      BY <1>3, <1>4, <3>3
    <3>5. f.row = o.row
      BY <1>6, <3>4
    <3>6. rows'[f.row].cand.ts = row.cand.ts
      BY <1>1, <3>5 DEF row
    <3>7. lastEntry'[<<s, m>>] = row.cand.ts
      BY <1>2, <1>3, <2>1
    <3> QED BY <1>3, <3>6, <3>7
  <2>2. CASE ~(filled /\ s = row.strat /\ m = row.cand.mkt)
    <3>1. lastEntry'[<<s, m>>] = lastEntry[<<s, m>>]
      BY <1>2, <1>3, <2>2
    <3>2. f \in fills
      <4>1. CASE f \notin fills
        <5>1. filled /\ f.row = o.row
          BY <1>6, <4>1
        <5> QED BY <1>1, <2>2, <5>1 DEF row
      <4> QED BY <4>1
    <3>3. f \in FillsOf(s, m)
      BY <1>4, <3>2 DEF FillsOf
    <3>4. \A g \in FillsOf(s, m) : g.id <= f.id
      <4>1. ASSUME NEW g \in FillsOf(s, m) PROVE g.id <= f.id
        <5>1. g \in fills /\ rows[g.row].strat = s /\ rows[g.row].cand.mkt = m
          BY DEF FillsOf
        <5>2. rows'[g.row] = rows[g.row] /\ g \in fills'
          BY <1>2, <1>4, <5>1
        <5> QED BY <5>1, <5>2
      <4> QED BY <4>1
    <3>5. rows[f.row].cand.ts <= lastEntry[<<s, m>>]
      BY <1>3, <3>3, <3>4 DEF NewestFillLocks
    <3> QED BY <1>4, <3>1, <3>2, <3>5
  <2> QED BY <2>1, <2>2
<1>12. ASSUME NEW c, NEW s PROVE Decisions(c, s)' = Decisions(c, s)
  BY <1>1 DEF Decisions
<1>13. PendingIsUnconfirmed' /\ WaitsOnce'
  BY <1>2, <1>3 DEF PendingIsUnconfirmed, WaitsOnce, Confirmed
<1>14. Charged'
  BY <1>2, <1>3, <1>12 DEF Charged, InPending, Seen
<1>15. OneKind'
  <2> DEFINE After(c) == {l \in DOMAIN rows' : rows'[l].cand = c /\ rows'[l].strat = "gate_a"}
  <2>1. \A c : After(c) = Decisions(c, "gate_a")
    BY <1>1 DEF Decisions
  <2> SUFFICES ASSUME abandoned + crashes = 0, NEW i \in DOMAIN rows'
               PROVE  rows'[i].strat = "none" <=> After(rows'[i].cand) = {}
    BY <1>2 DEF OneKind, Decisions
  <2>2. rows[i].strat = "none" <=> Decisions(rows[i].cand, "gate_a") = {}
    BY <1>1, <1>3 DEF OneKind
  <2> QED BY <1>1, <2>1, <2>2
<1> QED BY <1>7, <1>8, <1>9, <1>10, <1>11, <1>13, <1>14, <1>15 DEF IInv

\* An order whose write fails keeps its row; only its time changes.
LEMMA ExecuteFailsKeeps ==
    ASSUME IInv, NEW o \in orders, ExecuteFails(o)
    PROVE  IInv'
<1> DEFINE o2 == [o EXCEPT !.due = now + Retry]
<1>1. /\ orders' = (orders \ {o}) \cup {o2} /\ faults' = faults + 1
      /\ UNCHANGED <<now, bursts, lastCand, pending, lastEntry, alive, rows, trades, fills>>
      /\ UNCHANGED <<episodes, abandoned, crashes>>
  BY DEF ExecuteFails, engine, history
<1>2. o2.row = o.row
  OBVIOUS
<1> HIDE DEF o2
<1>3. /\ \A p \in orders' : p.row \in DOMAIN rows' /\ rows'[p.row].out = "queued"
      /\ faults' \in Nat
  BY <1>1, <1>2 DEF IInv, Types, TypeOK
<1>4. Types'
  BY <1>1, <1>3 DEF IInv, Types, TypeOK
<1>5. OnceEach'
  <2>1. ASSUME NEW p \in orders', NEW r \in orders', p.row = r.row PROVE p = r
    BY <1>1, <1>2, <2>1 DEF IInv, OnceEach
  <2>2. \A f, g \in fills' : f.id = g.id => f = g
    BY <1>1 DEF IInv, OnceEach
  <2> QED BY <2>1, <2>2 DEF OnceEach
<1>6. /\ StrategiesTrade' /\ Stamped' /\ NewestFillLocks'
      /\ PendingIsUnconfirmed' /\ WaitsOnce'
  BY <1>1 DEF IInv, StrategiesTrade, Stamped, NewestFillLocks, FillsOf,
              PendingIsUnconfirmed, Confirmed, WaitsOnce
<1>7. Charged'
  BY <1>1 DEF IInv, Charged, Decisions, InPending, Seen
<1>8. OneKind'
  BY <1>1 DEF IInv, OneKind, Decisions
<1> QED BY <1>4, <1>5, <1>6, <1>7, <1>8 DEF IInv

LEMMA TickKeeps ==
    ASSUME IInv, Tick
    PROVE  IInv'
<1>1. /\ now' = now + 1 /\ now < MaxTime
      /\ UNCHANGED <<bursts, lastCand, pending, lastEntry, alive, rows, orders, trades,
                     fills, episodes, abandoned, faults, crashes>>
  BY DEF Tick, engine, desk, history, budget
<1>2. now \in Nat /\ now' \in 0 .. MaxTime
  BY <1>1, ConstantsOK DEF IInv, Types, TypeOK
<1>3. Types'
  BY <1>1, <1>2 DEF IInv, Types, TypeOK
<1>4. Stamped'
  <2>1. ASSUME NEW t \in Int, t <= now PROVE t <= now'
    BY <1>1, <1>2, <2>1
  <2>2. \A i \in DOMAIN rows : rows[i].cand.ts \in Int
    BY DEF IInv, Types, TypeOK, Row, Candidate
  <2>3. \A p \in pending : p.cand.ts \in Int
    BY DEF IInv, Types, TypeOK, Pending, Candidate
  <2> QED BY <1>1, <2>1, <2>2, <2>3 DEF IInv, Stamped
<1>5. /\ StrategiesTrade' /\ OnceEach' /\ NewestFillLocks'
      /\ PendingIsUnconfirmed' /\ WaitsOnce'
  BY <1>1 DEF IInv, StrategiesTrade, OnceEach, NewestFillLocks, FillsOf,
              PendingIsUnconfirmed, Confirmed, WaitsOnce
<1>6. Charged' /\ OneKind'
  BY <1>1 DEF IInv, Charged, OneKind, Decisions, InPending, Seen
<1> QED BY <1>3, <1>4, <1>5, <1>6 DEF IInv

LEMMA LeastMember ==
    ASSUME NEW S \in SUBSET Nat, S # {}
    PROVE  \E n \in S : \A k \in S : n <= k
<1> DEFINE Less == OpToRel(<, Nat)
<1>1. PICK n \in S : \A k \in S : <<k, n>> \notin Less
  BY NatLessThanWellFounded, WFMin
<1>2. ASSUME NEW k \in S, k < n PROVE FALSE
  <2>1. <<k, n>> \in Nat \X Nat /\ <<k, n>>[1] < <<k, n>>[2]
    BY <1>2
  <2>2. <<k, n>> \in {ss \in Nat \X Nat : ss[1] < ss[2]}
    BY <2>1, Zenon
  <2> QED BY <1>1, <2>2 DEF OpToRel
<1> QED BY <1>2

\* Among some fills there is a newest.
LEMMA NewestExists ==
    ASSUME Types, NEW S \in SUBSET fills, S # {}
    PROVE  \E t \in S : \A u \in S : u.id <= t.id
<1> DEFINE ages == {trades - t.id : t \in S}
<1>1. trades \in Nat /\ \A t \in S : t.id \in 1 .. trades
  BY DEF Types, TypeOK
<1>2. ages \in SUBSET Nat /\ ages # {}
  <2>1. \A t \in S : trades - t.id \in Nat
    BY <1>1
  <2> QED BY <2>1
<1>3. PICK n \in ages : \A k \in ages : n <= k
  BY <1>2, LeastMember
<1>4. PICK t \in S : n = trades - t.id
  OBVIOUS
<1>5. ASSUME NEW u \in S PROVE u.id <= t.id
  <2>1. trades - u.id \in ages
    OBVIOUS
  <2>2. trades - t.id <= trades - u.id
    BY <1>3, <1>4, <2>1
  <2> QED BY <1>1, <2>2
<1> QED BY <1>5

\* The lockouts that come back are those of the newest open trades, at their
\* entry, which is no earlier than the stamp of their candidate.
LEMMA RestartKeeps ==
    ASSUME IInv, NEW open \in SUBSET fills, Restart(open)
    PROVE  IInv'
<1> DEFINE of(k) == {t \in open : <<rows[t.row].strat, rows[t.row].cand.mkt>> = k}
           newest(k) == CHOOSE t \in of(k) : \A u \in of(k) : u.id <= t.id
<1>1. /\ bursts' = [m \in Markets |-> {}]
      /\ lastCand' = [m \in Markets |-> NotSwept]
      /\ pending' = {} /\ orders' = {} /\ alive' = TRUE /\ fills' = open
      /\ crashes' = crashes + 1
      /\ UNCHANGED <<now, rows, trades, episodes, abandoned, faults>>
      /\ lastEntry' = [k \in Strategies \X Markets |->
                          IF of(k) = {} THEN Never ELSE newest(k).at]
  BY DEF Restart, history
<1>2. /\ Types /\ TypeOK /\ abandoned \in Nat /\ crashes \in Nat /\ Never \in Int /\ NotSwept \in Int
  BY ConstantsOK DEF IInv, Types, Never, NotSwept
<1>3. ASSUME NEW k, of(k) # {}
      PROVE  newest(k) \in of(k) /\ \A u \in of(k) : u.id <= newest(k).id
  <2>1. of(k) \in SUBSET fills
    OBVIOUS
  <2>2. \E t \in of(k) : \A u \in of(k) : u.id <= t.id
    BY <1>2, <1>3, <2>1, NewestExists
  <2> QED BY <2>2
<1> HIDE DEF newest
<1>4. lastEntry' \in [Strategies \X Markets -> Int]
  <2>1. ASSUME NEW k \in Strategies \X Markets
        PROVE  (IF of(k) = {} THEN Never ELSE newest(k).at) \in Int
    <3>1. of(k) # {} => newest(k).at \in Int
      BY <1>2, <1>3 DEF Types
    <3> QED BY <1>2, <3>1
  <2> QED BY <1>1, <2>1
<1>5. Types'
  <2>1. /\ bursts' \in [Markets -> SUBSET [ts : Int, sign : Signs]]
        /\ lastCand' \in [Markets -> Int]
    BY <1>1, <1>2
  <2>2. TypeOK'
    BY <1>1, <1>2, <1>4 DEF TypeOK
  <2> QED BY <1>1, <1>2, <2>1, <2>2, FS_EmptySet DEF Types
<1>6. StrategiesTrade' /\ OnceEach' /\ Stamped' /\ WaitsOnce' /\ PendingIsUnconfirmed'
  BY <1>1 DEF IInv, StrategiesTrade, OnceEach, Stamped, WaitsOnce, PendingIsUnconfirmed
<1>7. NewestFillLocks'
  <2> SUFFICES ASSUME NEW s \in Strategies, NEW m \in Markets,
                      NEW f \in open, rows[f.row].strat = s, rows[f.row].cand.mkt = m,
                      \A g \in open :
                         (rows[g.row].strat = s /\ rows[g.row].cand.mkt = m) => g.id <= f.id
               PROVE  rows[f.row].cand.ts <= lastEntry'[<<s, m>>]
    BY <1>1 DEF NewestFillLocks, FillsOf
  <2> DEFINE t == newest(<<s, m>>)
  <2>1. f \in of(<<s, m>>)
    OBVIOUS
  <2>2. t \in of(<<s, m>>) /\ f.id <= t.id
    BY <1>3, <2>1
  <2>3. t \in open /\ rows[t.row].strat = s /\ rows[t.row].cand.mkt = m
    BY <2>2
  <2>4. t = f
    <3>1. t.id <= f.id
      BY <2>3
    <3>2. t.id \in Int /\ f.id \in Int /\ t \in fills /\ f \in fills
      BY <1>2, <2>3 DEF Types, TypeOK
    <3>3. t.id = f.id
      BY <2>2, <3>1, <3>2
    <3> QED BY <3>2, <3>3 DEF IInv, OnceEach
  <2>5. rows[t.row].cand.ts <= t.at
    BY <2>3 DEF IInv, Stamped
  <2>6. lastEntry'[<<s, m>>] = t.at
    BY <1>1, <2>1
  <2> QED BY <2>4, <2>5, <2>6
<1>8. Charged'
  <2> SUFFICES ASSUME NEW c \in Candidate, NEW s \in Strategies \cup {"none"}
               PROVE  Cardinality(Decisions(c, s)') + InPending(c)'
                          <= abandoned' + crashes' + Seen(c)'
    BY DEF Charged
  <2>1. Decisions(c, s)' = Decisions(c, s) /\ InPending(c)' = 0
    BY <1>1 DEF Decisions, InPending
  <2>2. Cardinality(Decisions(c, s)) + InPending(c) <= abandoned + crashes + Seen(c)
    BY DEF IInv, Charged
  <2>3. Cardinality(Decisions(c, s)) \in Nat
    BY <1>2, DecisionsFinite
  <2>4. abandoned' = abandoned /\ crashes' = crashes + 1
    BY <1>1
  <2> HIDE DEF of
  <2>5. Cardinality(Decisions(c, s)) <= abandoned + crashes + 1
    BY <1>2, <2>2, <2>3, ChargedType
  <2>6. Seen(c)' \in {0, 1}
    BY ChargedType
  <2> QED BY <1>2, <2>1, <2>3, <2>4, <2>5, <2>6
<1>9. OneKind'
  <2>1. abandoned' + crashes' # 0
    BY <1>1, <1>2
  <2> QED BY <2>1 DEF OneKind
<1> QED BY <1>5, <1>6, <1>7, <1>8, <1>9 DEF IInv

-----------------------------------------------------------------------------
(***************************************************************************)
(* Theorems                                                                *)
(***************************************************************************)

LEMMA InitIInv == Init => IInv
<1> SUFFICES ASSUME Init PROVE IInv
  OBVIOUS
<1>1. /\ pending = {} /\ rows = <<>> /\ DOMAIN rows = {} /\ orders = {} /\ fills = {}
      /\ trades = 0 /\ episodes = 0 /\ abandoned = 0 /\ faults = 0 /\ crashes = 0
      /\ now = 0 /\ alive = TRUE
      /\ bursts = [m \in Markets |-> {}]
      /\ lastCand = [m \in Markets |-> NotSwept]
      /\ lastEntry = [k \in Strategies \X Markets |-> Never]
  BY DEF Init
<1>2. Never \in Int /\ NotSwept \in Int /\ 0 \in 0 .. MaxTime
  BY ConstantsOK DEF Never, NotSwept
<1>3. TypeOK
  BY <1>1, <1>2 DEF TypeOK
<1>4. Types
  BY <1>1, <1>2, <1>3, FS_EmptySet DEF Types
<1>5. StrategiesTrade /\ OnceEach /\ Stamped /\ NewestFillLocks
  BY <1>1 DEF StrategiesTrade, OnceEach, Stamped, NewestFillLocks, FillsOf
<1>6. PendingIsUnconfirmed /\ WaitsOnce /\ OneKind
  BY <1>1 DEF PendingIsUnconfirmed, WaitsOnce, OneKind
<1>7. Charged
  <2> SUFFICES ASSUME NEW c \in Candidate, NEW s \in Strategies \cup {"none"}
               PROVE  Cardinality(Decisions(c, s)) + InPending(c) <= abandoned + crashes + Seen(c)
    BY DEF Charged
  <2>1. Decisions(c, s) = {} /\ InPending(c) = 0
    BY <1>1 DEF Decisions, InPending
  <2>2. Cardinality(Decisions(c, s)) = 0
    BY <2>1, FS_EmptySet
  <2> QED BY <1>1, <2>1, <2>2, ChargedType
<1> QED BY <1>4, <1>5, <1>6, <1>7 DEF IInv

LEMMA NextKeeps ==
    ASSUME IInv, [Next]_vars
    PROVE  IInv' /\ LockoutKept
<1>0. DOMAIN rows' = DOMAIN rows => LockoutKept
  BY DEF LockoutKept, NewRows
<1>1. ASSUME NEW m \in Markets, NEW ts \in (now - MaxLag) .. now, NEW sign \in {-1, 0, 1},
             NEW sweep \in BOOLEAN, NEW declined \in SUBSET Strategies,
             AnyTrade(m, ts, sign, sweep, declined)
      PROVE  IInv' /\ LockoutKept
  <2>0. sweep => sign # 0
    BY <1>1 DEF AnyTrade
  <2>1. CASE Trade(m, ts, sign, sweep, declined)
    BY <2>0, <2>1, TradeKeeps
  <2>2. ASSUME NEW inserted \in BOOLEAN, NEW unqueued \in BOOLEAN,
               TradeInterrupted(m, ts, sign, sweep, declined, inserted, unqueued)
        PROVE  IInv' /\ LockoutKept
    BY <2>0, <2>2, TradeInterruptedKeeps
  <2> QED BY <1>1, <2>1, <2>2 DEF AnyTrade
<1>2. CASE ExpirePending
  BY <1>2, ExpirePendingKeeps
<1>3. CASE ExpiryDies
  BY <1>3, ExpiryDiesKeeps
<1>4. ASSUME NEW o \in orders, NEW filled \in BOOLEAN, Execute(o, filled)
      PROVE  IInv' /\ LockoutKept
  <2>1. DOMAIN rows' = DOMAIN rows
    BY <1>4, ExecuteRows
  <2> QED BY <1>4, <2>1, <1>0, ExecuteKeeps
<1>8. ASSUME NEW o \in orders, ExecuteFails(o)
      PROVE  IInv' /\ LockoutKept
  <2>1. DOMAIN rows' = DOMAIN rows
    BY <1>8 DEF ExecuteFails
  <2> QED BY <1>8, <2>1, <1>0, ExecuteFailsKeeps
<1>5. CASE Tick
  <2>1. DOMAIN rows' = DOMAIN rows
    BY <1>5 DEF Tick
  <2> QED BY <1>5, <2>1, <1>0, TickKeeps
<1>6. ASSUME NEW open \in SUBSET fills, Restart(open)
      PROVE  IInv' /\ LockoutKept
  <2>1. DOMAIN rows' = DOMAIN rows
    BY <1>6 DEF Restart
  <2> QED BY <1>6, <2>1, <1>0, RestartKeeps
<1>7. CASE UNCHANGED vars
  <2>1. UNCHANGED <<now, bursts, lastCand, pending, lastEntry, alive, rows, orders, trades,
                    fills, episodes, abandoned, faults, crashes>>
    BY <1>7 DEF vars, engine, desk, history, budget
  <2>2. Types' /\ StrategiesTrade' /\ OnceEach' /\ Stamped' /\ NewestFillLocks'
    BY <2>1 DEF IInv, Types, TypeOK, StrategiesTrade, OnceEach, Stamped,
                NewestFillLocks, FillsOf
  <2>3. PendingIsUnconfirmed' /\ WaitsOnce' /\ OneKind'
    BY <2>1 DEF IInv, PendingIsUnconfirmed, Confirmed, WaitsOnce, OneKind, Decisions
  <2>4. Charged'
    BY <2>1 DEF IInv, Charged, Decisions, InPending, Seen
  <2>5. DOMAIN rows' = DOMAIN rows
    BY <2>1
  <2> QED BY <2>2, <2>3, <2>4, <2>5, <1>0 DEF IInv
<1> QED BY <1>1, <1>2, <1>3, <1>4, <1>5, <1>6, <1>7, <1>8 DEF Next

\* The invariant holds for any legs, windows, frames, failures, retries and restarts
\* (app/engine.py process_trade, periodic_task, start; app/paper.py process_pending).
THEOREM Invariance == Spec => []IInv
<1>1. IInv /\ [Next]_vars => IInv'
  BY NextKeeps
<1> QED BY <1>1, InitIInv, PTL DEF Spec

\* Every variable keeps its type; an order belongs to a row that is queued, a
\* fill to one that is filled.
THEOREM TypeCorrect == Spec => []TypeOK
<1>1. IInv => TypeOK
  BY DEF IInv, Types
<1> QED BY <1>1, Invariance, PTL

\* A candidate that a sibling has confirmed does not wait, whatever the order of the
\* frames, unless a write failed on a handler's way through the pending list; one
\* that fails for the trade's own candidate does no harm (process_trade).
THEOREM ConfirmedDoNotWait == Spec => []PendingIsUnconfirmed
<1>1. IInv => PendingIsUnconfirmed
  BY DEF IInv
<1> QED BY <1>1, Invariance, PTL

\* An episode is decided once for each strategy or once for neither.  Each handler
\* that fails before it has replaced the pending list, and each restart, repeats it
\* at most once; one that fails after that repeats nothing (process_trade).
THEOREM EpisodesStayDecided == Spec => []EpisodesAreDecidedOnce
<1>1. IInv => EpisodesAreDecidedOnce
  <2> SUFFICES ASSUME IInv, NEW i \in DOMAIN rows
               PROVE  /\ Cardinality(Decisions(rows[i].cand, rows[i].strat)) <= 1 + abandoned + crashes
                      /\ abandoned + crashes = 0 =>
                            (rows[i].strat = "none" <=> Decisions(rows[i].cand, "gate_a") = {})
    BY DEF EpisodesAreDecidedOnce
  <2> DEFINE k == Cardinality(Decisions(rows[i].cand, rows[i].strat))
  <2>1. rows[i].cand \in Candidate /\ rows[i].strat \in Strategies \cup {"none"}
    BY DEF IInv, Types, TypeOK, Row
  <2>2. k + InPending(rows[i].cand) <= abandoned + crashes + Seen(rows[i].cand)
    BY <2>1 DEF IInv, Charged
  <2>3. k \in Nat /\ abandoned \in Nat /\ crashes \in Nat
    BY DecisionsFinite DEF IInv, Types
  <2> HIDE DEF k
  <2>4. k <= 1 + abandoned + crashes
    BY <2>2, <2>3, ChargedType
  <2> QED BY <2>4 DEF k, IInv, OneKind
<1> QED BY <1>1, Invariance, PTL

\* A strategy queues no order within the lockout of the fill it executed last on
\* the market, in whatever order the frames come and retried orders fill, and across
\* restarts with that trade open (_is_strategy_locked, _remember_fill,
\* process_pending, start).
THEOREM LockoutIsKept == Spec => LockoutHolds
<1>1. IInv /\ [Next]_vars => [LockoutKept]_vars
  BY NextKeeps
<1>2. LockoutHolds <=> [][LockoutKept]_vars
  BY DEF LockoutHolds, LockoutKept, NewRows
<1> QED BY <1>1, <1>2, Invariance, PTL DEF Spec
=============================================================================
