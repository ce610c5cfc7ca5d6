-------------------------- MODULE SignalPathsProofs --------------------------
(***************************************************************************)
(* What holds of SignalPaths for every set of signals, every size of the   *)
(* tracker, the buffer and the table, and any number of quotes, failed     *)
(* writes and crashes.                                                     *)
(*                                                                         *)
(* The invariant says of every watch on its own what its rows and its      *)
(* write under way are (Shape), and how the database and the history of    *)
(* its signal agree with it (Stored).  The loop's operations on a watch    *)
(* are lemmas of their own; most of them change nothing Stored speaks of.  *)
(***************************************************************************)
EXTENDS SignalPaths, SequenceTheorems, FiniteSetTheorems, TLAPS

\* The rows of a watch that its completed flushes took, and those on disk.
Flushed(w) == w.total - Len(w.rows)

OnDisk(w) == Flushed(w) + (IF w.answer = "ok" THEN Len(w.sent) ELSE 0)

\* The finalisation is committed; its callback has not run.
Finished(w) == w.flight = "final" /\ w.answer = "ok"

\* Rows are numbered from the last flushed one; a write holds the first of them,
\* a finalisation all of them.
Shape(w) ==
    /\ w \in Watch
    /\ w.total <= MaxSamples - 1
    /\ Len(w.rows) <= w.total /\ Len(w.sent) <= Len(w.rows)
    /\ \A k \in 1 .. Len(w.rows) : w.rows[k] = Flushed(w) + k
    /\ \A k \in 1 .. Len(w.sent) : w.sent[k] = Flushed(w) + k
    /\ w.flight = "none" => w.answer = "none" 
    /\ w.flight = "final" => Len(w.sent) = Len(w.rows)
    /\ w.retry => w.total = 0 /\ w.dropped = 0

\* What the database and the history say of the signal of a watch.
Stored(w) ==
    /\ w.sig \in ToSet(started)
    /\ finalized[w.sig] = IF Finished(w) THEN Label(w) ELSE "no"
    /\ w.retry => w.sig \in lost
    /\ ~w.retry => /\ w.sig \notin lost
                   /\ offered[w.sig] = w.total + w.dropped
                   /\ durable[w.sig] = 1 .. OnDisk(w)

Types ==
    /\ TypeOK
    /\ started \in Seq(Signals)
    /\ watches \in Seq(Watch)
    /\ durable \in [Signals -> SUBSET Nat]
    /\ finals \in [Signals -> Nat]
    /\ faults \in Nat /\ crashes \in Nat

Watching == \A i \in DOMAIN watches : Shape(watches[i]) /\ Stored(watches[i])

OneWatch ==
    \A i, j \in DOMAIN watches : watches[i].sig = watches[j].sig => i = j

\* A stopped process has no watch, and has left every open path.
Stopped == ~up => watches = <<>> /\ Unfinalized \subseteq lost

\* Nothing is recorded of a signal before its path is started.
Untouched ==
    \A s \in Signals \ ToSet(started) :
        finalized[s] = "no" /\ durable[s] = {} /\ offered[s] = 0 /\ finals[s] = 0

IInv ==
    /\ Types /\ Watching /\ OneWatch /\ Stopped /\ Untouched
    /\ LabelsAreTrue /\ OneFinalization

USE DEF loop, database, process, history, budget

-----------------------------------------------------------------------------
(***************************************************************************)
(* The operations of the loop on one watch                                 *)
(***************************************************************************)

\* v says of its signal what w does.
Alike(v, w) ==
    /\ v.sig = w.sig /\ v.retry = w.retry
    /\ v.total = w.total /\ v.dropped = w.dropped
    /\ OnDisk(v) = OnDisk(w) /\ Finished(v) = Finished(w)

LEMMA NewWatchShape ==
    ASSUME NEW s \in Signals, NEW r \in BOOLEAN
    PROVE  /\ Shape(NewWatch(s, r))
           /\ OnDisk(NewWatch(s, r)) = 0 /\ ~Finished(NewWatch(s, r))
<1> DEFINE w == NewWatch(s, r)
<1>1. /\ w.sig = s /\ w.rows = <<>> /\ w.total = 0 /\ w.dropped = 0 /\ w.retry = r
      /\ w.flight = "none" /\ w.sent = <<>> /\ w.answer = "none"
      /\ w \in Watch
  BY DEF NewWatch, Watch
<1> HIDE DEF w
<1>2. Len(w.rows) = 0 /\ Len(w.sent) = 0
  BY <1>1
<1>3. Shape(w)
  BY <1>1, <1>2, ConstantsOK DEF Shape, Flushed
<1>4. OnDisk(w) = 0
  <2>1. Flushed(w) = 0
    <3>1. w.total = 0 /\ Len(w.rows) = 0
      BY <1>1, <1>2
    <3>2. w.total - Len(w.rows) = 0
      BY <3>1
    <3> QED BY <3>2 DEF Flushed
  <2> QED BY <1>1, <2>1 DEF OnDisk
<1>5. ~Finished(w)
  BY <1>1 DEF Finished
<1> QED BY <1>3, <1>4, <1>5 DEF w

\* A write is dispatched: nothing is on disk yet.
LEMMA DispatchShape ==
    ASSUME NEW w, Shape(w), w.flight = "none", NEW kind \in {"flush", "final"}
    PROVE  Shape(Dispatch(w, kind)) /\ Alike(Dispatch(w, kind), w)
<1> DEFINE v == Dispatch(w, kind)
<1>1. /\ w \in Watch /\ w.answer = "none"
      /\ v = [w EXCEPT !.flight = kind, !.sent = w.rows, !.answer = "none"]
  BY DEF Shape, Dispatch
<1>2. /\ v \in Watch
      /\ v.sig = w.sig /\ v.rows = w.rows /\ v.total = w.total /\ v.dropped = w.dropped
      /\ v.retry = w.retry /\ v.flight = kind /\ v.sent = w.rows /\ v.answer = "none"
  BY <1>1 DEF Watch
<1> HIDE DEF v
<1>3. Len(w.rows) \in Nat
  BY <1>1 DEF Watch
<1>4. Shape(v)
  BY <1>2, <1>3 DEF Shape, Flushed
<1>5. Alike(v, w)
  BY <1>1, <1>2 DEF Alike, OnDisk, Flushed, Finished
<1> QED BY <1>4, <1>5 DEF v

LEMMA AlikeItself == \A w : Alike(w, w)
BY DEF Alike

LEMMA FinalizeShape ==
    ASSUME NEW w, Shape(w)
    PROVE  Shape(Finalize(w)) /\ Alike(Finalize(w), w)
BY DispatchShape, AlikeItself DEF Finalize

LEMMA FlushShape ==
    ASSUME NEW w, Shape(w)
    PROVE  Shape(Flush(w)) /\ Alike(Flush(w), w)
BY DispatchShape, AlikeItself DEF Flush

\* A watch that takes no quote.
Deaf(w) == w.retry \/ w.flight = "final"

\* A recorded quote is a row, or counted as dropped with the table full.
LEMMA RecordShape ==
    ASSUME NEW w, Shape(w)
    PROVE  LET v == Record(w) IN
           /\ Shape(v)
           /\ v.sig = w.sig /\ v.retry = w.retry
           /\ OnDisk(v) = OnDisk(w) /\ Finished(v) = Finished(w)
           /\ Deaf(w) => v = w
           /\ ~Deaf(w) => v.total + v.dropped = w.total + w.dropped + 1
<1>1. w \in Watch /\ Len(w.rows) \in Nat /\ Len(w.sent) \in Nat
      /\ w.total \in Nat /\ w.dropped \in Nat /\ w.rows \in Seq(Nat)
      /\ MaxSamples \in Nat
  BY ConstantsOK DEF Shape, Watch
<1>2. CASE Deaf(w)
  BY <1>2 DEF Record, Deaf
<1>3. CASE ~Deaf(w) /\ w.total >= MaxSamples - 1
  <2> DEFINE d == w.dropped + 1
             v == [w EXCEPT !.dropped = d]
  <2>1. Record(w) = v
    BY <1>3 DEF Record, Deaf
  <2>0. d \in Nat
    BY <1>1
  <2> HIDE DEF d
  <2>2. /\ v \in Watch
        /\ v.sig = w.sig /\ v.rows = w.rows /\ v.total = w.total
        /\ v.dropped = w.dropped + 1
        /\ v.retry = w.retry /\ v.flight = w.flight /\ v.sent = w.sent
        /\ v.answer = w.answer
    <3>1. v \in Watch
      BY <1>1, <2>0 DEF Watch
    <3>2. v.dropped = d
      BY <1>1 DEF Watch
    <3> QED BY <1>1, <3>1, <3>2 DEF Watch, d
  <2> HIDE DEF v
  <2>3. Shape(v)
    BY <1>3, <2>2 DEF Shape, Flushed, Deaf
  <2>4. OnDisk(v) = OnDisk(w) /\ Finished(v) = Finished(w)
    BY <2>2 DEF OnDisk, Flushed, Finished
  <2>5. v.total + v.dropped = w.total + w.dropped + 1
    BY <1>1, <2>2
  <2> QED BY <1>3, <2>1, <2>2, <2>3, <2>4, <2>5
<1>4. CASE ~Deaf(w) /\ ~(w.total >= MaxSamples - 1)
  <2> DEFINE n == w.total + 1
             r == Append(w.rows, n)
             v == [w EXCEPT !.total = n, !.rows = r]
  <2>1. Record(w) = Flush(v)
    BY <1>4 DEF Record, Deaf
  <2>0. n \in Nat /\ r \in Seq(Nat)
    BY <1>1
  <2> HIDE DEF n, r
  <2>2. /\ v \in Watch
        /\ v.sig = w.sig /\ v.rows = Append(w.rows, w.total + 1)
        /\ v.total = w.total + 1 /\ v.dropped = w.dropped
        /\ v.retry = w.retry /\ v.flight = w.flight /\ v.sent = w.sent
        /\ v.answer = w.answer
    <3>1. v \in Watch
      BY <1>1, <2>0 DEF Watch
    <3>2. v.total = n /\ v.rows = r
      BY <1>1 DEF Watch
    <3> QED BY <1>1, <3>1, <3>2 DEF Watch, n, r
  <2> HIDE DEF v
  <2>3. /\ Len(v.rows) = Len(w.rows) + 1
        /\ \A k \in 1 .. Len(w.rows) : v.rows[k] = w.rows[k]
        /\ v.rows[Len(w.rows) + 1] = w.total + 1
    BY <1>1, <2>2
  <2>4. Flushed(v) = Flushed(w)
    <3> DEFINE len == Len(w.rows)
    <3>1. /\ len \in Nat /\ w.total \in Nat
          /\ Len(v.rows) = len + 1 /\ v.total = w.total + 1
      BY <1>1, <2>2, <2>3
    <3> HIDE DEF len
    <3>2. v.total - Len(v.rows) = w.total - len
      BY <3>1
    <3> QED BY <3>2 DEF Flushed, len
  <2>5. \A k \in 1 .. Len(v.rows) : v.rows[k] = Flushed(v) + k
    <3>1. ASSUME NEW k \in 1 .. Len(w.rows) + 1
          PROVE  v.rows[k] = Flushed(w) + k
      <4>1. CASE k = Len(w.rows) + 1
        BY <1>1, <2>3, <4>1 DEF Flushed
      <4>2. CASE k # Len(w.rows) + 1
        <5>1. k \in 1 .. Len(w.rows)
          BY <1>1, <4>2
        <5> QED BY <2>3, <5>1 DEF Shape
      <4> QED BY <4>1, <4>2
    <3> QED BY <2>3, <2>4, <3>1
  <2>6. Shape(v)
    <3>1. /\ v.total <= MaxSamples - 1 /\ Len(v.rows) <= v.total
          /\ Len(v.sent) <= Len(v.rows)
      BY <1>1, <1>4, <2>2, <2>3 DEF Shape
    <3>2. \A k \in 1 .. Len(v.sent) : v.sent[k] = Flushed(v) + k
      BY <2>2, <2>4 DEF Shape
    <3> QED BY <1>4, <2>2, <2>5, <3>1, <3>2 DEF Shape, Deaf
  <2>7. OnDisk(v) = OnDisk(w) /\ Finished(v) = Finished(w)
    BY <2>2, <2>4 DEF OnDisk, Finished
  <2>8. v.total + v.dropped = w.total + w.dropped + 1
    BY <1>1, <2>2
  <2>9. Shape(Flush(v)) /\ Alike(Flush(v), v)
    BY <2>6, FlushShape
  <2> HIDE DEF v
  <2> QED BY <1>4, <2>1, <2>2, <2>7, <2>8, <2>9 DEF Alike
<1> QED BY <1>2, <1>3, <1>4
-----------------------------------------------------------------------------
(***************************************************************************)
(* The tracker                                                             *)
(***************************************************************************)

LEMMA ReleaseHeadShape ==
    ASSUME NEW ws \in Seq(Watch), \A i \in DOMAIN ws : Shape(ws[i])
    PROVE  /\ ReleaseHead(ws) \in Seq(Watch)
           /\ DOMAIN ReleaseHead(ws) = DOMAIN ws
           /\ \A i \in DOMAIN ws : /\ Shape(ReleaseHead(ws)[i])
                                   /\ Alike(ReleaseHead(ws)[i], ws[i])
<1>1. CASE ws = <<>>
  BY <1>1, AlikeItself DEF ReleaseHead
<1>2. CASE ws # <<>>
  <2> DEFINE v == Finalize(ws[1])
             vs == [ws EXCEPT ![1] = v]
  <2>1. ReleaseHead(ws) = vs
    BY <1>2 DEF ReleaseHead
  <2>2. 1 \in DOMAIN ws
    BY <1>2
  <2>3. Shape(v) /\ Alike(v, ws[1])
    BY <2>2, FinalizeShape
  <2>4. v \in Watch
    BY <2>3 DEF Shape
  <2> HIDE DEF v
  <2>5. /\ vs \in Seq(Watch) /\ DOMAIN vs = DOMAIN ws
        /\ \A i \in DOMAIN ws : vs[i] = IF i = 1 THEN v ELSE ws[i]
    BY <2>2, <2>4
  <2>6. ASSUME NEW i \in DOMAIN ws
        PROVE  Shape(vs[i]) /\ Alike(vs[i], ws[i])
    BY <2>3, <2>5, AlikeItself
  <2> QED BY <2>1, <2>5, <2>6
<1> QED BY <1>1, <1>2

LEMMA ExpireShape ==
    ASSUME NEW ws \in Seq(Watch), \A i \in DOMAIN ws : Shape(ws[i])
    PROVE  /\ Expire(ws) \in Seq(Watch)
           /\ DOMAIN Expire(ws) = DOMAIN ws
           /\ \A i \in DOMAIN ws : Shape(Expire(ws)[i]) /\ Alike(Expire(ws)[i], ws[i])
BY ReleaseHeadShape, AlikeItself DEF Expire

LEMMA EvictShape ==
    ASSUME NEW ws \in Seq(Watch), \A i \in DOMAIN ws : Shape(ws[i])
    PROVE  /\ Evict(ws) \in Seq(Watch)
           /\ DOMAIN Evict(ws) = DOMAIN ws
           /\ \A i \in DOMAIN ws : Shape(Evict(ws)[i]) /\ Alike(Evict(ws)[i], ws[i])
BY ReleaseHeadShape, AlikeItself DEF Evict

\* Every watch is of a signal, and of a started one.
LEMMA WatchFacts ==
    ASSUME IInv, NEW i \in DOMAIN watches
    PROVE  /\ watches[i] \in Watch /\ watches[i].sig \in Signals
           /\ Shape(watches[i]) /\ Stored(watches[i])
           /\ watches[i].sig \in ToSet(started)
           /\ watches[i].retry \in BOOLEAN
BY DEF IInv, Watching, Shape, Stored, Watch

\* A tick may dispatch the finalisation of the head.
LEMMA TickKeeps ==
    ASSUME IInv, PeriodicTick
    PROVE  IInv'
<1>0. /\ Types /\ Watching /\ OneWatch /\ Stopped /\ Untouched
      /\ LabelsAreTrue /\ OneFinalization
  BY DEF IInv
<1>1. /\ watches' = Expire(watches) /\ up
      /\ UNCHANGED <<failed, fault, started, durable, finalized, ended, up, ticking,
                     offered, lost, finals, faults, crashes>>
  BY DEF PeriodicTick
<1>2. /\ watches' \in Seq(Watch) /\ DOMAIN watches' = DOMAIN watches
      /\ \A i \in DOMAIN watches : Shape(watches'[i]) /\ Alike(watches'[i], watches[i])
  BY <1>0, <1>1, ExpireShape DEF Types, Watching
<1>3. Types'
  BY <1>0, <1>1, <1>2 DEF Types, TypeOK
<1>4. Watching'
  <2>1. ASSUME NEW i \in DOMAIN watches PROVE Stored(watches[i])'
    <3>1. Stored(watches[i]) /\ Alike(watches'[i], watches[i])
      BY <1>0, <1>2 DEF Watching
    <3> QED BY <1>1, <3>1 DEF Stored, Alike, Label
  <2> QED BY <1>2, <2>1 DEF Watching
<1>5. OneWatch'
  BY <1>0, <1>2 DEF OneWatch, Alike
<1>6. Stopped' /\ Untouched' /\ LabelsAreTrue'
  BY <1>0, <1>1 DEF Stopped, Untouched, LabelsAreTrue
<1>7. OneFinalization'
  BY <1>0, <1>1, <1>2 DEF OneFinalization, Watched, Alike
<1> QED BY <1>3, <1>4, <1>5, <1>6, <1>7 DEF IInv

\* A quote is counted for a signal exactly when its watch keeps or drops it.
LEMMA BookFrameKeeps ==
    ASSUME IInv, NEW S \in SUBSET Signals, BookFrame(S)
    PROVE  IInv'
<1> DEFINE ws == [i \in DOMAIN watches |->
               IF watches[i].sig \in S THEN Record(watches[i]) ELSE watches[i]]
           takes(w) == w.sig \in S /\ ~w.retry /\ w.flight # "final"
           took(s) == \E i \in DOMAIN watches : watches[i].sig = s /\ takes(watches[i])
<1>0. /\ Types /\ Watching /\ OneWatch /\ Stopped /\ Untouched
      /\ LabelsAreTrue /\ OneFinalization
  BY DEF IInv
<1>1. /\ watches' = Expire(ws) /\ up
      /\ \A s \in S : offered[s] < MaxQuotes
      /\ offered' = [s \in Signals |-> offered[s] + (IF took(s) THEN 1 ELSE 0)]
      /\ UNCHANGED <<failed, fault, started, durable, finalized, ended, up, ticking,
                     lost, finals, faults, crashes>>
  BY DEF BookFrame
<1>2. ASSUME NEW i \in DOMAIN watches
      PROVE  /\ Shape(ws[i]) /\ ws[i] \in Watch
             /\ ws[i].sig = watches[i].sig /\ ws[i].retry = watches[i].retry
             /\ OnDisk(ws[i]) = OnDisk(watches[i])
             /\ Finished(ws[i]) = Finished(watches[i])
             /\ Finished(watches[i]) => ws[i] = watches[i]
             /\ takes(watches[i]) =>
                  ws[i].total + ws[i].dropped = watches[i].total + watches[i].dropped + 1
             /\ ~takes(watches[i]) => ws[i] = watches[i]
  <2>1. Shape(watches[i]) /\ watches[i] \in Watch
    BY WatchFacts
  <2>2. CASE watches[i].sig \in S
    <3>1. ws[i] = Record(watches[i])
      BY <2>2
    <3>2. takes(watches[i]) <=> ~Deaf(watches[i])
      BY <2>2 DEF Deaf
    <3>3. Finished(watches[i]) => Deaf(watches[i])
      BY DEF Finished, Deaf
    <3> QED BY <2>1, <3>1, <3>2, <3>3, RecordShape DEF Shape
  <2>3. CASE watches[i].sig \notin S
    BY <2>1, <2>3
  <2> QED BY <2>2, <2>3
<1>3. /\ ws \in Seq(Watch) /\ DOMAIN ws = DOMAIN watches
  <2>1. watches \in Seq(Watch)
    BY <1>0 DEF Types
  <2> QED BY <1>2, <2>1
<1> HIDE DEF ws
<1>4. /\ watches' \in Seq(Watch) /\ DOMAIN watches' = DOMAIN watches
      /\ \A i \in DOMAIN watches : Shape(watches'[i]) /\ Alike(watches'[i], ws[i])
  BY <1>1, <1>2, <1>3, ExpireShape
<1>5. ASSUME NEW i \in DOMAIN watches
      PROVE  took(watches[i].sig) <=> takes(watches[i])
  BY <1>0 DEF OneWatch
<1>6. ASSUME NEW s \in Signals, took(s)
      PROVE  s \in S /\ finalized[s] = "no" /\ s \in ToSet(started)
  <2>1. PICK i \in DOMAIN watches : watches[i].sig = s /\ takes(watches[i])
    BY <1>6
  <2> QED BY <2>1, WatchFacts DEF Stored, Finished
<1> HIDE DEF takes, took
<1>7. \A s \in Signals : offered[s] \in Nat /\ offered[s] <= MaxQuotes
  BY <1>0, ConstantsOK DEF Types, TypeOK
<1>8. Types'
  <2>1. offered' \in [Signals -> 0 .. MaxQuotes]
    BY <1>1, <1>6, <1>7, ConstantsOK
  <2> QED BY <1>0, <1>1, <1>4, <2>1 DEF Types, TypeOK
<1>9. Watching'
  <2>1. ASSUME NEW i \in DOMAIN watches PROVE Stored(watches[i])'
    <3> DEFINE w == watches[i]
               v == watches'[i]
               s == w.sig
    <3>1. /\ v.sig = s /\ v.retry = w.retry /\ OnDisk(v) = OnDisk(w)
          /\ Finished(v) = Finished(w) /\ v.total = ws[i].total /\ v.dropped = ws[i].dropped
      BY <1>2, <1>4 DEF Alike
    <3>2. Stored(w) /\ s \in Signals /\ w \in Watch
      BY WatchFacts
    <3>3. Finished(w) => Label(v) = Label(w)
      BY <1>2, <3>1 DEF Label
    <3>4. ~w.retry => offered'[s] = v.total + v.dropped
      <4>1. offered'[s] = offered[s] + (IF took(s) THEN 1 ELSE 0)
        BY <1>1, <3>2
      <4>2. ~w.retry => offered[s] = w.total + w.dropped
        BY <3>2 DEF Stored
      <4>3. w.total \in Nat /\ w.dropped \in Nat
        BY <3>2 DEF Watch
      <4>4. CASE takes(w)
        BY <1>2, <1>5, <3>1, <4>1, <4>2, <4>3, <4>4
      <4>5. CASE ~takes(w)
        BY <1>2, <1>5, <3>1, <4>1, <4>2, <4>3, <4>5
      <4> QED BY <4>4, <4>5
    <3> HIDE DEF w, v
    <3>5. /\ v.sig \in ToSet(started)
          /\ finalized[v.sig] = IF Finished(v) THEN Label(v) ELSE "no"
          /\ v.retry => v.sig \in lost
          /\ ~v.retry => /\ v.sig \notin lost
                         /\ offered'[v.sig] = v.total + v.dropped
                         /\ durable[v.sig] = 1 .. OnDisk(v)
      BY <3>1, <3>2, <3>3, <3>4 DEF Stored
    <3> QED BY <1>1, <3>5 DEF Stored, v
  <2> QED BY <1>4, <2>1 DEF Watching
<1>10. OneWatch'
  BY <1>0, <1>2, <1>4 DEF OneWatch, Alike
<1>11. Stopped'
  BY <1>0, <1>1 DEF Stopped
<1>12. \A s \in Signals : ~took(s) => offered'[s] = offered[s]
  BY <1>1, <1>7
<1>13. Untouched'
  BY <1>0, <1>1, <1>6, <1>12 DEF Untouched
<1>14. LabelsAreTrue'
  BY <1>0, <1>1, <1>6, <1>12 DEF LabelsAreTrue
<1>15. OneFinalization'
  <2>1. \A s : Watched(s) => Watched(s)'
    BY <1>2, <1>4 DEF Watched, Alike
  <2> QED BY <1>0, <1>1, <2>1 DEF OneFinalization
<1> QED BY <1>8, <1>9, <1>10, <1>11, <1>13, <1>14, <1>15 DEF IInv

LEMMA StartedGrows ==
    ASSUME started \in Seq(Signals), IsInjective(started), NEW s \in Signals,
           ~Contains(started, s), started' = Append(started, s)
    PROVE  /\ s \notin ToSet(started)
           /\ started' \in Seq(Signals) /\ IsInjective(started')
           /\ ToSet(started') = ToSet(started) \cup {s}
<1>1. /\ DOMAIN started = 1 .. Len(started) /\ Len(started) \in Nat
      /\ Len(started') = Len(started) + 1 /\ DOMAIN started' = 1 .. Len(started) + 1
      /\ \A i \in 1 .. Len(started) : started'[i] = started[i]
      /\ started'[Len(started) + 1] = s
      /\ started' \in Seq(Signals)
  OBVIOUS
<1>2. s \notin ToSet(started)
  BY <1>1 DEF Contains, ToSet
<1>3. ToSet(started') = ToSet(started) \cup {s}
  <2>1. ASSUME NEW x \in ToSet(started') PROVE x \in ToSet(started) \cup {s}
    <3>1. PICK i \in 1 .. Len(started) + 1 : x = started'[i]
      BY <1>1, <2>1 DEF ToSet
    <3>2. CASE i = Len(started) + 1
      BY <1>1, <3>1, <3>2
    <3>3. CASE i # Len(started) + 1
      <4>1. i \in 1 .. Len(started)
        BY <1>1, <3>3
      <4> QED BY <1>1, <3>1, <4>1 DEF ToSet
    <3> QED BY <3>2, <3>3
  <2>2. ASSUME NEW x \in ToSet(started) PROVE x \in ToSet(started')
    <3>1. PICK i \in 1 .. Len(started) : x = started[i]
      BY <1>1, <2>2 DEF ToSet
    <3>2. i \in DOMAIN started' /\ x = started'[i]
      BY <1>1, <3>1
    <3> QED BY <3>2 DEF ToSet
  <2>3. s \in ToSet(started')
    <3>1. Len(started) + 1 \in DOMAIN started' /\ started'[Len(started) + 1] = s
      BY <1>1
    <3> QED BY <3>1 DEF ToSet
  <2> QED BY <2>1, <2>2, <2>3
<1>4. IsInjective(started')
  <2>1. ASSUME NEW i \in 1 .. Len(started) + 1, NEW j \in 1 .. Len(started) + 1,
               started'[i] = started'[j], i # j
        PROVE  FALSE
    <3>1. CASE i # Len(started) + 1 /\ j # Len(started) + 1
      <4>1. i \in 1 .. Len(started) /\ j \in 1 .. Len(started)
        BY <1>1, <3>1
      <4> QED BY <1>1, <2>1, <4>1 DEF IsInjective
    <3>2. CASE i = Len(started) + 1
      <4>1. j \in 1 .. Len(started)
        BY <1>1, <2>1, <3>2
      <4> QED BY <1>1, <1>2, <2>1, <3>2, <4>1 DEF ToSet
    <3>3. CASE j = Len(started) + 1
      <4>1. i \in 1 .. Len(started)
        BY <1>1, <2>1, <3>3
      <4> QED BY <1>1, <1>2, <2>1, <3>3, <4>1 DEF ToSet
    <3> QED BY <3>1, <3>2, <3>3
  <2> QED BY <1>1, <2>1 DEF IsInjective
<1> QED BY <1>1, <1>2, <1>3, <1>4

\* A new watch is the only one of its signal, and nothing is known of it yet.
LEMMA StartWatchKeeps ==
    ASSUME IInv, NEW s \in Signals, StartWatch(s)
    PROVE  IInv'
<1> DEFINE new == NewWatch(s, FALSE)
           ws == Append(watches, new)
           n == Len(watches) + 1
<1>0. /\ Types /\ Watching /\ OneWatch /\ Stopped /\ Untouched
      /\ LabelsAreTrue /\ OneFinalization
  BY DEF IInv
<1>1. /\ up /\ ~Contains(started, s) /\ started' = Append(started, s)
      /\ watches' = Evict(ws)
      /\ UNCHANGED <<failed, fault, durable, finalized, ended, up, ticking,
                     offered, lost, finals, faults, crashes>>
  BY DEF StartWatch
<1>2. /\ s \notin ToSet(started) /\ started' \in Seq(Signals) /\ IsInjective(started')
      /\ ToSet(started') = ToSet(started) \cup {s}
  BY <1>0, <1>1, StartedGrows DEF Types, TypeOK
<1>3. /\ Shape(new) /\ new \in Watch /\ OnDisk(new) = 0 /\ ~Finished(new)
      /\ new.sig = s /\ new.retry = FALSE /\ new.total = 0 /\ new.dropped = 0
  BY NewWatchShape DEF Shape, NewWatch
<1> HIDE DEF new
<1>4. /\ ws \in Seq(Watch) /\ Len(watches) \in Nat
      /\ DOMAIN watches = 1 .. Len(watches) /\ DOMAIN ws = 1 .. n
      /\ \A i \in 1 .. Len(watches) : ws[i] = watches[i]
      /\ ws[n] = new
  BY <1>0, <1>3 DEF Types
<1>5. \A i \in DOMAIN ws : Shape(ws[i])
  <2>1. ASSUME NEW i \in 1 .. n PROVE Shape(ws[i])
    <3>1. CASE i = n
      BY <1>3, <1>4, <3>1
    <3>2. CASE i # n
      <4>1. i \in 1 .. Len(watches)
        BY <1>4, <3>2
      <4> QED BY <1>0, <1>4, <4>1 DEF Watching
    <3> QED BY <3>1, <3>2
  <2> QED BY <1>4, <2>1
<1> HIDE DEF ws
<1>6. /\ watches' \in Seq(Watch) /\ DOMAIN watches' = 1 .. n
      /\ \A i \in 1 .. n : Shape(watches'[i]) /\ Alike(watches'[i], ws[i])
  BY <1>1, <1>4, <1>5, EvictShape
<1>7. ASSUME NEW i \in 1 .. n, i # n
      PROVE  i \in DOMAIN watches /\ ws[i] = watches[i]
             /\ watches[i].sig \in ToSet(started) /\ Stored(watches[i])
  <2>1. i \in 1 .. Len(watches)
    BY <1>4, <1>7
  <2> QED BY <1>4, <2>1, WatchFacts
<1>8. /\ finalized[s] = "no" /\ durable[s] = {} /\ offered[s] = 0 /\ finals[s] = 0
      /\ s \notin lost
  BY <1>0, <1>2 DEF Untouched, Types, TypeOK
<1>9. Types'
  BY <1>0, <1>1, <1>2, <1>6 DEF Types, TypeOK
<1>10. Watching'
  <2>1. ASSUME NEW i \in 1 .. n PROVE Stored(watches[i])'
    <3>1. CASE i = n
      <4> DEFINE v == watches'[i]
      <4>1. /\ v.sig = s /\ v.retry = FALSE /\ v.total = 0 /\ v.dropped = 0
            /\ OnDisk(v) = 0 /\ ~Finished(v)
        BY <1>3, <1>4, <1>6, <3>1 DEF Alike
      <4>2. durable[s] = 1 .. OnDisk(v)
        BY <1>8, <4>1
      <4> HIDE DEF v
      <4>3. /\ v.sig \in ToSet(started') /\ finalized[v.sig] = "no" /\ v.sig \notin lost
            /\ offered[v.sig] = v.total + v.dropped
            /\ durable[v.sig] = 1 .. OnDisk(v)
        BY <1>2, <1>8, <4>1, <4>2
      <4> QED BY <1>1, <4>1, <4>3 DEF Stored, v
    <3>2. CASE i # n
      <4>1. Stored(watches[i]) /\ Alike(watches'[i], watches[i])
        BY <1>6, <1>7, <3>2
      <4>2. ToSet(started) \subseteq ToSet(started')
        BY <1>2
      <4> QED BY <1>1, <4>1, <4>2 DEF Stored, Alike, Label
    <3> QED BY <3>1, <3>2
  <2> QED BY <1>6, <2>1 DEF Watching
<1>11. OneWatch'
  <2>1. \A i \in 1 .. n : watches'[i].sig = IF i = n THEN s ELSE watches[i].sig
    BY <1>3, <1>4, <1>6, <1>7 DEF Alike
  <2>2. ASSUME NEW i \in 1 .. n, NEW j \in 1 .. n, watches'[i].sig = watches'[j].sig
        PROVE  i = j
    BY <1>0, <1>2, <1>7, <2>1, <2>2 DEF OneWatch
  <2> QED BY <1>6, <2>2 DEF OneWatch
<1>12. Stopped'
  BY <1>0, <1>1 DEF Stopped
<1>13. Untouched' /\ LabelsAreTrue'
  BY <1>0, <1>1, <1>2 DEF Untouched, LabelsAreTrue
<1>14. OneFinalization'
  <2>1. ASSUME NEW t, Watched(t) PROVE Watched(t)'
    <3>1. PICK i \in DOMAIN watches : watches[i].sig = t
      BY <2>1 DEF Watched
    <3>2. i \in 1 .. n /\ i # n
      BY <1>4
    <3>3. watches'[i].sig = t
      BY <1>6, <1>7, <3>1, <3>2 DEF Alike
    <3> QED BY <1>6, <3>2, <3>3 DEF Watched
  <2>2. Watched(s)'
    <3>1. n \in 1 .. n
      BY <1>4
    <3>2. watches'[n].sig = s
      BY <1>3, <1>4, <1>6, <3>1 DEF Alike
    <3> QED BY <1>6, <3>1, <3>2 DEF Watched
  <2>3. ASSUME NEW t \in ToSet(started')
        PROVE  /\ finals[t] = IF finalized[t] = "no" THEN 0 ELSE 1
               /\ up /\ finalized[t] = "no" /\ t \notin lost => Watched(t)'
    <3>1. CASE t = s
      BY <1>8, <2>2, <3>1
    <3>2. CASE t # s
      BY <1>0, <1>2, <2>1, <3>2 DEF OneFinalization
    <3> QED BY <3>1, <3>2
  <2> QED BY <1>1, <2>3 DEF OneFinalization
<1> QED BY <1>9, <1>10, <1>11, <1>12, <1>13, <1>14 DEF IInv

\* A path whose start is interrupted is nobody's.
LEMMA StartInterruptedKeeps ==
    ASSUME IInv, NEW s \in Signals, StartInterrupted(s)
    PROVE  IInv'
<1>0. /\ Types /\ Watching /\ OneWatch /\ Stopped /\ Untouched
      /\ LabelsAreTrue /\ OneFinalization
  BY DEF IInv
<1>1. /\ up /\ ~Contains(started, s) /\ started' = Append(started, s)
      /\ lost' = lost \cup {s} /\ faults < MaxFaults /\ faults' = faults + 1
      /\ ticking' \in {ticking, FALSE}
      /\ UNCHANGED <<watches, failed, fault, durable, finalized, ended, up,
                     offered, finals, crashes>>
  BY DEF StartInterrupted
<1>2. /\ s \notin ToSet(started) /\ started' \in Seq(Signals) /\ IsInjective(started')
      /\ ToSet(started') = ToSet(started) \cup {s}
  BY <1>0, <1>1, StartedGrows DEF Types, TypeOK
<1>3. /\ finalized[s] = "no" /\ durable[s] = {} /\ offered[s] = 0 /\ finals[s] = 0
  BY <1>0, <1>2 DEF Untouched
<1>4. faults' \in Nat /\ faults' <= MaxFaults
  BY <1>0, <1>1, ConstantsOK DEF Types
<1>5. Types'
  BY <1>0, <1>1, <1>2, <1>4 DEF Types, TypeOK
<1>6. Watching'
  <2>1. ASSUME NEW i \in DOMAIN watches PROVE Shape(watches[i]) /\ Stored(watches[i])'
    <3>1. Shape(watches[i]) /\ Stored(watches[i]) /\ watches[i].sig \in ToSet(started)
      BY WatchFacts
    <3>2. watches[i].sig # s
      BY <1>2, <3>1
    <3> QED BY <1>1, <1>2, <3>1, <3>2 DEF Stored
  <2> QED BY <1>1, <2>1 DEF Watching
<1>7. OneWatch' /\ Stopped'
  BY <1>0, <1>1 DEF OneWatch, Stopped
<1>8. Untouched' /\ LabelsAreTrue'
  BY <1>0, <1>1, <1>2, <1>3 DEF Untouched, LabelsAreTrue
<1>9. OneFinalization'
  <2>1. \A t : Watched(t) => Watched(t)'
    BY <1>1 DEF Watched
  <2>2. ASSUME NEW t \in ToSet(started')
        PROVE  /\ finals[t] = IF finalized[t] = "no" THEN 0 ELSE 1
               /\ up /\ finalized[t] = "no" /\ t \notin lost' => Watched(t)'
    BY <1>0, <1>1, <1>2, <1>3, <2>1 DEF OneFinalization
  <2> QED BY <1>1, <2>2 DEF OneFinalization
<1> QED BY <1>5, <1>6, <1>7, <1>8, <1>9 DEF IInv

LEMMA WindowEndsKeeps ==
    ASSUME IInv, NEW s \in Signals, WindowEnds(s)
    PROVE  IInv'
<1>0. /\ Types /\ Watching /\ OneWatch /\ Stopped /\ Untouched
      /\ LabelsAreTrue /\ OneFinalization
  BY DEF IInv
<1>1. /\ Contains(started, s) /\ ended' = ended \cup {s}
      /\ UNCHANGED <<watches, failed, fault, started, durable, finalized, up, ticking,
                     offered, lost, finals, faults, crashes>>
  BY DEF WindowEnds
<1>2. s \in ToSet(started)
  BY <1>0, <1>1 DEF Contains, ToSet, Types
<1>3. Types'
  BY <1>0, <1>1, <1>2 DEF Types, TypeOK
<1>4. Watching'
  BY <1>0, <1>1 DEF Watching, Stored
<1>6. OneWatch' /\ Stopped' /\ Untouched' /\ LabelsAreTrue'
  BY <1>0, <1>1 DEF OneWatch, Stopped, Unfinalized, Untouched, LabelsAreTrue
<1>5. OneFinalization'
  BY <1>0, <1>1 DEF OneFinalization, Watched
<1> QED BY <1>3, <1>4, <1>5, <1>6 DEF IInv
-----------------------------------------------------------------------------
(***************************************************************************)
(* Writes                                                                  *)
(***************************************************************************)

\* What a worker has done is the answer of its watch and nothing else of it.
LEMMA AnswerFacts ==
    ASSUME Types, NEW i \in DOMAIN watches, NEW a \in {"ok", "failed"},
           watches' = [watches EXCEPT ![i].answer = a]
    PROVE  /\ watches' \in Seq(Watch) /\ DOMAIN watches' = DOMAIN watches
           /\ \A j \in DOMAIN watches :
                IF j = i THEN watches'[j] = [watches[j] EXCEPT !.answer = a]
                         ELSE watches'[j] = watches[j]
<1> DEFINE v == [watches[i] EXCEPT !.answer = a]
<1>1. watches \in Seq(Watch)
  BY DEF Types
<1>2. watches[i] \in Watch
  BY <1>1
<1>3. v \in Watch
  BY <1>2 DEF Watch
<1>4. watches' = [watches EXCEPT ![i] = v]
  OBVIOUS
<1> HIDE DEF v
<1>5. /\ watches' \in Seq(Watch) /\ DOMAIN watches' = DOMAIN watches
      /\ \A j \in DOMAIN watches : watches'[j] = IF j = i THEN v ELSE watches[j]
  BY <1>1, <1>3, <1>4
<1> QED BY <1>5 DEF v

\* An answer does not touch what Shape says of a write under way.
LEMMA AnswerShape ==
    ASSUME NEW w, Shape(w), w.flight # "none", NEW a \in {"ok", "failed"}
    PROVE  LET v == [w EXCEPT !.answer = a] IN
           /\ Shape(v)
           /\ v.sig = w.sig /\ v.rows = w.rows /\ v.total = w.total
           /\ v.dropped = w.dropped /\ v.retry = w.retry /\ v.flight = w.flight
           /\ v.sent = w.sent /\ v.answer = a
           /\ Flushed(v) = Flushed(w) /\ Label(v) = Label(w)
<1> DEFINE v == [w EXCEPT !.answer = a]
<1>1. w \in Watch
  BY DEF Shape
<1>2. /\ v \in Watch
      /\ v.sig = w.sig /\ v.rows = w.rows /\ v.total = w.total
      /\ v.dropped = w.dropped /\ v.retry = w.retry /\ v.flight = w.flight
      /\ v.sent = w.sent /\ v.answer = a
  BY <1>1 DEF Watch
<1> HIDE DEF v
<1>3. Flushed(v) = Flushed(w) /\ Label(v) = Label(w)
  BY <1>2 DEF Flushed, Label
<1>4. Shape(v)
  BY <1>2, <1>3 DEF Shape
<1> QED BY <1>2, <1>3, <1>4 DEF v

\* A failed write leaves the database and the buffer alone.
LEMMA WorkerFailsKeeps ==
    ASSUME IInv, NEW i \in DOMAIN watches, WorkerFails(i)
    PROVE  IInv'
<1>0. /\ Types /\ Watching /\ OneWatch /\ Stopped /\ Untouched
      /\ LabelsAreTrue /\ OneFinalization
  BY DEF IInv
<1>1. /\ up /\ watches[i].flight # "none" /\ watches[i].answer = "none"
      /\ watches' = [watches EXCEPT ![i].answer = "failed"]
      /\ UNCHANGED <<failed, fault, started, durable, finalized, ended, up, ticking,
                     offered, lost, finals, crashes>>
  BY DEF WorkerFails, Waiting
<1>2. faults' \in Nat /\ faults' <= MaxFaults
  <2>1. faults' = faults \/ (faults < MaxFaults /\ faults' = faults + 1)
    BY DEF WorkerFails
  <2> QED BY <1>0, <2>1, ConstantsOK DEF Types, TypeOK
<1>3. /\ watches' \in Seq(Watch) /\ DOMAIN watches' = DOMAIN watches
      /\ \A j \in DOMAIN watches :
           IF j = i THEN watches'[j] = [watches[j] EXCEPT !.answer = "failed"]
                    ELSE watches'[j] = watches[j]
  BY <1>0, <1>1, AnswerFacts
<1>4. ASSUME NEW j \in DOMAIN watches
      PROVE  Shape(watches'[j]) /\ Alike(watches'[j], watches[j])
  <2>1. Shape(watches[j])
    BY WatchFacts
  <2>2. CASE j = i
    <3> DEFINE v == [watches[i] EXCEPT !.answer = "failed"]
    <3>1. watches'[j] = v
      BY <1>3, <2>2
    <3>2. /\ Shape(v) /\ v.sig = watches[i].sig /\ v.retry = watches[i].retry
          /\ v.total = watches[i].total /\ v.dropped = watches[i].dropped
          /\ v.answer = "failed" /\ Flushed(v) = Flushed(watches[i])
      BY <1>1, <2>1, <2>2, AnswerShape
    <3> HIDE DEF v
    <3>3. OnDisk(v) = OnDisk(watches[i]) /\ Finished(v) = Finished(watches[i])
      BY <1>1, <3>2 DEF OnDisk, Finished
    <3> QED BY <2>2, <3>1, <3>2, <3>3 DEF Alike
  <2>3. CASE j # i
    BY <1>3, <2>1, <2>3, AlikeItself
  <2> QED BY <2>2, <2>3
<1>5. Types'
  BY <1>0, <1>1, <1>2, <1>3 DEF Types, TypeOK
<1>6. Watching'
  <2>1. ASSUME NEW j \in DOMAIN watches PROVE Stored(watches[j])'
    <3>1. Stored(watches[j]) /\ Alike(watches'[j], watches[j])
      BY <1>0, <1>4 DEF Watching
    <3> QED BY <1>1, <3>1 DEF Stored, Alike, Label
  <2> QED BY <1>3, <1>4, <2>1 DEF Watching
<1>7. OneWatch'
  BY <1>0, <1>3, <1>4 DEF OneWatch, Alike
<1>8. Stopped' /\ Untouched' /\ LabelsAreTrue'
  BY <1>0, <1>1 DEF Stopped, Untouched, LabelsAreTrue
<1>9. OneFinalization'
  BY <1>0, <1>1, <1>3, <1>4 DEF OneFinalization, Watched, Alike
<1> QED BY <1>5, <1>6, <1>7, <1>8, <1>9 DEF IInv

\* The rows of a write follow the flushed ones.
LEMMA SentRows ==
    ASSUME NEW w, Shape(w)
    PROVE  /\ Flushed(w) \in Nat /\ Len(w.sent) \in Nat
           /\ Flushed(w) + Len(w.sent) <= w.total
           /\ w.total \in Nat /\ w.dropped \in Nat
           /\ ToSet(w.sent) = Flushed(w) + 1 .. Flushed(w) + Len(w.sent)
<1>1. /\ w.rows \in Seq(Nat) /\ w.sent \in Seq(Nat)
      /\ w.total \in Nat /\ w.dropped \in Nat
  BY DEF Shape, Watch
<1>2. /\ Len(w.rows) \in Nat /\ Len(w.sent) \in Nat /\ Len(w.rows) <= w.total
      /\ Len(w.sent) <= Len(w.rows) /\ DOMAIN w.sent = 1 .. Len(w.sent)
  BY <1>1 DEF Shape
<1> DEFINE r == Len(w.rows)
           n == Len(w.sent)
           t == w.total
           f == Flushed(w)
<1>3. f = t - r
  BY DEF Flushed
<1>4. \A k \in 1 .. n : w.sent[k] = f + k
  BY DEF Shape
<1>5. ToSet(w.sent) = {w.sent[k] : k \in 1 .. n}
  BY <1>2 DEF ToSet
<1>6. r \in Nat /\ n \in Nat /\ t \in Nat /\ r <= t /\ n <= r
  BY <1>1, <1>2
<1> HIDE DEF r, n, t, f
<1>7. f \in Nat /\ f + n <= t
  BY <1>3, <1>6
<1>8. {w.sent[k] : k \in 1 .. n} = f + 1 .. f + n
  <2>1. ASSUME NEW x \in f + 1 .. f + n PROVE \E k \in 1 .. n : x = w.sent[k]
    <3>1. x - f \in 1 .. n /\ x = f + (x - f)
      BY <1>6, <1>7
    <3> QED BY <1>4, <3>1
  <2>2. ASSUME NEW k \in 1 .. n PROVE w.sent[k] \in f + 1 .. f + n
    BY <1>4, <1>6, <1>7
  <2> QED BY <2>1, <2>2
<1> QED BY <1>1, <1>5, <1>6, <1>7, <1>8 DEF n, t, f

\* A retry holds no rows.
LEMMA RetryIsEmpty ==
    ASSUME NEW w, Shape(w), w.retry
    PROVE  ToSet(w.sent) = {}
<1>1. Flushed(w) \in Nat /\ Len(w.sent) \in Nat /\ Flushed(w) + Len(w.sent) <= w.total
      /\ ToSet(w.sent) = Flushed(w) + 1 .. Flushed(w) + Len(w.sent)
  BY SentRows
<1>2. w.total = 0
  BY DEF Shape
<1> DEFINE f == Flushed(w)
           n == Len(w.sent)
<1>3. f \in Nat /\ n \in Nat /\ f + n <= 0 /\ ToSet(w.sent) = f + 1 .. f + n
  BY <1>1, <1>2
<1> HIDE DEF f, n
<1> QED BY <1>3

\* A committed write extends the rows on disk by its own, and a committed
\* finalisation labels the path by what its watch was offered and dropped.
LEMMA WorkerCommitsKeeps ==
    ASSUME IInv, NEW i \in DOMAIN watches, WorkerCommits(i)
    PROVE  IInv'
<1> DEFINE w == watches[i]
           v == [w EXCEPT !.answer = "ok"]
           s == w.sig
<1>0. /\ Types /\ Watching /\ OneWatch /\ Stopped /\ Untouched
      /\ LabelsAreTrue /\ OneFinalization
  BY DEF IInv
<1>1. /\ up /\ w.flight # "none" /\ w.answer = "none"
      /\ watches' = [watches EXCEPT ![i].answer = "ok"]
      /\ durable' = [durable EXCEPT ![s] = @ \cup ToSet(w.sent)]
      /\ UNCHANGED <<failed, fault, started, ended, up, ticking,
                     offered, lost, faults, crashes>>
  BY DEF WorkerCommits, Waiting
<1>2. IF w.flight = "final"
      THEN /\ finalized' = [finalized EXCEPT ![s] = Label(w)]
           /\ finals' = [finals EXCEPT ![s] = @ + 1]
      ELSE finalized' = finalized /\ finals' = finals
  BY DEF WorkerCommits
<1>3. /\ watches' \in Seq(Watch) /\ DOMAIN watches' = DOMAIN watches
      /\ \A j \in DOMAIN watches :
           IF j = i THEN watches'[j] = v ELSE watches'[j] = watches[j]
  BY <1>0, <1>1, AnswerFacts
<1>4. /\ w \in Watch /\ s \in Signals /\ Shape(w) /\ Stored(w)
      /\ s \in ToSet(started) /\ w.retry \in BOOLEAN
  BY WatchFacts
<1>5. /\ Shape(v)
      /\ v.sig = s /\ v.rows = w.rows /\ v.total = w.total
      /\ v.dropped = w.dropped /\ v.retry = w.retry /\ v.flight = w.flight
      /\ v.sent = w.sent /\ v.answer = "ok"
      /\ Flushed(v) = Flushed(w) /\ Label(v) = Label(w)
  BY <1>1, <1>4, AnswerShape
<1> HIDE DEF v
<1>6. /\ Flushed(w) \in Nat /\ Len(w.sent) \in Nat
      /\ Flushed(w) + Len(w.sent) <= w.total
      /\ w.total \in Nat /\ w.dropped \in Nat
      /\ ToSet(w.sent) = Flushed(w) + 1 .. Flushed(w) + Len(w.sent)
  BY <1>4, SentRows
<1>7. OnDisk(w) = Flushed(w) /\ OnDisk(v) = Flushed(w) + Len(w.sent)
  BY <1>1, <1>5, <1>6 DEF OnDisk
<1>8. ~Finished(w) /\ finalized[s] = "no"
  BY <1>1, <1>4 DEF Stored, Finished
<1>9. Finished(v) <=> w.flight = "final"
  BY <1>5 DEF Finished
<1>10. /\ durable'[s] = durable[s] \cup ToSet(w.sent)
       /\ \A t \in Signals \ {s} : durable'[t] = durable[t]
       /\ durable' \in [Signals -> SUBSET Nat]
  <2>1. durable \in [Signals -> SUBSET Nat]
    BY <1>0 DEF Types
  <2>2. ToSet(w.sent) \in SUBSET Nat
    BY <1>6
  <2> HIDE DEF w, s
  <2> QED BY <1>1, <1>4, <2>1, <2>2
<1>11. IF w.retry THEN durable'[s] = durable[s] ELSE durable'[s] = 1 .. OnDisk(v)
  <2>1. CASE w.retry
    BY <1>4, <1>10, <2>1, RetryIsEmpty
  <2>2. CASE ~w.retry
    <3> DEFINE f == Flushed(w)
               n == Len(w.sent)
    <3>1. durable[s] = 1 .. f
      BY <1>4, <1>7, <2>2 DEF Stored
    <3>2. durable'[s] = (1 .. f) \cup (f + 1 .. f + n) /\ f \in Nat /\ n \in Nat
          /\ OnDisk(v) = f + n
      BY <1>6, <1>7, <1>10, <3>1
    <3> HIDE DEF f, n, s, w
    <3>3. (1 .. f) \cup (f + 1 .. f + n) = 1 .. f + n
      BY <3>2
    <3> QED BY <2>2, <3>2, <3>3
  <2> QED BY <2>1, <2>2
<1>12. Label(w) \in Labels \ {"no"}
  BY DEF Label, Labels
<1>13. /\ finalized' \in [Signals -> Labels] /\ finals' \in [Signals -> Nat]
       /\ finalized'[s] = IF w.flight = "final" THEN Label(w) ELSE "no"
       /\ finals'[s] = IF w.flight = "final" THEN finals[s] + 1 ELSE finals[s]
       /\ \A t \in Signals \ {s} : finalized'[t] = finalized[t] /\ finals'[t] = finals[t]
  <2>1. finalized \in [Signals -> Labels] /\ finals \in [Signals -> Nat]
    BY <1>0 DEF Types, TypeOK
  <2> HIDE DEF w, s
  <2>2. CASE w.flight = "final"
    <3>1. /\ finalized' = [finalized EXCEPT ![s] = Label(w)]
          /\ finals' = [finals EXCEPT ![s] = finals[s] + 1]
      BY <1>2, <2>2
    <3>2. finals[s] + 1 \in Nat
      BY <1>4, <2>1
    <3> QED BY <1>4, <1>12, <2>1, <2>2, <3>1, <3>2
  <2>3. CASE w.flight # "final"
    BY <1>2, <1>4, <1>8, <2>1, <2>3
  <2> QED BY <2>2, <2>3
<1>14. Types'
  <2>1. \A t \in Signals : durable'[t] \subseteq 1 .. MaxSamples - 1
    <3>1. \A t \in Signals : durable[t] \subseteq 1 .. MaxSamples - 1
      BY <1>0 DEF Types, TypeOK
    <3>2. 1 .. OnDisk(v) \subseteq 1 .. MaxSamples - 1
      <4>1. OnDisk(v) \in Nat /\ OnDisk(v) <= w.total /\ w.total <= MaxSamples - 1
            /\ MaxSamples - 1 \in Nat
        BY <1>4, <1>6, <1>7, ConstantsOK DEF Shape
      <4> HIDE DEF w
      <4> QED BY <1>6, <4>1
    <3> QED BY <1>10, <1>11, <3>1, <3>2
  <2> HIDE DEF w, s
  <2>2. /\ fault' = (failed' # {})
        /\ up' \in BOOLEAN /\ ticking' \in BOOLEAN /\ (ticking' => up')
    <3>1. fault' = fault /\ failed' = failed /\ up' = up /\ ticking' = ticking
      BY <1>1
    <3>2. /\ fault = (failed # {})
          /\ up \in BOOLEAN /\ ticking \in BOOLEAN /\ (ticking => up)
      BY <1>0 DEF Types, TypeOK
    <3> QED BY <3>1, <3>2
  <2>3. TypeOK'
    <3>1. \A j \in DOMAIN watches' : watches'[j] \in Watch
      <4>1. watches' \in Seq(Watch)
        BY <1>3
      <4> QED BY <4>1
    <3>2. finalized' \in [Signals -> Labels]
      BY <1>13
    <3>3. TypeOK
      BY <1>0 DEF Types
    <3>4. UNCHANGED <<failed, started, ended, offered, lost, faults, crashes>>
      BY <1>1
    <3> QED BY <2>1, <2>2, <3>1, <3>2, <3>3, <3>4 DEF TypeOK
  <2> QED BY <1>0, <1>1, <1>3, <1>10, <1>13, <2>3 DEF Types
<1>15. Watching'
  <2>1. ASSUME NEW j \in DOMAIN watches PROVE Shape(watches'[j]) /\ Stored(watches[j])'
    <3>1. CASE j = i
      <4>1. watches'[j] = v
        BY <1>3, <3>1
      <4>2. /\ v.sig \in ToSet(started)
            /\ finalized'[v.sig] = IF Finished(v) THEN Label(v) ELSE "no"
            /\ v.retry => v.sig \in lost
            /\ ~v.retry => /\ v.sig \notin lost
                           /\ offered[v.sig] = v.total + v.dropped
                           /\ durable'[v.sig] = 1 .. OnDisk(v)
        BY <1>4, <1>5, <1>9, <1>11, <1>13 DEF Stored
      <4> HIDE DEF w, s
      <4> QED BY <1>1, <1>5, <4>1, <4>2 DEF Stored
    <3>2. CASE j # i
      <4> DEFINE u == watches[j]
      <4>1. watches'[j] = u /\ Shape(u) /\ Stored(u) /\ u.sig \in Signals
        BY <1>3, <3>2, WatchFacts
      <4>2. u.sig # s
        BY <1>0, <3>2 DEF OneWatch
      <4>3. finalized'[u.sig] = finalized[u.sig] /\ durable'[u.sig] = durable[u.sig]
        BY <1>10, <1>13, <4>1, <4>2
      <4> HIDE DEF u, w, s
      <4> QED BY <1>1, <4>1, <4>3 DEF Stored
    <3> QED BY <3>1, <3>2
  <2> QED BY <1>3, <2>1 DEF Watching
<1>16. \A j \in DOMAIN watches : watches'[j].sig = watches[j].sig
  BY <1>3, <1>5
<1>17. OneWatch'
  BY <1>0, <1>3, <1>16 DEF OneWatch
<1>18. Stopped'
  BY <1>0, <1>1 DEF Stopped
<1>19. Untouched'
  <2>1. \A t \in Signals \ ToSet(started) : t \in Signals \ {s}
    BY <1>4
  <2> QED BY <1>0, <1>1, <1>10, <1>13, <2>1 DEF Untouched
<1>20. LabelsAreTrue'
  <2>1. ASSUME NEW t \in Signals
        PROVE  /\ finalized'[t] = "complete" => durable'[t] = 1 .. offered[t]
               /\ finalized'[t] = "truncated" => Cardinality(durable'[t]) < offered[t]
               /\ finalized'[t] # "no" => (finalized'[t] = "incomplete" <=> t \in lost)
    <3>1. CASE t # s
      <4> HIDE DEF s
      <4> QED BY <1>0, <1>10, <1>13, <3>1 DEF LabelsAreTrue
    <3>2. CASE t = s /\ w.flight # "final"
      BY <1>13, <3>2
    <3>3. CASE t = s /\ w.flight = "final"
      <4>1. OnDisk(v) = w.total
        <5>1. Len(w.sent) = Len(w.rows) /\ w.total \in Nat /\ Len(w.sent) \in Nat
          BY <1>4, <1>6, <3>3 DEF Shape
        <5>2. Flushed(w) = w.total - Len(w.sent)
          BY <5>1 DEF Flushed
        <5> HIDE DEF w
        <5> QED BY <1>7, <5>1, <5>2
      <4>2. finalized'[s] = Label(w)
        BY <1>13, <3>3
      <4>3. CASE w.retry
        BY <1>4, <3>3, <4>2, <4>3 DEF Label, Stored
      <4>4. CASE ~w.retry
        <5>1. /\ durable'[s] = 1 .. w.total /\ s \notin lost
              /\ offered[s] = w.total + w.dropped
              /\ Label(w) = IF w.dropped > 0 THEN "truncated" ELSE "complete"
          BY <1>4, <1>11, <4>1, <4>4 DEF Stored, Label
        <5>2. Cardinality(1 .. w.total) = w.total
          <6> DEFINE n == w.total
          <6>1. n \in Nat
            BY <1>6
          <6> HIDE DEF n
          <6>2. Cardinality(1 .. n) = IF 1 > n THEN 0 ELSE n - 1 + 1
            BY <6>1, FS_Interval
          <6>3. Cardinality(1 .. n) = n
            BY <6>1, <6>2
          <6> QED BY <6>3 DEF n
        <5>3. w.dropped > 0 \/ w.dropped = 0
          BY <1>6
        <5> DEFINE n == w.total
                   d == w.dropped
        <5>4. n \in Nat /\ d \in Nat
          BY <1>6
        <5>5. /\ d > 0 => n < n + d
              /\ d = 0 => ~(d > 0) /\ n + d = n
          BY <5>4
        <5> HIDE DEF s
        <5> QED BY <3>3, <4>2, <5>1, <5>2, <5>3, <5>5
      <4> QED BY <1>4, <4>3, <4>4
    <3> QED BY <3>1, <3>2, <3>3
  <2> QED BY <1>1, <2>1 DEF LabelsAreTrue
<1>21. OneFinalization'
  <2>1. \A t : Watched(t) => Watched(t)'
    BY <1>3, <1>16 DEF Watched
  <2>2. ASSUME NEW t \in ToSet(started)
        PROVE  /\ finals'[t] = IF finalized'[t] = "no" THEN 0 ELSE 1
               /\ up /\ finalized'[t] = "no" /\ t \notin lost => Watched(t)'
    <3>1. t \in Signals
      BY <1>0 DEF Types, TypeOK
    <3>2. /\ finals[t] = IF finalized[t] = "no" THEN 0 ELSE 1
          /\ up /\ finalized[t] = "no" /\ t \notin lost => Watched(t)
      BY <1>0 DEF OneFinalization
    <3> HIDE DEF s, w
    <3>3. CASE t # s
      BY <1>13, <2>1, <3>1, <3>2, <3>3
    <3>4. CASE t = s
      <4>1. finals[s] = 0
        BY <1>8, <3>2, <3>4
      <4>2. finals'[s] = IF w.flight = "final" THEN 1 ELSE 0
        BY <1>13, <4>1
      <4>3. finalized'[s] = "no" <=> w.flight # "final"
        BY <1>12, <1>13
      <4> QED BY <1>8, <2>1, <3>2, <3>4, <4>2, <4>3
    <3> QED BY <3>3, <3>4
  <2> QED BY <1>1, <2>2 DEF OneFinalization
<1> QED BY <1>14, <1>15, <1>17, <1>18, <1>19, <1>20, <1>21 DEF IInv

LEMMA RemoveAtFacts ==
    ASSUME NEW S, NEW q \in Seq(S), NEW i \in 1 .. Len(q)
    PROVE  /\ RemoveAt(q, i) \in Seq(S)
           /\ Len(q) - 1 \in Nat
           /\ DOMAIN RemoveAt(q, i) = 1 .. Len(q) - 1
           /\ \A j \in 1 .. Len(q) - 1 :
                RemoveAt(q, i)[j] = q[IF j < i THEN j ELSE j + 1]
<1> DEFINE n == Len(q)
           a == SubSeq(q, 1, i - 1)
           b == SubSeq(q, i + 1, n)
<1>1. n \in Nat /\ i \in Nat /\ 1 <= i /\ i <= n
  OBVIOUS
<1>2. a \in Seq(S) /\ Len(a) = i - 1 /\ \A j \in 1 .. i - 1 : a[j] = q[j]
  <2>1. \A j \in 1 .. i - 1 : j \in 1 .. n
    BY <1>1
  <2>2. a \in Seq(S) /\ Len(a) = i - 1
    BY <1>1
  <2> QED BY <1>1, <2>2
<1>3. b \in Seq(S) /\ Len(b) = n - i /\ \A j \in 1 .. n - i : b[j] = q[i + j]
  BY <1>1
<1>4. RemoveAt(q, i) = a \o b
  BY DEF RemoveAt
<1> HIDE DEF a, b, n
<1>5. /\ a \o b \in Seq(S) /\ Len(a \o b) = n - 1
      /\ \A j \in 1 .. n - 1 :
           (a \o b)[j] = IF j <= i - 1 THEN a[j] ELSE b[j - (i - 1)]
  <2>1. Len(a) + Len(b) = n - 1
    BY <1>1, <1>2, <1>3
  <2>2. a \in Seq(S) /\ b \in Seq(S)
    BY <1>2, <1>3
  <2>3. /\ a \o b \in Seq(S) /\ Len(a \o b) = Len(a) + Len(b)
        /\ \A j \in 1 .. Len(a) + Len(b) :
             (a \o b)[j] = IF j <= Len(a) THEN a[j] ELSE b[j - Len(a)]
    BY ONLY <2>2, ConcatProperties
  <2>4. Len(a) = i - 1
    BY <1>2
  <2> QED BY ONLY <2>1, <2>3, <2>4
<1>6. ASSUME NEW j \in 1 .. n - 1
      PROVE  (a \o b)[j] = q[IF j < i THEN j ELSE j + 1]
  <2>1. CASE j < i
    <3>1. j \in 1 .. i - 1 /\ j \in 1 .. Len(a)
      BY <1>1, <1>2, <2>1
    <3>2. (a \o b)[j] = a[j]
      BY <1>1, <1>5, <2>1
    <3> QED BY <1>2, <2>1, <3>1, <3>2
  <2>2. CASE ~(j < i)
    <3>1. j - (i - 1) \in 1 .. n - i /\ i + (j - (i - 1)) = j + 1
      BY <1>1, <2>2
    <3>2. (a \o b)[j] = b[j - (i - 1)]
      BY <1>1, <1>5, <2>2
    <3> QED BY <1>3, <2>2, <3>1, <3>2
  <2> QED BY <2>1, <2>2
<1> QED BY <1>1, <1>4, <1>5, <1>6 DEF n

\* The callback leaves a watch that says of its path what it said before.
LEMMA SettledShape ==
    ASSUME NEW w, Shape(w), w.answer # "none"
    PROVE  LET idle == [w EXCEPT !.flight = "none", !.sent = <<>>, !.answer = "none"]
               kept == [idle EXCEPT !.rows = Kept(w)] IN
           /\ w.answer = "failed" => Shape(idle) /\ Alike(idle, w)
           /\ w.answer = "ok" /\ w.flight = "flush" => Shape(kept) /\ Alike(kept, w)
<1> DEFINE idle == [w EXCEPT !.flight = "none", !.sent = <<>>, !.answer = "none"]
           kept == [idle EXCEPT !.rows = Kept(w)]
<1>1. w \in Watch /\ w.rows \in Seq(Nat)
  BY DEF Shape, Watch
<1>2. /\ Flushed(w) \in Nat /\ Len(w.sent) \in Nat /\ w.total \in Nat
      /\ Len(w.rows) \in Nat /\ Len(w.sent) <= Len(w.rows) /\ Len(w.rows) <= w.total
  BY <1>1, SentRows DEF Shape
<1>8. <<>> \in Seq(Nat)
  OBVIOUS
<1>3. /\ idle \in Watch
      /\ idle.sig = w.sig /\ idle.rows = w.rows /\ idle.total = w.total
      /\ idle.dropped = w.dropped /\ idle.retry = w.retry
      /\ idle.flight = "none" /\ idle.sent = <<>> /\ idle.answer = "none"
  <2> DEFINE e == <<>>
             u == [w EXCEPT !.flight = "none", !.sent = e, !.answer = "none"]
  <2>1. idle = u /\ e \in Seq(Nat)
    BY <1>8
  <2> HIDE DEF e, idle
  <2>2. /\ u \in Watch /\ u.sig = w.sig /\ u.rows = w.rows /\ u.total = w.total
        /\ u.dropped = w.dropped /\ u.retry = w.retry
        /\ u.flight = "none" /\ u.sent = e /\ u.answer = "none"
    BY <1>1, <2>1 DEF Watch
  <2> QED BY <2>1, <2>2 DEF e
<1>4. /\ Kept(w) \in Seq(Nat)
      /\ Len(Kept(w)) = Len(w.rows) - Len(w.sent)
      /\ \A k \in 1 .. Len(w.rows) - Len(w.sent) :
           Kept(w)[k] = w.rows[Len(w.sent) + k]
  <2> DEFINE n == Len(w.sent)
             q == w.rows
  <2>1. q \in Seq(Nat) /\ n \in Nat /\ n <= Len(q) /\ Kept(w) = SubSeq(q, n + 1, Len(q))
    BY <1>1, <1>2 DEF Kept
  <2> HIDE DEF n, q
  <2>2. /\ SubSeq(q, n + 1, Len(q)) \in Seq(Nat)
        /\ Len(SubSeq(q, n + 1, Len(q))) = Len(q) - n
        /\ \A k \in 1 .. Len(q) - n : SubSeq(q, n + 1, Len(q))[k] = q[n + k]
    BY <2>1
  <2> QED BY <2>1, <2>2 DEF n, q
<1>5. /\ kept \in Watch
      /\ kept.sig = w.sig /\ kept.rows = Kept(w) /\ kept.total = w.total
      /\ kept.dropped = w.dropped /\ kept.retry = w.retry
      /\ kept.flight = "none" /\ kept.sent = <<>> /\ kept.answer = "none"
  BY <1>1, <1>3, <1>4 DEF Watch
<1> HIDE DEF idle, kept
<1>6. ASSUME w.answer = "failed" PROVE Shape(idle) /\ Alike(idle, w)
  <2>1. Flushed(idle) = Flushed(w)
    BY <1>3 DEF Flushed
  <2>2. Len(idle.sent) = 0
    BY <1>3
  <2>3. Shape(idle)
    BY <1>2, <1>3, <2>1, <2>2 DEF Shape
  <2>4. OnDisk(idle) = OnDisk(w) /\ Finished(idle) = Finished(w)
    BY <1>2, <1>3, <1>6, <2>1 DEF OnDisk, Finished
  <2> QED BY <1>3, <2>3, <2>4 DEF Alike
<1>7. ASSUME w.answer = "ok", w.flight = "flush"
      PROVE  Shape(kept) /\ Alike(kept, w)
  <2> DEFINE f == Flushed(w)
             r == Len(w.rows)
             n == Len(w.sent)
             t == w.total
             q == Kept(w)
  <2>1. /\ f \in Nat /\ r \in Nat /\ n \in Nat /\ t \in Nat /\ n <= r /\ r <= t
        /\ f = t - r /\ Len(q) = r - n
        /\ \A k \in 1 .. r - n : q[k] = w.rows[n + k]
        /\ \A k \in 1 .. r : w.rows[k] = f + k
        /\ kept.total = t /\ kept.rows = q
    BY <1>2, <1>4, <1>5 DEF Flushed, Shape
  <2> HIDE DEF f, r, n, t, q
  <2>2. Flushed(kept) = f + n
    <3>1. t - Len(q) = f + n
      BY <2>1
    <3> QED BY <2>1, <3>1 DEF Flushed
  <2>3. \A k \in 1 .. Len(q) : q[k] = Flushed(kept) + k
    <3>1. ASSUME NEW k \in 1 .. Len(q) PROVE q[k] = f + n + k
      <4>1. k \in 1 .. r - n /\ n + k \in 1 .. r /\ f + (n + k) = f + n + k
        BY <2>1
      <4> QED BY <2>1, <4>1
    <3> QED BY <2>2, <3>1
  <2>4. Len(kept.sent) = 0
    BY <1>5
  <2>5. Len(q) \in Nat /\ Len(q) <= t
    BY <2>1
  <2>6. Shape(kept)
    <3>1. Len(kept.rows) <= kept.total /\ Len(kept.sent) <= Len(kept.rows)
          /\ kept.total <= MaxSamples - 1
      BY <2>1, <2>4, <2>5 DEF Shape, t
    <3>2. kept.retry => kept.total = 0 /\ kept.dropped = 0
      BY <1>5 DEF Shape
    <3>3. \A k \in 1 .. Len(kept.rows) : kept.rows[k] = Flushed(kept) + k
      BY <2>1, <2>3
    <3>4. \A k \in 1 .. Len(kept.sent) : kept.sent[k] = Flushed(kept) + k
      BY <2>4
    <3> QED BY <1>5, <3>1, <3>2, <3>3, <3>4 DEF Shape
  <2>7. OnDisk(kept) = OnDisk(w)
    <3>1. OnDisk(w) = f + n
      BY <1>7 DEF OnDisk, f, n
    <3>2. OnDisk(kept) = Flushed(kept) + 0
      BY <1>5 DEF OnDisk
    <3> QED BY <2>1, <2>2, <3>1, <3>2
  <2>8. Finished(kept) = Finished(w)
    BY <1>5, <1>7 DEF Finished
  <2> QED BY <1>5, <2>6, <2>7, <2>8 DEF Alike
<1> QED BY <1>6, <1>7 DEF idle, kept

\* The owners whose last write failed, whoever the callback adds or removes.
LEMMA OwnersStay ==
    ASSUME Types, NEW s \in Signals,
           MarkFailure({s}) \/ MarkSuccess(s)
    PROVE  failed' \subseteq Signals /\ fault' = (failed' # {})
BY DEF Types, TypeOK, MarkFailure, MarkSuccess

\* The callback of a failed write or of a flush.
LEMMA ReplacedKeeps ==
    ASSUME IInv, up, NEW i \in DOMAIN watches, NEW v,
           Shape(v), Alike(v, watches[i]), watches' = [watches EXCEPT ![i] = v],
           failed' \subseteq Signals, fault' = (failed' # {}),
           UNCHANGED <<started, durable, finalized, ended, up, ticking,
                       offered, lost, finals, faults, crashes>>
    PROVE  IInv'
<1>0. /\ Types /\ Watching /\ OneWatch /\ Stopped /\ Untouched
      /\ LabelsAreTrue /\ OneFinalization
  BY DEF IInv
<1>1. watches \in Seq(Watch) /\ v \in Watch
  BY <1>0 DEF Types, Shape
<1>2. /\ watches' \in Seq(Watch) /\ DOMAIN watches' = DOMAIN watches
      /\ \A j \in DOMAIN watches : watches'[j] = IF j = i THEN v ELSE watches[j]
  BY <1>1
<1>3. ASSUME NEW j \in DOMAIN watches
      PROVE  Shape(watches'[j]) /\ Alike(watches'[j], watches[j])
  BY <1>2, WatchFacts, AlikeItself
<1>4. Types'
  BY <1>0, <1>2 DEF Types, TypeOK
<1>5. Watching'
  <2>1. ASSUME NEW j \in DOMAIN watches PROVE Stored(watches[j])'
    <3>1. Stored(watches[j]) /\ Alike(watches'[j], watches[j])
      BY <1>0, <1>3 DEF Watching
    <3> QED BY <3>1 DEF Stored, Alike, Label
  <2> QED BY <1>2, <1>3, <2>1 DEF Watching
<1>6. OneWatch'
  BY <1>0, <1>2, <1>3 DEF OneWatch, Alike
<1>7. Stopped' /\ Untouched' /\ LabelsAreTrue'
  BY <1>0 DEF Stopped, Untouched, LabelsAreTrue
<1>8. OneFinalization'
  BY <1>0, <1>2, <1>3 DEF OneFinalization, Watched, Alike
<1> QED BY <1>4, <1>5, <1>6, <1>7, <1>8 DEF IInv

\* The callback of a finalisation releases the watch of a path that has its
\* marker.
LEMMA ReleasedKeeps ==
    ASSUME IInv, up, NEW i \in DOMAIN watches, Finished(watches[i]),
           watches' = RemoveAt(watches, i),
           failed' \subseteq Signals, fault' = (failed' # {}),
           UNCHANGED <<started, durable, finalized, ended, up, ticking,
                       offered, lost, finals, faults, crashes>>
    PROVE  IInv'
<1> DEFINE n == Len(watches)
           old(j) == IF j < i THEN j ELSE j + 1
<1>0. /\ Types /\ Watching /\ OneWatch /\ Stopped /\ Untouched
      /\ LabelsAreTrue /\ OneFinalization
  BY DEF IInv
<1>1. watches \in Seq(Watch) /\ n \in Nat /\ DOMAIN watches = 1 .. n /\ i \in 1 .. n
  BY <1>0 DEF Types
<1>2. /\ watches' \in Seq(Watch) /\ DOMAIN watches' = 1 .. n - 1
      /\ \A j \in 1 .. n - 1 : watches'[j] = watches[old(j)]
  BY <1>1, RemoveAtFacts
<1> HIDE DEF n
<1>3. \A j \in 1 .. n - 1 : old(j) \in 1 .. n /\ old(j) # i
  BY <1>1
<1>4. \A j, k \in 1 .. n - 1 : old(j) = old(k) => j = k
  BY <1>1
<1>5. \A k \in 1 .. n : k # i => \E j \in 1 .. n - 1 : old(j) = k
  <2>1. ASSUME NEW k \in 1 .. n, k # i PROVE \E j \in 1 .. n - 1 : old(j) = k
    <3>1. CASE k < i
      <4>1. k \in 1 .. n - 1 /\ old(k) = k
        BY <1>1, <3>1
      <4> QED BY <4>1
    <3>2. CASE k > i
      <4>1. k - 1 \in 1 .. n - 1 /\ old(k - 1) = k
        BY <1>1, <3>2
      <4> QED BY <4>1
    <3> QED BY <1>1, <2>1, <3>1, <3>2
  <2> QED BY <2>1
<1> HIDE DEF old
<1>6. Types'
  <2>1. /\ up' \in BOOLEAN /\ ticking' \in BOOLEAN /\ (ticking' => up')
    BY <1>0 DEF Types, TypeOK
  <2>2. watches' \in Seq(Watch) /\ \A j \in DOMAIN watches' : watches'[j] \in Watch
    <3>1. watches' \in Seq(Watch)
      BY <1>2
    <3> QED BY <3>1
  <2>3. TypeOK'
    BY <1>0, <2>1, <2>2 DEF Types, TypeOK
  <2> QED BY <1>0, <2>2, <2>3 DEF Types
<1>7. Watching'
  <2>1. ASSUME NEW j \in 1 .. n - 1 PROVE Shape(watches'[j]) /\ Stored(watches[j])'
    <3>1. watches'[j] = watches[old(j)] /\ Shape(watches[old(j)]) /\ Stored(watches[old(j)])
      BY <1>0, <1>1, <1>2, <1>3 DEF Watching
    <3> QED BY <3>1 DEF Stored
  <2> QED BY <1>2, <2>1 DEF Watching
<1>8. OneWatch'
  BY <1>0, <1>1, <1>2, <1>3, <1>4 DEF OneWatch
<1>9. Stopped' /\ Untouched' /\ LabelsAreTrue'
  BY <1>0 DEF Stopped, Untouched, LabelsAreTrue
<1>10. finalized[watches[i].sig] # "no"
  BY WatchFacts DEF Stored, Label
<1>11. OneFinalization'
  <2>1. ASSUME NEW t, Watched(t), finalized[t] = "no" PROVE Watched(t)'
    <3>1. PICK k \in 1 .. n : watches[k].sig = t
      BY <1>1, <2>1 DEF Watched
    <3>2. k # i
      BY <1>10, <2>1, <3>1
    <3>3. PICK j \in 1 .. n - 1 : old(j) = k
      BY <1>5, <3>2
    <3> QED BY <1>2, <3>1, <3>3 DEF Watched
  <2> QED BY <1>0, <2>1 DEF OneFinalization
<1> QED BY <1>6, <1>7, <1>8, <1>9, <1>11 DEF IInv

LEMMA WriteDoneKeeps ==
    ASSUME IInv, NEW i \in DOMAIN watches, WriteDone(i)
    PROVE  IInv'
<1> DEFINE w == watches[i]
           idle == [w EXCEPT !.flight = "none", !.sent = <<>>, !.answer = "none"]
           kept == [idle EXCEPT !.rows = Kept(w)]
<1>1. /\ up /\ w.answer # "none"
      /\ UNCHANGED <<started, durable, finalized, ended, up, ticking,
                     offered, lost, finals, faults, crashes>>
  BY DEF WriteDone
<1>2. IF w.answer = "failed"
      THEN MarkFailure({w.sig}) /\ watches' = [watches EXCEPT ![i] = idle]
      ELSE /\ MarkSuccess(w.sig)
           /\ watches' = IF w.flight = "final" THEN RemoveAt(watches, i)
                         ELSE [watches EXCEPT ![i] = kept]
  BY DEF WriteDone
<1>3. Shape(w) /\ w.sig \in Signals /\ w \in Watch
  BY WatchFacts
<1>4. /\ w.answer = "failed" => Shape(idle) /\ Alike(idle, w)
      /\ w.answer = "ok" /\ w.flight = "flush" => Shape(kept) /\ Alike(kept, w)
  BY <1>1, <1>3, SettledShape
<1>5. /\ w.answer \in {"ok", "failed"} /\ w.flight \in {"flush", "final"}
  BY <1>1, <1>3 DEF Shape, Watch
<1> HIDE DEF idle, kept
<1>6. failed' \subseteq Signals /\ fault' = (failed' # {})
  BY <1>2, <1>3, OwnersStay DEF IInv
<1>7. CASE w.answer = "failed"
  BY <1>1, <1>2, <1>4, <1>6, <1>7, ReplacedKeeps
<1>8. CASE w.answer = "ok" /\ w.flight = "flush"
  BY <1>1, <1>2, <1>4, <1>6, <1>8, ReplacedKeeps
<1>9. CASE w.answer = "ok" /\ w.flight = "final"
  <2>1. watches' = RemoveAt(watches, i) /\ Finished(w)
    BY <1>2, <1>9 DEF Finished
  <2> QED BY <1>1, <1>6, <2>1, ReleasedKeeps
<1> QED BY <1>5, <1>7, <1>8, <1>9
-----------------------------------------------------------------------------
(***************************************************************************)
(* Crashes and restarts                                                    *)
(***************************************************************************)

\* A stop takes every open path.
LEMMA CrashKeeps ==
    ASSUME IInv, Crash
    PROVE  IInv'
<1>0. /\ Types /\ Watching /\ OneWatch /\ Stopped /\ Untouched
      /\ LabelsAreTrue /\ OneFinalization
  BY DEF IInv
<1>1. /\ up' = FALSE /\ ticking' = FALSE /\ crashes < MaxCrashes /\ crashes' = crashes + 1
      /\ watches' = <<>> /\ failed' = {} /\ fault' = FALSE
      /\ lost' = lost \cup Unfinalized
      /\ UNCHANGED <<started, durable, finalized, ended, offered, finals, faults>>
  BY DEF Crash
<1>2. /\ watches' \in Seq(Watch) /\ DOMAIN watches' = {}
      /\ crashes' \in Nat /\ crashes' <= MaxCrashes
  BY <1>0, <1>1, ConstantsOK DEF Types
<1>3. Unfinalized \subseteq ToSet(started)
  BY DEF Unfinalized
<1>4. Types'
  <2>1. /\ fault' = (failed' # {}) /\ failed' \subseteq Signals
        /\ up' \in BOOLEAN /\ ticking' \in BOOLEAN /\ (ticking' => up')
    BY <1>1
  <2> QED BY <1>0, <1>1, <1>2, <1>3, <2>1 DEF Types, TypeOK
<1>5. Watching' /\ OneWatch'
  BY <1>2 DEF Watching, OneWatch
<1>6. Stopped'
  <2>1. Unfinalized' = Unfinalized
    BY <1>1 DEF Unfinalized
  <2> QED BY <1>1, <2>1 DEF Stopped
<1>7. Untouched'
  BY <1>0, <1>1 DEF Untouched
<1>8. LabelsAreTrue'
  BY <1>0, <1>1 DEF LabelsAreTrue, Unfinalized
<1>9. OneFinalization'
  BY <1>0, <1>1 DEF OneFinalization
<1> QED BY <1>4, <1>5, <1>6, <1>7, <1>8, <1>9 DEF IInv

LEMMA PathsAreFinite ==
    ASSUME started \in Seq(Signals), NEW F \in SUBSET ToSet(started)
    PROVE  Cardinality(F) \in Nat
<1>1. DOMAIN started = 1 .. Len(started) /\ Len(started) \in Nat
  OBVIOUS
<1>2. IsFiniteSet(DOMAIN started)
  BY <1>1, FS_Interval
<1>3. started \in Surjection(DOMAIN started, ToSet(started))
  BY <1>1 DEF Surjection, ToSet
<1>4. IsFiniteSet(ToSet(started))
  BY <1>2, <1>3, FS_Surjection
<1> QED BY <1>4, FS_Subset, FS_CardinalityType

\* Distinct places of a list in id order hold distinct signals.
LEMMA IdOrderIsInjective ==
    ASSUME started \in Seq(Signals), IsInjective(started),
           NEW c \in Nat, NEW q, DOMAIN q = 1 .. c, InIdOrder(q),
           NEW i \in 1 .. c, NEW j \in 1 .. c, i < j
    PROVE  q[i] # q[j]
<1>1. PICK k, l \in DOMAIN started :
          k < l /\ started[k] = q[i] /\ started[l] = q[j]
  BY DEF InIdOrder
<1>2. k # l
  BY <1>1
<1> QED BY <1>1, <1>2 DEF IsInjective

\* The paths a stop left open are labelled incomplete, or watched again with
\* nothing but the retry.
LEMMA RestartKeeps ==
    ASSUME IInv, NEW F \in SUBSET Signals, Restart(F)
    PROVE  IInv'
<1> DEFINE closed == Unfinalized \ F
           c == Cardinality(F)
<1>0. /\ Types /\ Watching /\ OneWatch /\ Stopped /\ Untouched
      /\ LabelsAreTrue /\ OneFinalization
  BY DEF IInv
<1>1. /\ ~up /\ F \subseteq Unfinalized /\ up' = TRUE /\ ticking' = TRUE
      /\ faults + c <= MaxFaults /\ faults' = faults + c
      /\ MarkFailure(F)
      /\ UNCHANGED <<started, durable, ended, offered, lost, crashes>>
  BY DEF Restart
<1>2. PICK fails \in [1 .. c -> F] :
          InIdOrder(fails) /\ watches' = [i \in DOMAIN fails |-> NewWatch(fails[i], TRUE)]
  BY DEF Restart
<1>3. /\ finalized' = [s \in Signals |->
             IF s \in closed THEN Label(NewWatch(s, TRUE)) ELSE finalized[s]]
      /\ finals' = [s \in Signals |-> finals[s] + (IF s \in closed THEN 1 ELSE 0)]
  BY DEF Restart
<1>4. /\ Unfinalized \subseteq lost /\ Unfinalized \subseteq ToSet(started)
      /\ \A s \in ToSet(started) : s \in Unfinalized <=> finalized[s] = "no"
  BY <1>0, <1>1 DEF Stopped, Unfinalized
<1>5. ToSet(started) \subseteq Signals /\ started \in Seq(Signals) /\ IsInjective(started)
      /\ finalized \in [Signals -> Labels] /\ finals \in [Signals -> Nat]
      /\ faults \in Nat
  BY <1>0 DEF Types, TypeOK
<1>6. c \in Nat
  <2>1. F \in SUBSET ToSet(started)
    BY <1>1, <1>4
  <2> QED BY <1>5, <2>1, PathsAreFinite
<1>7. \A s : Label(NewWatch(s, TRUE)) = "incomplete"
  BY DEF Label, NewWatch
<1> HIDE DEF c
<1>8. /\ finalized' \in [Signals -> Labels] /\ finals' \in [Signals -> Nat]
      /\ \A s \in Signals \ closed : finalized'[s] = finalized[s] /\ finals'[s] = finals[s]
      /\ \A s \in closed : finalized'[s] = "incomplete" /\ finals'[s] = finals[s] + 1
  <2>1. closed \subseteq Signals
    BY <1>4, <1>5
  <2> HIDE DEF closed
  <2>2. \A s \in Signals : finals[s] \in Nat /\ finals[s] + 0 = finals[s]
    BY <1>5
  <2>3. "incomplete" \in Labels
    BY DEF Labels
  <2>4. /\ finalized' \in [Signals -> Labels]
        /\ \A s \in Signals \ closed : finalized'[s] = finalized[s]
        /\ \A s \in closed : finalized'[s] = "incomplete"
    BY <1>3, <1>5, <1>7, <2>1, <2>3
  <2>5. finals' \in [Signals -> Nat]
    BY <1>3, <1>5
  <2>6. ASSUME NEW s \in Signals
        PROVE  finals'[s] = IF s \in closed THEN finals[s] + 1 ELSE finals[s]
    BY <1>3, <2>2
  <2> QED BY <2>1, <2>4, <2>5, <2>6
<1>9. /\ DOMAIN watches' = 1 .. c
      /\ \A i \in 1 .. c : fails[i] \in F /\ watches'[i] = NewWatch(fails[i], TRUE)
  BY <1>2
<1>10. ASSUME NEW i \in 1 .. c
       PROVE  /\ Shape(watches'[i]) /\ watches'[i] \in Watch
              /\ watches'[i].sig = fails[i] /\ watches'[i].retry = TRUE
              /\ ~Finished(watches'[i])
  <2>1. fails[i] \in Signals
    BY <1>9
  <2>2. watches'[i].sig = fails[i] /\ watches'[i].retry = TRUE
    BY <1>9 DEF NewWatch
  <2>3. Shape(NewWatch(fails[i], TRUE)) /\ ~Finished(NewWatch(fails[i], TRUE))
    BY <2>1, NewWatchShape
  <2>4. NewWatch(fails[i], TRUE) \in Watch
    BY <2>3 DEF Shape
  <2> QED BY <1>9, <2>2, <2>3, <2>4
<1>11. Types'
  <2>1. watches' \in Seq(Watch)
    <3>1. watches' \in [1 .. c -> Watch]
      BY <1>2, <1>9, <1>10
    <3> QED BY <1>6, <3>1
  <2>2. failed' = failed \cup F /\ fault' = (fault \/ F # {})
    BY <1>1 DEF MarkFailure
  <2>3. /\ failed' \subseteq Signals /\ fault' = (failed' # {})
        /\ up' \in BOOLEAN /\ ticking' \in BOOLEAN /\ (ticking' => up')
    BY <1>0, <1>1, <2>2 DEF Types, TypeOK
  <2>4. faults' \in Nat /\ faults' <= MaxFaults
    BY <1>1, <1>5, <1>6
  <2>5. \A i \in DOMAIN watches' : watches'[i] \in Watch
    BY <1>9, <1>10
  <2>6. TypeOK'
    BY <1>0, <1>1, <1>8, <2>3, <2>4, <2>5 DEF Types, TypeOK
  <2> QED BY <1>0, <1>1, <1>8, <2>1, <2>4, <2>6 DEF Types
<1>12. Watching'
  <2>1. ASSUME NEW i \in 1 .. c PROVE Stored(watches[i])'
    <3>1. fails[i] \in F /\ fails[i] \in Unfinalized /\ fails[i] \notin closed
      BY <1>1, <1>9
    <3>2. fails[i] \in ToSet(started) /\ fails[i] \in lost /\ finalized'[fails[i]] = "no"
      BY <1>4, <1>5, <1>8, <3>1
    <3>3. fails[i] \in ToSet(started)' /\ fails[i] \in lost'
      BY <1>1, <3>2
    <3> QED BY <1>10, <3>2, <3>3 DEF Stored
  <2> QED BY <1>9, <1>10, <2>1 DEF Watching
<1>13. OneWatch'
  <2>1. ASSUME NEW i \in 1 .. c, NEW j \in 1 .. c, i < j PROVE fails[i] # fails[j]
    <3>1. DOMAIN fails = 1 .. c
      BY <1>2
    <3> QED BY <1>2, <1>5, <1>6, <2>1, <3>1, IdOrderIsInjective
  <2>2. ASSUME NEW i \in 1 .. c, NEW j \in 1 .. c, fails[i] = fails[j] PROVE i = j
    <3>1. ~(i < j) /\ ~(j < i)
      BY <2>1, <2>2
    <3> QED BY <1>6, <3>1
  <2>3. ASSUME NEW i \in 1 .. c, NEW j \in 1 .. c, watches'[i].sig = watches'[j].sig
        PROVE  i = j
    <3>1. fails[i] = fails[j]
      BY <1>10, <2>3
    <3> QED BY <2>2, <3>1
  <2> QED BY <1>9, <2>3 DEF OneWatch
<1>14. Stopped'
  BY <1>1 DEF Stopped
<1>15. Untouched'
  <2>1. \A s \in Signals \ ToSet(started) : s \in Signals \ closed
    BY <1>4
  <2> HIDE DEF closed
  <2> QED BY <1>0, <1>1, <1>8, <2>1 DEF Untouched
<1>16. LabelsAreTrue'
  <2>1. closed \subseteq lost
    BY <1>4
  <2> HIDE DEF closed
  <2>2. ASSUME NEW s \in Signals
        PROVE  /\ finalized'[s] = "complete" => durable[s] = 1 .. offered[s]
               /\ finalized'[s] = "truncated" => Cardinality(durable[s]) < offered[s]
               /\ finalized'[s] # "no" => (finalized'[s] = "incomplete" <=> s \in lost)
    <3>1. CASE s \in closed
      BY <1>8, <2>1, <3>1
    <3>2. CASE s \notin closed
      BY <1>0, <1>8, <3>2 DEF LabelsAreTrue
    <3> QED BY <3>1, <3>2
  <2> QED BY <1>1, <2>2 DEF LabelsAreTrue
<1>17. OneFinalization'
  <2>1. ASSUME NEW s \in ToSet(started)
        PROVE  /\ finals'[s] = IF finalized'[s] = "no" THEN 0 ELSE 1
               /\ finalized'[s] = "no" => s \in lost
    <3>1. finals[s] = IF finalized[s] = "no" THEN 0 ELSE 1
      BY <1>0 DEF OneFinalization
    <3>2. CASE s \in closed
      <4>1. finalized[s] = "no" /\ finals'[s] = finals[s] + 1
        BY <1>4, <1>8, <3>2
      <4>2. finals'[s] = 1 /\ finalized'[s] = "incomplete"
        BY <1>8, <3>1, <3>2, <4>1
      <4> QED BY <4>2
    <3>3. CASE s \notin closed
      <4>1. finals'[s] = finals[s] /\ finalized'[s] = finalized[s]
        BY <1>5, <1>8, <3>3
      <4>2. finalized[s] = "no" => s \in lost
        BY <1>4
      <4> QED BY <3>1, <4>1, <4>2
    <3> QED BY <3>2, <3>3
  <2>2. ToSet(started)' = ToSet(started) /\ lost' = lost
    BY <1>1
  <2> QED BY <2>1, <2>2 DEF OneFinalization
<1> QED BY <1>11, <1>12, <1>13, <1>14, <1>15, <1>16, <1>17 DEF IInv
-----------------------------------------------------------------------------
(***************************************************************************)
(* The theorems                                                            *)
(***************************************************************************)

LEMMA InitHolds == Init => IInv
<1> SUFFICES ASSUME Init PROVE IInv
  OBVIOUS
<1>1. /\ started = <<>> /\ watches = <<>> /\ ended = {} /\ failed = {} /\ lost = {}
      /\ fault = FALSE /\ up = TRUE /\ ticking = TRUE
      /\ durable = [s \in Signals |-> {}] /\ finalized = [s \in Signals |-> "no"]
      /\ offered = [s \in Signals |-> 0] /\ finals = [s \in Signals |-> 0]
      /\ faults = 0 /\ crashes = 0
  BY DEF Init
<1>2. /\ started \in Seq(Signals) /\ DOMAIN started = {} /\ ToSet(started) = {}
      /\ watches \in Seq(Watch) /\ DOMAIN watches = {}
  BY <1>1 DEF ToSet
<1>3. Types
  <2>1. /\ fault = (failed # {})
        /\ up \in BOOLEAN /\ ticking \in BOOLEAN /\ (ticking => up)
    BY <1>1
  <2>2. /\ finalized \in [Signals -> Labels] /\ offered \in [Signals -> 0 .. MaxQuotes]
        /\ durable \in [Signals -> SUBSET Nat] /\ finals \in [Signals -> Nat]
        /\ \A s \in Signals : durable[s] \subseteq 1 .. MaxSamples - 1
    <3>1. "no" \in Labels /\ 0 \in 0 .. MaxQuotes
      BY ConstantsOK DEF Labels
    <3> QED BY <1>1, <3>1
  <2>3. IsInjective(started)
    BY <1>2 DEF IsInjective
  <2> QED BY <1>1, <1>2, <2>1, <2>2, <2>3, ConstantsOK DEF Types, TypeOK
<1>4. Watching /\ OneWatch /\ Stopped
  BY <1>1, <1>2 DEF Watching, OneWatch, Stopped
<1>5. Untouched /\ LabelsAreTrue /\ OneFinalization
  <2>1. \A s \in Signals : finalized[s] = "no" /\ durable[s] = {}
                           /\ offered[s] = 0 /\ finals[s] = 0
    BY <1>1
  <2> QED BY <1>2, <2>1 DEF Untouched, LabelsAreTrue, OneFinalization
<1> QED BY <1>3, <1>4, <1>5 DEF IInv

\* The death of the periodic task changes nothing a path is made of.
LEMMA PeriodicDiesKeeps ==
    ASSUME IInv, PeriodicDies
    PROVE  IInv'
<1>0. /\ Types /\ Watching /\ OneWatch /\ Stopped /\ Untouched
      /\ LabelsAreTrue /\ OneFinalization
  BY DEF IInv
<1>1. /\ ticking' = FALSE /\ faults < MaxFaults /\ faults' = faults + 1
      /\ UNCHANGED <<watches, failed, fault, started, durable, finalized, ended, up,
                     offered, lost, finals, crashes>>
  BY DEF PeriodicDies
<1>2. faults' \in Nat /\ faults' <= MaxFaults
  BY <1>0, <1>1, ConstantsOK DEF Types
<1>3. Types' /\ Untouched' /\ LabelsAreTrue'
  BY <1>0, <1>1, <1>2 DEF Types, TypeOK, Untouched, LabelsAreTrue
<1>4. Watching' /\ OneWatch'
  BY <1>0, <1>1 DEF Watching, Stored, OneWatch
<1>5. Stopped'
  BY <1>0, <1>1 DEF Stopped, Unfinalized
<1>6. OneFinalization'
  BY <1>0, <1>1 DEF OneFinalization, Watched
<1> QED BY <1>3, <1>4, <1>5, <1>6 DEF IInv

LEMMA StutterKeeps ==
    ASSUME IInv, UNCHANGED vars
    PROVE  IInv'
<1>0. /\ Types /\ Watching /\ OneWatch /\ Stopped /\ Untouched
      /\ LabelsAreTrue /\ OneFinalization
  BY DEF IInv
<1>1. UNCHANGED <<watches, failed, fault, started, durable, finalized, ended, up, ticking,
                  offered, lost, finals, faults, crashes>>
  BY DEF vars
<1>2. Types' /\ Untouched' /\ LabelsAreTrue'
  BY <1>0, <1>1 DEF Types, TypeOK, Untouched, LabelsAreTrue
<1>3. Watching' /\ OneWatch'
  BY <1>0, <1>1 DEF Watching, Stored, OneWatch
<1>4. Stopped'
  BY <1>0, <1>1 DEF Stopped, Unfinalized
<1>5. OneFinalization'
  BY <1>0, <1>1 DEF OneFinalization, Watched
<1> QED BY <1>2, <1>3, <1>4, <1>5 DEF IInv

LEMMA NextKeeps ==
    ASSUME IInv, [Next]_vars
    PROVE  IInv'
<1>1. ASSUME NEW s \in Signals, StartWatch(s) \/ StartInterrupted(s) \/ WindowEnds(s)
      PROVE  IInv'
  BY <1>1, StartWatchKeeps, StartInterruptedKeeps, WindowEndsKeeps
<1>2. ASSUME NEW S \in SUBSET Signals, BookFrame(S) \/ Restart(S)
      PROVE  IInv'
  BY <1>2, BookFrameKeeps, RestartKeeps
<1>3. CASE PeriodicTick \/ PeriodicDies
  BY <1>3, TickKeeps, PeriodicDiesKeeps
<1>4. ASSUME NEW i \in DOMAIN watches, WorkerCommits(i) \/ WorkerFails(i) \/ WriteDone(i)
      PROVE  IInv'
  BY <1>4, WorkerCommitsKeeps, WorkerFailsKeeps, WriteDoneKeeps
<1>5. CASE Crash
  BY <1>5, CrashKeeps
<1>6. CASE UNCHANGED vars
  BY <1>6, StutterKeeps
<1> QED BY <1>1, <1>2, <1>3, <1>4, <1>5, <1>6 DEF Next

\* The watches of engine.py, the two tables they write and the markers agree in
\* every reachable state, across write failures, stops and restarts.
THEOREM Invariance == Spec => []IInv
<1>1. Init => IInv
  BY InitHolds
<1>2. IInv /\ [Next]_vars => IInv'
  BY NextKeeps
<1> QED BY <1>1, <1>2, PTL DEF Spec

\* Types: the tracker holds watches of started signals; no path has more rows
\* than insert_bid_path accepts.
THEOREM TypeCorrect == Spec => []TypeOK
<1>1. IInv => TypeOK
  BY DEF IInv, Types
<1> QED BY <1>1, Invariance, PTL

\* The rows on disk and in the buffer of a watch are exactly those it recorded,
\* whatever writes failed or overlapped with recording.
THEOREM RowsStayOwned == Spec => []RowsAreOwned
<1>1. ASSUME IInv, NEW i \in DOMAIN watches
      PROVE  LET w == watches[i]
                 flushed == w.total - Len(w.rows) IN
             /\ w.rows = [k \in 1 .. Len(w.rows) |-> flushed + k]
             /\ ~w.retry => durable[w.sig] =
                    1 .. flushed + (IF w.answer = "ok" THEN Len(w.sent) ELSE 0)
  <2> DEFINE w == watches[i]
  <2>1. Shape(w) /\ Stored(w) /\ w.rows \in Seq(Nat)
    BY <1>1, WatchFacts DEF Watch
  <2>2. w.rows = [k \in 1 .. Len(w.rows) |-> Flushed(w) + k]
    <3>1. \A k \in 1 .. Len(w.rows) : w.rows[k] = Flushed(w) + k
      BY <2>1 DEF Shape
    <3>2. w.rows = [k \in 1 .. Len(w.rows) |-> w.rows[k]]
      BY <2>1
    <3> QED BY <3>1, <3>2
  <2>3. ~w.retry => durable[w.sig] = 1 .. OnDisk(w)
    BY <2>1 DEF Stored
  <2> QED BY <2>2, <2>3 DEF OnDisk, Flushed
<1>2. IInv => RowsAreOwned
  BY <1>1 DEF RowsAreOwned
<1> QED BY <1>2, Invariance, PTL

\* The marker of finalize_signal_path says of a path what is true of it: all
\* its quotes on disk, some dropped at the cap, or cut off by a stop.
THEOREM LabelsStayTrue == Spec => []LabelsAreTrue
<1>1. IInv => LabelsAreTrue
  BY DEF IInv
<1> QED BY <1>1, Invariance, PTL

\* A path is finalised at most once, and until then it keeps its watch unless a
\* stop or a failed start took it.
THEOREM FinalizedOnce == Spec => []OneFinalization
<1>1. IInv => OneFinalization
  BY DEF IInv
<1> QED BY <1>1, Invariance, PTL
=============================================================================
