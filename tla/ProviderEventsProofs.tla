------------------------ MODULE ProviderEventsProofs ------------------------
(***************************************************************************)
(* What holds of ProviderEvents for every set of matches, every course of  *)
(* a match, and any number of failed writes and restarts.                  *)
(*                                                                         *)
(* The invariant has parts that hardly speak of one another.  Links: what  *)
(* memory and the upsert under way would link to is a row of the same      *)
(* match, and there is such a thing once a goal is recorded.  Fingerprints:*)
(* a failed write is charged with the only event it can lose.  Changes of  *)
(* phase: a pass has one of them in hand at most, it is noted before it is *)
(* written, and a failure or a restart is charged with it.  Follows: the   *)
(* answer in hand was read after everything written of its match, and a    *)
(* baseline that lags behind a written change, as is the case when only    *)
(* the log entry failed, is charged to that failure until it leads to the  *)
(* change being written again.  Windows: a change that is not finished is  *)
(* pending.                                                                *)
(***************************************************************************)
EXTENDS ProviderEvents, FiniteSetTheorems, SequenceTheorems,
        WellFoundedInduction, TLAPS

RowType  == [event : Events, id : Ids, kind : Kinds, prev : Ids \cup {None}]
GoalType == [event : Events, before : 1 .. Len(Course), after : 1 .. Len(Course),
             finished : BOOLEAN]

\* The run task holds an answer.
Answering == poll.phase \in {"batch", "clock", "lookup", "upsert", "change"}

LookupPoll ==
    [phase |-> "lookup", answers |-> poll.answers, todo |-> poll.todo,
     event |-> poll.event, items |-> poll.items, known |-> poll.known,
     shared |-> poll.shared]

UpsertPoll ==
    [phase |-> "upsert", answers |-> poll.answers, todo |-> poll.todo,
     event |-> poll.event, item |-> poll.item, rest |-> poll.rest,
     known |-> poll.known, shared |-> poll.shared, prev |-> poll.prev]

FinishPoll ==
    [phase |-> "finish", todo |-> poll.todo, remaining |-> poll.remaining]

PollOK ==
    /\ poll.phase \in {"idle", "batch", "clock", "lookup", "upsert", "change", "finish"}
    /\ Answering => poll.todo \subseteq Events
    /\ poll.phase \in {"clock", "lookup", "upsert", "change"} => poll.event \in poll.todo
    /\ poll.phase = "lookup" =>
          /\ poll = LookupPoll /\ poll.items \in Seq(Item) /\ poll.known \subseteq Ids
          /\ poll.shared \in BOOLEAN
    /\ poll.phase = "upsert" =>
          /\ poll = UpsertPoll /\ poll.item \in Item /\ poll.rest \in Seq(Item)
          /\ poll.known \subseteq Ids /\ poll.shared \in BOOLEAN
          /\ poll.prev \in Ids \cup {None}
    /\ poll.phase = "change" => poll.before \in 1 .. Len(Course)
    /\ poll.phase = "finish" => poll = FinishPoll

Types ==
    /\ watched \subseteq Events /\ milestones \subseteq Events
    /\ PollOK
    /\ seen \in [Events -> SUBSET Ids]
    /\ lifecycle \in [Events -> Phases \cup {None}]
    /\ substantive \in [Events -> Ids \cup {None}]
    /\ scores \in [Events -> (1 .. Len(Course)) \cup {None}]
    /\ noted \in [Events -> SUBSET Transitions]
    /\ pending \subseteq [row : Nat, due : BOOLEAN]
    /\ rows \in Seq(RowType) /\ goals \in Seq(GoalType)
    /\ at \in [Events -> 1 .. Len(Course)]
    /\ faults \in Nat /\ restarts \in Nat

\* A fingerprint of a match has one row.
OneRowEach ==
    \A i, j \in DOMAIN rows :
        rows[i].event = rows[j].event /\ rows[i].id = rows[j].id => i = j

\* A pass over the windows finishes what it found due or leaves it pending.
Windows ==
    /\ \A p \in pending : p.row \in DOMAIN goals
    /\ \A p, q \in pending : p.row = q.row => p = q
    /\ \A i \in DOMAIN goals :
          ~goals[i].finished /\ restarts = 0 => \E p \in pending : p.row = i
    /\ poll.phase = "finish" =>
          /\ poll.todo \subseteq DOMAIN goals
          /\ \A p \in pending : \/ p.row \in poll.todo \cup poll.remaining
                                \/ goals[p.row].finished

\* A link names a row of the match, and is there once a goal is.
LinkTo(e, prev) ==
    /\ prev # None => Recorded(e, prev)
    /\ prev = None => \A i \in DOMAIN rows :
                          rows[i].event = e => rows[i].kind # "goal"

Links ==
    /\ CorrectionsAreLinked
    /\ \A e \in Events : substantive[e] # None => Recorded(e, substantive[e])
    /\ poll.phase = "upsert" => LinkTo(poll.event, poll.prev)

\* The fingerprints a pass works with are the observer's own until a drop.
Fingerprints ==
    /\ IsFiniteSet(Lost) /\ Cardinality(Lost) <= faults
    /\ poll.phase \in {"lookup", "upsert"} /\ poll.shared => poll.known = seen[poll.event]

\* A list of items has one change of phase at most, and it is noted.
OneTransition(e, ids) ==
    /\ ids \cap Transitions \subseteq noted[e]
    /\ \A s, t \in ids \cap Transitions : s = t

\* The change of phase a pass has in hand is noted, and so is every one marked.
PhaseChanges ==
    /\ IsFiniteSet(Missed) /\ Cardinality(Missed) <= faults + restarts
    /\ \A e \in Events : seen[e] \cap Transitions \subseteq noted[e]
    /\ poll.phase = "lookup" =>
          /\ OneTransition(poll.event, IdsOf(poll.items))
          /\ poll.known \cap Transitions \subseteq noted[poll.event]
    /\ poll.phase = "upsert" =>
          /\ OneTransition(poll.event, {poll.item.id} \cup IdsOf(poll.rest))
          /\ poll.known \cap Transitions \subseteq noted[poll.event]

\* The place a change of the score would be measured from.
Base(e) == IF poll.phase = "change" /\ poll.event = e THEN poll.before ELSE scores[e]

\* No change of a match is written that ends after the place k.
Covers(e, k) == \A i \in DOMAIN goals : goals[i].event = e => goals[i].after <= k

\* The matches whose baseline lags behind what is written.
Lagging == {e \in Events : Base(e) # None /\ ~Covers(e, Base(e))}

Follows ==
    /\ IsFiniteSet(Lagging)
    /\ Cardinality(Overlapping) + Cardinality(Lagging) <= faults
    /\ \A e \in Events : Covers(e, at[e])
    /\ \A e \in Events : Answering /\ e \in poll.todo =>
          poll.answers[e] \in 1 .. at[e] /\ Covers(e, poll.answers[e])
    /\ poll.phase = "change" => scores[poll.event] \in {None, poll.before}

IInv == Types /\ OneRowEach /\ Windows /\ Links /\ Fingerprints /\ PhaseChanges /\ Follows

USE DEF memory, tables
-----------------------------------------------------------------------------
(***************************************************************************)
(* Least and greatest members                                              *)
(***************************************************************************)

LEMMA LeastMember ==
    ASSUME NEW S \in SUBSET Nat, S # {}
    PROVE  \E n \in S : \A k \in S : n <= k
<1> DEFINE Less == OpToRel(<, Nat)
<1>1. IsWellFoundedOn(Less, Nat)
  BY NatLessThanWellFounded
<1>2. PICK n \in S : \A k \in S : <<k, n>> \notin Less
  BY <1>1, WFMin
<1>3. ASSUME NEW k \in S, k < n PROVE FALSE
  <2>1. <<k, n>> \in Nat \X Nat /\ <<k, n>>[1] < <<k, n>>[2]
    BY <1>3
  <2>2. <<k, n>> \in {ss \in Nat \X Nat : ss[1] < ss[2]}
    BY <2>1, Zenon
  <2> QED BY <1>2, <2>2 DEF OpToRel
<1>4. \A k \in S : n <= k
  BY <1>3
<1> QED BY <1>4

LEMMA MinIsLeast ==
    ASSUME NEW S \in SUBSET Nat, S # {}
    PROVE  Min(S) \in S /\ \A k \in S : Min(S) <= k
BY LeastMember DEF Min

LEMMA MaxIsGreatest ==
    ASSUME NEW n \in Nat, NEW S \in SUBSET (1 .. n), S # {}
    PROVE  Max(S) \in S /\ \A k \in S : k <= Max(S)
<1> DEFINE R == {n - k : k \in S}
<1>1. R \in SUBSET Nat /\ R # {}
  <2>1. \A k \in S : n - k \in Nat
    OBVIOUS
  <2>2. PICK k \in S : TRUE
    OBVIOUS
  <2>3. n - k \in R
    OBVIOUS
  <2> QED BY <2>1, <2>3
<1>2. PICK r \in R : \A q \in R : r <= q
  BY <1>1, LeastMember
<1>3. PICK m \in S : r = n - m
  OBVIOUS
<1>4. \A k \in S : m >= k
  <2>1. ASSUME NEW k \in S PROVE m >= k
    <3>1. n - k \in R
      OBVIOUS
    <3>2. n - m <= n - k
      BY <1>2, <1>3, <3>1
    <3> QED BY <3>2
  <2> QED BY <2>1
<1>5. \E x \in S : \A y \in S : x >= y
  BY <1>4
<1>6. Max(S) \in S /\ \A y \in S : Max(S) >= y
  BY <1>5 DEF Max
<1> QED BY <1>6

\* One element more is one more at most.
LEMMA OneMore ==
    ASSUME NEW S, IsFiniteSet(S), NEW x
    PROVE  /\ IsFiniteSet(S \cup {x}) /\ Cardinality(S) \in Nat
           /\ Cardinality(S \cup {x}) \in Nat
           /\ Cardinality(S \cup {x}) <= Cardinality(S) + 1
<1>1. IsFiniteSet(S \cup {x}) /\ Cardinality(S) \in Nat
  BY FS_AddElement, FS_CardinalityType
<1>2. Cardinality(S \cup {x}) = Cardinality(S) \/ Cardinality(S \cup {x}) = Cardinality(S) + 1
  BY FS_AddElement
<1> QED BY <1>1, <1>2

-----------------------------------------------------------------------------
(***************************************************************************)
(* The course of a match                                                   *)
(***************************************************************************)

LEMMA PayloadFacts ==
    ASSUME NEW k \in 1 .. Len(Course)
    PROVE  /\ Course[k] \in Payload /\ Course[k].items \in Seq(Item)
           /\ Course[k].phase \in Phases
<1>1. Course \in Seq(Payload) /\ DOMAIN Course = 1 .. Len(Course)
  BY ConstantsOK
<1>2. Course[k] \in Payload
  BY <1>1
<1> QED BY <1>1, <1>2 DEF Payload, Phases

-----------------------------------------------------------------------------
(***************************************************************************)
(* Tables                                                                  *)
(***************************************************************************)

LEMMA AppendFacts ==
    ASSUME NEW S, NEW q \in Seq(S), NEW x \in S
    PROVE  /\ Append(q, x) \in Seq(S) /\ Len(q) \in Nat
           /\ DOMAIN q = 1 .. Len(q) /\ DOMAIN Append(q, x) = 1 .. Len(q) + 1
           /\ \A i \in 1 .. Len(q) : i \in 1 .. Len(q) + 1 /\ Append(q, x)[i] = q[i]
           /\ Append(q, x)[Len(q) + 1] = x
           /\ \A i \in 1 .. Len(q) + 1 : i \in 1 .. Len(q) \/ i = Len(q) + 1
OBVIOUS

LEMMA OverlappingIsFinite ==
    ASSUME Types
    PROVE  IsFiniteSet(Overlapping) /\ Cardinality(Overlapping) \in Nat
<1>1. DOMAIN goals = 1 .. Len(goals) /\ Len(goals) \in Nat
  BY DEF Types
<1>2. IsFiniteSet(1 .. Len(goals)) /\ Overlapping \subseteq 1 .. Len(goals)
  BY <1>1, FS_Interval DEF Overlapping
<1> QED BY <1>2, FS_Subset, FS_CardinalityType

\* The table knows a goal of a match if there is one.
LEMMA NewestGoalFacts ==
    ASSUME Types, NEW e \in Events
    PROVE  NewestGoal(e) \in Ids \cup {None} /\ LinkTo(e, NewestGoal(e))
<1> DEFINE found == {i \in DOMAIN rows : rows[i].event = e /\ rows[i].kind = "goal"}
<1>1. rows \in Seq(RowType) /\ Len(rows) \in Nat /\ DOMAIN rows = 1 .. Len(rows)
  BY DEF Types
<1>2. CASE found = {}
  <2>1. NewestGoal(e) = None
    BY <1>2 DEF NewestGoal
  <2>2. \A i \in DOMAIN rows : rows[i].event = e => rows[i].kind # "goal"
    BY <1>2
  <2> QED BY <2>1, <2>2 DEF LinkTo
<1>3. CASE found # {}
  <2>1. Max(found) \in found
    BY <1>1, <1>3, MaxIsGreatest
  <2>2. NewestGoal(e) = rows[Max(found)].id
    BY <1>3 DEF NewestGoal
  <2>3. PICK m \in DOMAIN rows : m = Max(found) /\ rows[m].event = e
    BY <2>1
  <2>4. rows[m].id \in Ids
    <3>1. rows[m] \in RowType
      BY <1>1, <2>3
    <3> QED BY <3>1 DEF RowType
  <2> HIDE DEF found
  <2>5. Recorded(e, NewestGoal(e)) /\ NewestGoal(e) \in Ids /\ NewestGoal(e) # None
    BY <2>2, <2>3, <2>4, ConstantsOK DEF Recorded
  <2> QED BY <2>5 DEF LinkTo
<1> QED BY <1>2, <1>3

LEMMA CandidatesAreItems ==
    ASSUME Types, NEW e \in Events, NEW p \in Payload
    PROVE  Candidates(e, p) \in Seq(Item)
<1>1. p.items \in Seq(Item) /\ p.phase \in Phases /\ lifecycle[e] \in Phases \cup {None}
  BY DEF Types, Payload
<1>2. <<lifecycle[e], p.phase>> \in Ids
  BY <1>1 DEF Ids, Transitions
<1>3. [id |-> <<lifecycle[e], p.phase>>, kind |-> "other"] \in Item
  BY <1>2 DEF Item, Kinds
<1>4. Transition(lifecycle[e], p.phase) \in Seq(Item)
  <2> DEFINE x == [id |-> <<lifecycle[e], p.phase>>, kind |-> "other"]
  <2>1. Transition(lifecycle[e], p.phase) = <<>>
        \/ Transition(lifecycle[e], p.phase) = <<x>>
    BY DEF Transition
  <2>2. x \in Item
    BY <1>3
  <2> HIDE DEF x
  <2>3. <<x>> \in Seq(Item) /\ <<>> \in Seq(Item)
    BY <2>2
  <2> QED BY <2>1, <2>3
<1> QED BY <1>1, <1>4, ConcatProperties DEF Candidates

\* The items of a payload are no changes of phase.
LEMMA CandidateTransitions ==
    ASSUME Types, NEW e \in Events, NEW k \in 1 .. Len(Course)
    PROVE  LET t == <<lifecycle[e], Course[k].phase>>
               ids == IdsOf(Candidates(e, Course[k])) IN
           /\ ids \cap Transitions \subseteq IdsOf(Transition(lifecycle[e], Course[k].phase))
           /\ ids \cap Transitions \subseteq {t}
           /\ IdsOf(Transition(lifecycle[e], Course[k].phase)) \subseteq {t} \cap ids
           /\ t \in Transitions
<1> DEFINE t == <<lifecycle[e], Course[k].phase>>
           items == Course[k].items
           last == Transition(lifecycle[e], Course[k].phase)
           x == [id |-> t, kind |-> "other"]
<1>1. items \in Seq(Item) /\ Course[k].phase \in Phases /\ lifecycle[e] \in Phases \cup {None}
  BY PayloadFacts DEF Types
<1>2. t \in Transitions
  BY <1>1 DEF Transitions
<1>3. IdsOf(items) \subseteq ItemIds
  <2>1. Course \in Seq(Payload) /\ k \in DOMAIN Course
    BY ConstantsOK
  <2> QED BY <2>1 DEF IdsOf, ItemIds
<1>4. IdsOf(items) \cap Transitions = {}
  BY <1>3, ConstantsOK
<1>5. last = <<>> \/ last = <<x>>
  BY DEF Transition
<1>6. x.id = t
  OBVIOUS
<1>7. Candidates(e, Course[k]) = items \o last
  BY DEF Candidates
<1> HIDE DEF t, items, last, x
<1>8. Len(items) \in Nat /\ DOMAIN items = 1 .. Len(items)
  BY <1>1
<1>9. CASE last = <<>>
  <2>1. items \o last = items /\ DOMAIN last = {}
    BY <1>1, <1>9
  <2>2. IdsOf(last) = {} /\ IdsOf(items \o last) = IdsOf(items)
    BY <2>1 DEF IdsOf
  <2> QED BY <1>2, <1>4, <1>7, <2>2 DEF t, last
<1>10. CASE last = <<x>>
  <2>1. DOMAIN last = {1} /\ last[1] = x
    BY <1>10
  <2>2. IdsOf(last) = {t}
    BY <1>6, <2>1 DEF IdsOf
  <2>3. items \o last = Append(items, x)
    BY <1>1, <1>10
  <2>4. /\ DOMAIN Append(items, x) = 1 .. Len(items) + 1
        /\ \A i \in 1 .. Len(items) : Append(items, x)[i] = items[i]
        /\ Append(items, x)[Len(items) + 1] = x
        /\ \A i \in 1 .. Len(items) + 1 : i \in 1 .. Len(items) \/ i = Len(items) + 1
    BY <1>1, <1>8
  <2>5. IdsOf(items \o last) \subseteq IdsOf(items) \cup {t}
    BY <1>6, <1>8, <2>3, <2>4 DEF IdsOf
  <2>6. Len(items) + 1 \in 1 .. Len(items) + 1
    BY <1>8
  <2>7. t \in IdsOf(items \o last)
    BY <1>6, <2>3, <2>4, <2>6 DEF IdsOf
  <2> QED BY <1>2, <1>4, <1>7, <2>2, <2>5, <2>7 DEF t, last
<1> QED BY <1>5, <1>9, <1>10

\* A goal or a correction, or a new event of another kind, is what the rest of
\* the payload links to.
LEMMA RecordedGrows ==
    ASSUME Types, NEW x \in RowType, rows' = Append(rows, x)
    PROVE  /\ \A e, id : Recorded(e, id) => Recorded(e, id)'
           /\ Recorded(x.event, x.id)'
<1>1. rows \in Seq(RowType)
  BY DEF Types
<1>2. /\ Len(rows) \in Nat
      /\ DOMAIN rows = 1 .. Len(rows) /\ DOMAIN rows' = 1 .. Len(rows) + 1
      /\ \A i \in 1 .. Len(rows) : i \in 1 .. Len(rows) + 1 /\ rows'[i] = rows[i]
      /\ rows'[Len(rows) + 1] = x
  BY <1>1, AppendFacts
<1>3. Len(rows) + 1 \in DOMAIN rows'
  BY <1>2
<1>4. \A e, id : Recorded(e, id) => Recorded(e, id)'
  BY <1>2 DEF Recorded
<1>5. Recorded(x.event, x.id)'
  BY <1>2, <1>3 DEF Recorded
<1> QED BY <1>4, <1>5

-----------------------------------------------------------------------------
(***************************************************************************)
(* The steps of the run task within one event                              *)
(***************************************************************************)

\* The end of an event: the score is noted, or it is a change to be written.
LEMMA ScoreFacts ==
    ASSUME Types, NEW e \in Events, e \in poll.todo, poll.todo \subseteq Events,
           poll.answers[e] \in 1 .. Len(Course), Score(e)
    PROVE  LET read == poll.answers[e] IN
           /\ PollOK' /\ poll'.answers = poll.answers
           /\ scores' \in [Events -> (1 .. Len(Course)) \cup {None}]
           /\ \/ /\ poll'.phase = "batch" /\ poll'.todo = poll.todo \ {e}
                 /\ \/ scores' = scores
                    \/ /\ scores'[e] = read
                       /\ \A f \in Events \ {e} : scores'[f] = scores[f]
              \/ /\ poll'.phase = "change" /\ poll'.todo = poll.todo /\ poll'.event = e
                 /\ scores' = scores /\ poll'.before = scores[e]
<1> DEFINE read == poll.answers[e]
<1>1. /\ read \in 1 .. Len(Course)
      /\ scores \in [Events -> (1 .. Len(Course)) \cup {None}]
  BY DEF Types
<1>2. CASE poll' = DoneWith(e)
  <2>1. poll'.phase = "batch" /\ poll'.answers = poll.answers /\ poll'.todo = poll.todo \ {e}
    BY <1>2 DEF DoneWith
  <2>2. PollOK'
    BY <2>1 DEF PollOK, Answering
  <2>3. scores' = scores \/ scores' = [scores EXCEPT ![e] = read]
    BY <1>2, <2>1 DEF Score
  <2> HIDE DEF read
  <2>4. /\ scores' \in [Events -> (1 .. Len(Course)) \cup {None}]
        /\ \/ scores' = scores
           \/ /\ scores'[e] = read
              /\ \A f \in Events \ {e} : scores'[f] = scores[f]
    BY <1>1, <2>3
  <2> QED BY <2>1, <2>2, <2>4 DEF read
<1>3. CASE poll' # DoneWith(e)
  <2>1. /\ poll' = [phase |-> "change", answers |-> poll.answers, todo |-> poll.todo,
                    event |-> e, before |-> scores[e]]
        /\ scores' = scores /\ scores[e] # None
    BY <1>3 DEF Score
  <2>2. /\ poll'.phase = "change" /\ poll'.answers = poll.answers
        /\ poll'.todo = poll.todo /\ poll'.event = e /\ poll'.before = scores[e]
    BY <2>1
  <2>3. PollOK'
    BY <1>1, <2>1, <2>2 DEF PollOK, Answering
  <2> QED BY <1>1, <2>1, <2>2, <2>3
<1> QED BY <1>2, <1>3

\* The loop stops at a new candidate, marks it, and has all other new ones left.
StopsAtNew(e, items, known, shared, prev) ==
    /\ poll'.phase = "upsert" /\ poll'.event = e /\ poll'.todo = poll.todo
    /\ poll'.known = known \cup {poll'.item.id}
    /\ poll'.shared = shared /\ poll'.prev = prev
    /\ {poll'.item.id} \cup IdsOf(poll'.rest) \subseteq IdsOf(items)
    /\ IdsOf(items) \ known \subseteq {poll'.item.id} \cup IdsOf(poll'.rest)
    /\ scores' = scores
    /\ shared => /\ seen'[e] = known \cup {poll'.item.id}
                 /\ \A f \in Events \ {e} : seen'[f] = seen[f]
    /\ ~shared => seen' = seen

\* The loop over the candidates ends, or stops at a new one.
LEMMA ProceedFacts ==
    ASSUME Types, NEW e \in Events, e \in poll.todo, poll.todo \subseteq Events,
           poll.answers[e] \in 1 .. Len(Course),
           NEW items \in Seq(Item), NEW known \in SUBSET Ids, NEW shared \in BOOLEAN,
           NEW prev \in Ids \cup {None}, Proceed(e, items, known, shared, prev)
    PROVE  /\ PollOK' /\ poll'.answers = poll.answers
           /\ scores' \in [Events -> (1 .. Len(Course)) \cup {None}]
           /\ seen' \in [Events -> SUBSET Ids]
           /\ \/ seen' = seen /\ Score(e) /\ IdsOf(items) \subseteq known
              \/ StopsAtNew(e, items, known, shared, prev)
<1> DEFINE new == {i \in DOMAIN items : items[i].id \notin known}
           k == Min(new)
           marked == known \cup {items[k].id}
           rest == SubSeq(items, k + 1, Len(items))
<1>0. /\ seen \in [Events -> SUBSET Ids]
      /\ scores \in [Events -> (1 .. Len(Course)) \cup {None}]
      /\ Len(items) \in Nat /\ DOMAIN items = 1 .. Len(items)
  BY DEF Types
<1>1. CASE new = {}
  <2>1. Score(e) /\ seen' = seen
    BY <1>1 DEF Proceed
  <2>2. IdsOf(items) \subseteq known
    BY <1>1 DEF IdsOf
  <2> QED BY <1>0, <2>1, <2>2, ScoreFacts
<1>2. CASE new # {}
  <2>1. /\ seen' = IF shared THEN [seen EXCEPT ![e] = marked] ELSE seen
        /\ poll' = [phase |-> "upsert", answers |-> poll.answers, todo |-> poll.todo,
                    event |-> e, item |-> items[k], rest |-> rest,
                    known |-> marked, shared |-> shared, prev |-> prev]
        /\ scores' = scores
    BY <1>2 DEF Proceed, Marked
  <2>2. k \in new /\ \A i \in new : k <= i
    <3>1. new \in SUBSET Nat
      BY <1>0
    <3> QED BY <1>2, <3>1, MinIsLeast
  <2>3. k \in 1 .. Len(items)
    BY <1>0, <2>2
  <2>4. \A i \in DOMAIN items : items[i].id \notin known => k <= i
    BY <2>2
  <2> HIDE DEF k
  <2>5. items[k] \in Item /\ items[k].id \in Ids
    <3>1. items[k] \in Item
      BY <2>3
    <3> QED BY <3>1 DEF Item
  <2>6. rest \in Seq(Item)
    BY <1>0, <2>3
  <2>7. /\ DOMAIN rest = 1 .. Len(items) - k
        /\ \A i \in 1 .. Len(items) - k : rest[i] = items[k + i]
    BY <1>0, <2>3
  <2>8. marked \in SUBSET Ids
    BY <2>5
  <2> HIDE DEF rest
  <2>9. {items[k].id} \cup IdsOf(rest) \subseteq IdsOf(items)
    <3>1. \A i \in 1 .. Len(items) - k : k + i \in DOMAIN items
      BY <1>0, <2>3
    <3>2. IdsOf(rest) \subseteq IdsOf(items)
      <4>1. \A i \in DOMAIN rest : k + i \in DOMAIN items /\ rest[i] = items[k + i]
        BY <2>7, <3>1
      <4> QED BY <4>1 DEF IdsOf
    <3>3. items[k].id \in IdsOf(items)
      BY <1>0, <2>3 DEF IdsOf
    <3> QED BY <3>2, <3>3
  <2>10. ASSUME NEW i \in DOMAIN items, items[i].id \notin known
         PROVE  items[i].id \in {items[k].id} \cup IdsOf(rest)
    <3>1. k <= i /\ i \in 1 .. Len(items)
      BY <1>0, <2>4, <2>10
    <3>2. CASE i = k
      BY <3>2
    <3>3. CASE i # k
      <4>1. i - k \in 1 .. Len(items) - k /\ k + (i - k) = i
        BY <1>0, <2>3, <3>1, <3>3
      <4>2. i - k \in DOMAIN rest /\ rest[i - k] = items[i]
        BY <2>7, <4>1
      <4> QED BY <4>2 DEF IdsOf
    <3> QED BY <3>2, <3>3
  <2>11. IdsOf(items) \ known \subseteq {items[k].id} \cup IdsOf(rest)
    BY <2>10 DEF IdsOf
  <2>12. /\ poll'.phase = "upsert" /\ poll'.answers = poll.answers
         /\ poll'.todo = poll.todo /\ poll'.event = e /\ poll'.item = items[k]
         /\ poll'.rest = rest
         /\ poll'.known = marked /\ poll'.shared = shared /\ poll'.prev = prev
         /\ poll' = UpsertPoll'
    BY <2>1 DEF UpsertPoll
  <2> HIDE DEF marked, new
  <2>13. PollOK'
    BY <2>5, <2>6, <2>8, <2>12 DEF PollOK, Answering
  <2>14. /\ seen' \in [Events -> SUBSET Ids]
         /\ IF shared THEN seen'[e] = marked /\ \A f \in Events \ {e} : seen'[f] = seen[f]
                      ELSE seen' = seen
    BY <1>0, <2>1, <2>8
  <2>15. StopsAtNew(e, items, known, shared, prev)
    BY <2>1, <2>9, <2>11, <2>12, <2>14 DEF StopsAtNew, marked
  <2> QED BY <1>0, <2>1, <2>12, <2>13, <2>14, <2>15
<1> QED BY <1>1, <1>2

\* What is not lost before a step is not lost after it.
LEMMA LostShrinks ==
    ASSUME Fingerprints, faults \in Nat, faults' \in Nat, faults <= faults',
           \A e \in Events : LostOf(e)' \subseteq LostOf(e)
    PROVE  IsFiniteSet(Lost') /\ Cardinality(Lost') <= faults'
<1>1. Lost' \subseteq Lost
  BY DEF Lost
<1>2. IsFiniteSet(Lost) /\ Cardinality(Lost) <= faults
  BY DEF Fingerprints
<1>3. /\ IsFiniteSet(Lost') /\ Cardinality(Lost') <= Cardinality(Lost)
      /\ Cardinality(Lost) \in Nat /\ Cardinality(Lost') \in Nat
  BY <1>1, <1>2, FS_Subset, FS_CardinalityType
<1> QED BY <1>2, <1>3

\* A new fingerprint is marked only to be written next.
LEMMA FingerprintsProceed ==
    ASSUME Types, Fingerprints,
           NEW e \in Events, e \in poll.todo, poll.todo \subseteq Events,
           poll.answers[e] \in 1 .. Len(Course),
           NEW items \in Seq(Item), NEW known \in SUBSET Ids, NEW shared \in BOOLEAN,
           NEW prev \in Ids \cup {None}, Proceed(e, items, known, shared, prev),
           shared => known = seen[e],
           \A f, id : Recorded(f, id) => Recorded(f, id)',
           \A f, id : poll.phase = "upsert" /\ poll.event = f /\ poll.item.id = id
                          => Recorded(f, id)',
           faults' = faults
    PROVE  Fingerprints'
<1>1. /\ seen' \in [Events -> SUBSET Ids]
      /\ (seen' = seen /\ Score(e)) \/ StopsAtNew(e, items, known, shared, prev)
  BY ProceedFacts
<1>2. ASSUME Score(e) PROVE poll'.phase \in {"batch", "change"}
  BY <1>2, ScoreFacts
<1>3. ASSUME NEW f \in Events, NEW id \in LostOf(f)' PROVE id \in LostOf(f)
  <2>1. /\ id \in seen'[f] /\ ~Recorded(f, id)'
        /\ ~(poll'.phase = "upsert" /\ poll'.event = f /\ poll'.item.id = id)
    BY DEF LostOf
  <2>2. id \in seen[f]
    BY <1>1, <2>1 DEF StopsAtNew
  <2>3. ~Recorded(f, id)
    BY <2>1
  <2>4. ~(poll.phase = "upsert" /\ poll.event = f /\ poll.item.id = id)
    BY <2>1
  <2> QED BY <2>2, <2>3, <2>4 DEF LostOf
<1>4. IsFiniteSet(Lost') /\ Cardinality(Lost') <= faults'
  BY <1>3, LostShrinks DEF Types
<1>5. poll'.phase \in {"lookup", "upsert"} /\ poll'.shared => poll'.known = seen'[poll'.event]
  BY <1>1, <1>2 DEF StopsAtNew
<1> QED BY <1>4, <1>5 DEF Fingerprints

\* What is not missed before a step is not missed after it.
LEMMA MissedShrinks ==
    ASSUME PhaseChanges, faults + restarts \in Nat, faults' + restarts' \in Nat,
           faults + restarts <= faults' + restarts',
           \A e \in Events : MissedOf(e)' \subseteq MissedOf(e)
    PROVE  IsFiniteSet(Missed') /\ Cardinality(Missed') <= faults' + restarts'
<1>1. Missed' \subseteq Missed
  BY DEF Missed
<1>2. IsFiniteSet(Missed) /\ Cardinality(Missed) <= faults + restarts
  BY DEF PhaseChanges
<1>3. /\ IsFiniteSet(Missed') /\ Cardinality(Missed') <= Cardinality(Missed)
      /\ Cardinality(Missed) \in Nat /\ Cardinality(Missed') \in Nat
  BY <1>1, <1>2, FS_Subset, FS_CardinalityType
<1> QED BY <1>2, <1>3

\* A change of phase that is noted is written, in hand, or missed already.
LEMMA PhaseChangesProceed ==
    ASSUME Types, PhaseChanges,
           NEW e \in Events, e \in poll.todo, poll.todo \subseteq Events,
           poll.answers[e] \in 1 .. Len(Course),
           NEW items \in Seq(Item), NEW known \in SUBSET Ids, NEW shared \in BOOLEAN,
           NEW prev \in Ids \cup {None}, Proceed(e, items, known, shared, prev),
           IdsOf(items) \cap Transitions \subseteq noted'[e],
           \A s, t \in IdsOf(items) \cap Transitions : s = t,
           known \cap Transitions \subseteq noted'[e],
           \A f \in Events : seen[f] \cap Transitions \subseteq noted'[f],
           \A f \in Events : \A t \in noted'[f] :
               \/ Recorded(f, t)' \/ t \in MissedOf(f)
               \/ f = e /\ t \in IdsOf(items) \ known,
           UNCHANGED <<faults, restarts>>
    PROVE  PhaseChanges'
<1>1. /\ seen' \in [Events -> SUBSET Ids]
      /\ \/ seen' = seen /\ Score(e) /\ IdsOf(items) \subseteq known
         \/ StopsAtNew(e, items, known, shared, prev)
  BY ProceedFacts
<1>2. faults + restarts \in Nat
  BY DEF Types
<1>3. CASE seen' = seen /\ Score(e) /\ IdsOf(items) \subseteq known
  <2>1. poll'.phase \in {"batch", "change"}
    BY <1>3, ScoreFacts
  <2>2. \A f \in Events : MissedOf(f)' \subseteq MissedOf(f)
    BY <1>3 DEF MissedOf
  <2>3. IsFiniteSet(Missed') /\ Cardinality(Missed') <= faults' + restarts'
    BY <1>2, <2>2, MissedShrinks
  <2> QED BY <1>3, <2>1, <2>3 DEF PhaseChanges
<1>4. CASE StopsAtNew(e, items, known, shared, prev)
  <2>1. /\ poll'.phase = "upsert" /\ poll'.event = e
        /\ poll'.known = known \cup {poll'.item.id}
        /\ {poll'.item.id} \cup IdsOf(poll'.rest) \subseteq IdsOf(items)
        /\ IdsOf(items) \ known \subseteq {poll'.item.id} \cup IdsOf(poll'.rest)
    BY <1>4 DEF StopsAtNew
  <2>2. Writing(e)' = {poll'.item.id} \cup (IdsOf(poll'.rest) \ poll'.known)
    BY <2>1 DEF Writing, IdsOf
  <2>3. IdsOf(items) \ known \subseteq Writing(e)'
    BY <2>1, <2>2
  <2>4. \A f \in Events : MissedOf(f)' \subseteq MissedOf(f)
    BY <2>3 DEF MissedOf
  <2>5. IsFiniteSet(Missed') /\ Cardinality(Missed') <= faults' + restarts'
    BY <1>2, <2>4, MissedShrinks
  <2>6. known \cup {poll'.item.id} \subseteq known \cup IdsOf(items)
    BY <2>1
  <2>7. \A f \in Events : seen'[f] \cap Transitions \subseteq noted'[f]
    BY <1>4, <2>6 DEF StopsAtNew
  <2>8. OneTransition(poll.event, {poll.item.id} \cup IdsOf(poll.rest))'
    <3>1. \A s, t \in ({poll'.item.id} \cup IdsOf(poll'.rest)) \cap Transitions : s = t
      BY <2>1
    <3>2. ({poll'.item.id} \cup IdsOf(poll'.rest)) \cap Transitions \subseteq noted'[e]
      BY <2>1
    <3> QED BY <2>1, <3>1, <3>2 DEF OneTransition, IdsOf
  <2>9. poll'.known \cap Transitions \subseteq noted'[poll'.event]
    BY <2>1, <2>6
  <2> QED BY <2>1, <2>5, <2>7, <2>8, <2>9 DEF PhaseChanges
<1> QED BY <1>1, <1>3, <1>4

\* A baseline stays or catches up with what is written.
LEMMA FollowsStay ==
    ASSUME Types, Follows, faults' \in Nat, faults <= faults', DOMAIN goals' = DOMAIN goals,
           \A i \in DOMAIN goals : /\ goals'[i].event = goals[i].event
                                 /\ goals'[i].before = goals[i].before
                                 /\ goals'[i].after = goals[i].after,
           \A e \in Events : at'[e] \in Nat /\ at[e] <= at'[e],
           \A e \in Events : \/ Base(e)' = None \/ Base(e)' = Base(e)
                            \/ Covers(e, Base(e)'),
           \A e \in Events : Answering' /\ e \in poll'.todo =>
               poll'.answers[e] \in 1 .. at'[e] /\ Covers(e, poll'.answers[e]),
           poll'.phase = "change" => scores'[poll'.event] \in {None, poll'.before}
    PROVE  Follows'
<1>1. goals \in Seq(GoalType) /\ Len(goals) \in Nat /\ DOMAIN goals = 1 .. Len(goals)
  BY DEF Types
<1>2. \A e, k : \A b : b = k => (Covers(e, k) <=> \A i \in DOMAIN goals' :
                      goals'[i].event = e => goals'[i].after <= b)
  BY DEF Covers
<1>3. Overlapping' = Overlapping
  <2>1. \A j \in DOMAIN goals : \A i \in 1 .. j - 1 : i \in DOMAIN goals
    BY <1>1
  <2> QED BY <2>1 DEF Overlapping
<1>4. Lagging' \subseteq Lagging
  <2>1. ASSUME NEW e \in Lagging' PROVE e \in Lagging
    <3>1. e \in Events /\ Base(e)' # None /\ ~Covers(e, Base(e))'
      BY <2>1 DEF Lagging
    <3>2. ~Covers(e, Base(e)')
      BY <3>1, <1>2 DEF Covers
    <3> QED BY <3>1, <3>2 DEF Lagging
  <2> QED BY <2>1
<1>5. IsFiniteSet(Lagging) /\ Cardinality(Overlapping) + Cardinality(Lagging) <= faults
  BY DEF Follows
<1>6. /\ IsFiniteSet(Lagging') /\ Cardinality(Lagging') <= Cardinality(Lagging)
      /\ Cardinality(Lagging) \in Nat /\ Cardinality(Lagging') \in Nat
      /\ Cardinality(Overlapping) \in Nat /\ faults \in Nat
  BY <1>4, <1>5, FS_Subset, FS_CardinalityType, OverlappingIsFinite DEF Types
<1>7. Cardinality(Overlapping') + Cardinality(Lagging') <= faults'
  BY <1>3, <1>5, <1>6
<1>8. ASSUME NEW e \in Events PROVE Covers(e, at[e])'
  <2>1. Covers(e, at[e]) /\ at[e] \in Nat /\ at'[e] \in Nat /\ at[e] <= at'[e]
    BY DEF Follows, Types
  <2>2. \A i \in DOMAIN goals : goals[i].after \in Nat
    <3>1. \A i \in DOMAIN goals : goals[i] \in GoalType
      BY <1>1
    <3> QED BY <3>1 DEF GoalType
  <2> QED BY <2>1, <2>2 DEF Covers
<1>9. ASSUME NEW e \in Events, Answering', e \in poll'.todo
      PROVE  poll'.answers[e] \in 1 .. at'[e] /\ Covers(e, poll.answers[e])'
  BY <1>9 DEF Covers
<1> QED BY <1>6, <1>7, <1>8, <1>9 DEF Follows

\* The baseline moves to the answer in hand, which covers all that is written,
\* or the change is to be measured from it.
LEMMA FollowsProceed ==
    ASSUME Types, Follows, Answering, poll.phase # "change",
           NEW e \in Events, e \in poll.todo, poll.todo \subseteq Events,
           poll.answers[e] \in 1 .. Len(Course),
           NEW items \in Seq(Item), NEW known \in SUBSET Ids, NEW shared \in BOOLEAN,
           NEW prev \in Ids \cup {None}, Proceed(e, items, known, shared, prev),
           UNCHANGED <<goals, at, faults>>
    PROVE  Follows'
<1>1. /\ poll'.answers = poll.answers
      /\ \/ Score(e)
         \/ poll'.phase = "upsert" /\ poll'.todo = poll.todo /\ scores' = scores
  BY ProceedFacts DEF StopsAtNew
<1>2. ASSUME Score(e)
      PROVE  \/ /\ poll'.phase = "batch" /\ poll'.todo = poll.todo \ {e}
                /\ \/ scores' = scores
                   \/ /\ scores'[e] = poll.answers[e]
                      /\ \A f \in Events \ {e} : scores'[f] = scores[f]
             \/ /\ poll'.phase = "change" /\ poll'.todo = poll.todo /\ poll'.event = e
                /\ scores' = scores /\ poll'.before = scores[e]
  BY <1>2, ScoreFacts
<1>3. \A f \in Events : Answering /\ f \in poll.todo =>
          poll.answers[f] \in 1 .. at[f] /\ Covers(f, poll.answers[f])
  BY DEF Follows
<1>4. poll'.todo \subseteq poll.todo
  BY <1>1, <1>2
<1>5. \A f \in Events : /\ Base(f) = scores[f]
                        /\ Base(f)' = scores'[f] \/ Base(f)' = scores[f]
  BY <1>1, <1>2 DEF Base
<1>6. \A f \in Events : scores'[f] = scores[f] \/ Covers(f, scores'[f])
  BY <1>1, <1>2, <1>3
<1>7. ASSUME NEW f \in Events PROVE Base(f)' = Base(f) \/ Covers(f, Base(f)')
  BY <1>5, <1>6
<1>8. \A f \in Events : Answering' /\ f \in poll'.todo =>
          poll'.answers[f] \in 1 .. at'[f] /\ Covers(f, poll'.answers[f])
  BY <1>1, <1>3, <1>4
<1>9. poll'.phase = "change" => scores'[poll'.event] \in {None, poll'.before}
  BY <1>1, <1>2
<1>10. faults' \in Nat /\ faults <= faults' /\ \A f \in Events : at'[f] \in Nat /\ at[f] <= at'[f]
  BY DEF Types
<1> QED BY <1>7, <1>8, <1>9, <1>10, FollowsStay
-----------------------------------------------------------------------------
(***************************************************************************)
(* What keeps each part of the invariant                                   *)
(***************************************************************************)

LEMMA LinksStay ==
    ASSUME Links, UNCHANGED <<rows, substantive>>,
           poll'.phase = "upsert" => LinkTo(poll'.event, poll'.prev)
    PROVE  Links'
<1>1. \A e, id : Recorded(e, id)' <=> Recorded(e, id)
  BY DEF Recorded
<1>2. CorrectionsAreLinked'
  BY DEF Links, CorrectionsAreLinked
<1>3. poll'.phase = "upsert" => LinkTo(poll.event, poll.prev)'
  BY <1>1 DEF LinkTo
<1>4. \A e \in Events : substantive'[e] # None => Recorded(e, substantive'[e])
  BY DEF Links
<1>5. \A e \in Events : substantive'[e] # None => Recorded(e, substantive[e])'
  BY <1>1, <1>4
<1> QED BY <1>2, <1>3, <1>5 DEF Links

LEMMA WindowsStay ==
    ASSUME Windows, UNCHANGED <<goals, pending, restarts>>,
           poll'.phase = "finish" =>
               /\ poll.phase = "finish" /\ poll'.todo = poll.todo
               /\ poll'.remaining = poll.remaining
    PROVE  Windows'
BY DEF Windows

LEMMA FingerprintsStay ==
    ASSUME Types, Fingerprints, UNCHANGED <<rows, seen>>,
           faults' \in Nat, faults <= faults',
           poll.phase = "upsert" => /\ poll'.phase = "upsert" /\ poll'.event = poll.event
                                    /\ poll'.item = poll.item,
           poll'.phase \in {"lookup", "upsert"} /\ poll'.shared
               => poll'.known = seen[poll'.event]
    PROVE  Fingerprints'
<1>1. \A e \in Events : LostOf(e)' \subseteq LostOf(e)
  BY DEF LostOf, Recorded
<1>2. IsFiniteSet(Lost') /\ Cardinality(Lost') <= faults'
  BY <1>1, LostShrinks DEF Types
<1> QED BY <1>2 DEF Fingerprints

LEMMA PhaseChangesStay ==
    ASSUME Types, PhaseChanges, UNCHANGED <<rows, noted>>,
           faults' + restarts' \in Nat, faults + restarts <= faults' + restarts',
           \A e \in Events : seen'[e] \subseteq seen[e],
           poll.phase \in {"lookup", "upsert"} \/ poll'.phase \in {"lookup", "upsert"} =>
               /\ poll'.phase = poll.phase /\ poll'.event = poll.event
               /\ poll'.known = poll.known,
           poll.phase = "lookup" => poll'.items = poll.items,
           poll.phase = "upsert" => poll'.item = poll.item /\ poll'.rest = poll.rest
    PROVE  PhaseChanges'
<1>1. \A e : Writing(e)' = Writing(e)
  BY DEF Writing, IdsOf
<1>2. \A e \in Events : MissedOf(e)' \subseteq MissedOf(e)
  BY <1>1 DEF MissedOf, Recorded
<1>3. IsFiniteSet(Missed') /\ Cardinality(Missed') <= faults' + restarts'
  BY <1>2, MissedShrinks DEF Types
<1>4. \A e \in Events : seen'[e] \cap Transitions \subseteq noted'[e]
  BY DEF PhaseChanges
<1>5. ASSUME poll'.phase = "lookup"
      PROVE  /\ OneTransition(poll.event, IdsOf(poll.items))'
             /\ poll'.known \cap Transitions \subseteq noted'[poll'.event]
  BY <1>5 DEF PhaseChanges, OneTransition, IdsOf
<1>6. ASSUME poll'.phase = "upsert"
      PROVE  /\ OneTransition(poll.event, {poll.item.id} \cup IdsOf(poll.rest))'
             /\ poll'.known \cap Transitions \subseteq noted'[poll'.event]
  BY <1>6 DEF PhaseChanges, OneTransition, IdsOf
<1> QED BY <1>3, <1>4, <1>5, <1>6 DEF PhaseChanges

\* A pass that ends early misses the one change of phase it had in hand.
LEMMA PhaseChangesLose ==
    ASSUME Types, PhaseChanges, UNCHANGED <<rows, noted>>,
           faults' + restarts' = faults + restarts + 1,
           \A e \in Events : seen'[e] \subseteq seen[e],
           poll'.phase \notin {"lookup", "upsert"}
    PROVE  PhaseChanges'
<1>1. faults + restarts \in Nat /\ faults' + restarts' \in Nat
  BY DEF Types
<1>2. PICK t : \A x \in Writing(poll.event) \cap Transitions : x = t
  <2>1. Writing(poll.event) = {} \/ poll.phase = "lookup" \/ poll.phase = "upsert"
    BY DEF Writing
  <2>2. CASE poll.phase = "lookup"
    <3>1. Writing(poll.event) \subseteq IdsOf(poll.items)
      BY <2>2 DEF Writing
    <3> QED BY <2>2, <3>1 DEF PhaseChanges, OneTransition
  <2>3. CASE poll.phase = "upsert"
    <3>1. Writing(poll.event) \subseteq {poll.item.id} \cup IdsOf(poll.rest)
      BY <2>3 DEF Writing
    <3> QED BY <2>3, <3>1 DEF PhaseChanges, OneTransition
  <2> QED BY <2>1, <2>2, <2>3
<1>3. \A e : e # poll.event => Writing(e) = {}
  BY DEF Writing
<1> DEFINE y == <<poll.event, t>>
<1>4. ASSUME NEW e \in Events, NEW x \in MissedOf(e)'
      PROVE  x \in MissedOf(e) \/ <<e, x>> = y
  <2>1. x \in noted[e] /\ ~Recorded(e, x)
    BY DEF MissedOf, Recorded
  <2>2. x \in Transitions
    BY <2>1 DEF Types
  <2>3. CASE x \notin Writing(e)
    BY <2>1, <2>3 DEF MissedOf
  <2>4. CASE x \in Writing(e)
    <3>1. e = poll.event /\ x = t
      BY <1>2, <1>3, <2>2, <2>4
    <3> QED BY <3>1
  <2> QED BY <2>3, <2>4
<1> HIDE DEF y
<1>5. Missed' \subseteq Missed \cup {y}
  BY <1>4 DEF Missed
<1>6. IsFiniteSet(Missed) /\ Cardinality(Missed) <= faults + restarts
  BY DEF PhaseChanges
<1>7. /\ IsFiniteSet(Missed \cup {y}) /\ Cardinality(Missed) \in Nat
      /\ Cardinality(Missed \cup {y}) \in Nat
      /\ Cardinality(Missed \cup {y}) <= Cardinality(Missed) + 1
  BY <1>6, OneMore
<1>8. /\ IsFiniteSet(Missed') /\ Cardinality(Missed') \in Nat
      /\ Cardinality(Missed') <= Cardinality(Missed \cup {y})
  BY <1>5, <1>7, FS_Subset, FS_CardinalityType
<1>9. Cardinality(Missed') <= faults' + restarts'
  BY <1>1, <1>6, <1>7, <1>8
<1>10. \A e \in Events : seen'[e] \cap Transitions \subseteq noted'[e]
  BY DEF PhaseChanges
<1> QED BY <1>8, <1>9, <1>10 DEF PhaseChanges

\* The answer in hand for a match is one of its payloads.
LEMMA AnswerFacts ==
    ASSUME IInv, Answering, NEW e \in Events, e \in poll.todo
    PROVE  /\ poll.answers[e] \in 1 .. at[e] /\ Covers(e, poll.answers[e])
           /\ poll.answers[e] \in 1 .. Len(Course) /\ poll.todo \subseteq Events
<1>1. poll.answers[e] \in 1 .. at[e] /\ Covers(e, poll.answers[e])
  BY DEF IInv, Follows
<1>2. at[e] \in 1 .. Len(Course) /\ Len(Course) \in Nat
  BY ConstantsOK DEF IInv, Types
<1>3. poll.answers[e] \in 1 .. Len(Course)
  BY <1>1, <1>2
<1> QED BY <1>1, <1>3 DEF IInv, Types, PollOK

\* What a step that neither writes a change nor moves a baseline leaves alone.
LEMMA FollowsUntouched ==
    ASSUME Types, Follows, UNCHANGED <<goals, at>>, faults' \in Nat, faults <= faults',
           \A e \in Events : scores'[e] \in {None, scores[e]},
           poll'.phase = "change" => /\ poll.phase = "change"
                                     /\ poll'.event = poll.event /\ poll'.before = poll.before,
           Answering' => /\ Answering /\ poll'.answers = poll.answers
                         /\ poll'.todo \subseteq poll.todo
    PROVE  Follows'
<1>1. \A e \in Events : poll.phase = "change" /\ poll.event = e
                           => scores[e] \in {None, poll.before}
  BY DEF Follows
<1>2. ASSUME NEW e \in Events PROVE Base(e)' \in {None, Base(e)}
  BY <1>1 DEF Base
<1>3. \A e \in Events : at'[e] \in Nat /\ at[e] <= at'[e]
  BY DEF Types
<1>4. \A e \in Events : Answering' /\ e \in poll'.todo =>
          poll'.answers[e] \in 1 .. at'[e] /\ Covers(e, poll'.answers[e])
  BY DEF Follows
<1>5. poll'.phase = "change" => scores'[poll'.event] \in {None, poll'.before}
  BY DEF Follows, Types, PollOK, Answering
<1> QED BY <1>2, <1>3, <1>4, <1>5, FollowsStay
-----------------------------------------------------------------------------
(***************************************************************************)
(* The actions of the run task                                             *)
(***************************************************************************)

LEMMA AnswerKeeps ==
    ASSUME IInv, NEW es \in SUBSET milestones, Answer(es)
    PROVE  IInv'
<1>0. /\ Types /\ OneRowEach /\ Windows /\ Links /\ Fingerprints
      /\ PhaseChanges /\ Follows
  BY DEF IInv
<1>1. /\ poll' = [phase |-> "batch", answers |-> [e \in es |-> at[e]], todo |-> es]
      /\ UNCHANGED <<watched, milestones, seen, lifecycle, substantive, scores, pending,
                     rows, goals, noted, at, faults, restarts>>
  BY DEF Answer
<1>2. /\ poll'.phase = "batch" /\ poll'.todo = es /\ es \subseteq Events
      /\ \A e \in es : poll'.answers[e] = at[e]
  BY <1>0, <1>1 DEF Types
<1>3. Types'
  BY <1>0, <1>1, <1>2 DEF Types, PollOK, Answering
<1>4. OneRowEach' /\ Windows'
  BY <1>0, <1>1, <1>2, WindowsStay DEF OneRowEach
<1>5. Links'
  BY <1>0, <1>1, <1>2, LinksStay
<1>6. poll.phase = "idle"
  BY DEF Answer, Idle
<1>7. Fingerprints'
  BY <1>0, <1>1, <1>2, <1>6, FingerprintsStay DEF Types
<1>8. PhaseChanges'
  BY <1>0, <1>1, <1>2, <1>6, PhaseChangesStay DEF Types
<1>9. Follows'
  <2>1. \A e \in Events : Base(e)' = Base(e)
    BY <1>1, <1>2, <1>6 DEF Base
  <2>2. \A e \in Events : at[e] \in 1 .. at[e] /\ Covers(e, at[e])
    BY <1>0 DEF Types, Follows
  <2>3. \A e \in Events : Answering' /\ e \in poll'.todo =>
            poll'.answers[e] \in 1 .. at'[e] /\ Covers(e, poll'.answers[e])
    BY <1>1, <1>2, <2>2
  <2>4. faults' \in Nat /\ faults <= faults' /\ \A e \in Events : at'[e] \in Nat /\ at[e] <= at'[e]
    BY <1>0, <1>1 DEF Types
  <2> QED BY <1>0, <1>1, <1>2, <2>1, <2>3, <2>4, FollowsStay
<1> QED BY <1>3, <1>4, <1>5, <1>7, <1>8, <1>9 DEF IInv

LEMMA TakeUpKeeps ==
    ASSUME IInv, NEW e \in Events, TakeUp(e)
    PROVE  IInv'
<1>0. /\ Types /\ OneRowEach /\ Windows /\ Links /\ Fingerprints
      /\ PhaseChanges /\ Follows
  BY DEF IInv
<1>1. /\ poll.phase = "batch" /\ e \in poll.todo
      /\ poll' = IF e \in milestones
                 THEN [phase |-> "clock", answers |-> poll.answers, todo |-> poll.todo,
                       event |-> e]
                 ELSE DoneWith(e)
      /\ UNCHANGED <<watched, milestones, seen, lifecycle, substantive, scores, pending,
                     rows, goals, noted, at, faults, restarts>>
  BY DEF TakeUp
<1>2. /\ poll'.phase \in {"batch", "clock"} /\ poll'.answers = poll.answers
      /\ poll'.todo \subseteq poll.todo
      /\ poll'.phase = "clock" => poll'.event \in poll'.todo
  BY <1>1 DEF DoneWith
<1>3. Types'
  BY <1>0, <1>1, <1>2 DEF Types, PollOK, Answering
<1>4. OneRowEach' /\ Windows'
  BY <1>0, <1>1, <1>2, WindowsStay DEF OneRowEach
<1>5. Links'
  BY <1>0, <1>1, <1>2, LinksStay
<1>6. Fingerprints'
  BY <1>0, <1>1, <1>2, FingerprintsStay DEF Types
<1>7. PhaseChanges'
  BY <1>0, <1>1, <1>2, PhaseChangesStay DEF Types
<1>8. Follows'
  BY <1>0, <1>1, <1>2, FollowsUntouched DEF Types, Answering
<1> QED BY <1>3, <1>4, <1>5, <1>6, <1>7, <1>8 DEF IInv

LEMMA RecordEventsKeeps ==
    ASSUME IInv, RecordEvents
    PROVE  IInv'
<1> DEFINE e == poll.event
           payload == Course[poll.answers[e]]
           items == Candidates(e, payload)
           turned == Transition(lifecycle[e], payload.phase)
<1>0. /\ Types /\ OneRowEach /\ Windows /\ Links /\ Fingerprints
      /\ PhaseChanges /\ Follows
  BY DEF IInv
<1>1. /\ poll.phase = "clock"
      /\ lifecycle' = [lifecycle EXCEPT ![e] = payload.phase]
      /\ noted' = [noted EXCEPT ![e] = @ \cup IdsOf(turned)]
      /\ UNCHANGED <<watched, milestones, substantive, pending,
                     rows, goals, at, faults, restarts>>
  BY DEF RecordEvents
<1>2. Answering /\ e \in poll.todo /\ poll.todo \subseteq Events /\ e \in Events
  BY <1>0, <1>1 DEF Types, PollOK, Answering
<1>3. poll.answers[e] \in 1 .. Len(Course)
  BY <1>2, AnswerFacts
<1>a. payload \in Payload /\ payload.phase \in Phases
  BY <1>3, PayloadFacts
<1>b. /\ IdsOf(items) \cap Transitions \subseteq IdsOf(turned)
      /\ \A s, t \in IdsOf(items) \cap Transitions : s = t
      /\ IdsOf(turned) \subseteq Transitions /\ IdsOf(turned) \subseteq IdsOf(items)
  <2> DEFINE t == <<lifecycle[e], payload.phase>>
  <2>1. /\ IdsOf(items) \cap Transitions \subseteq IdsOf(turned)
        /\ IdsOf(items) \cap Transitions \subseteq {t}
        /\ IdsOf(turned) \subseteq {t} \cap IdsOf(items)
        /\ t \in Transitions
    BY ONLY <1>0, <1>2, <1>3, CandidateTransitions
  <2> HIDE DEF t, turned, items
  <2> QED BY <2>1
<1>4. items \in Seq(Item)
  BY <1>0, <1>2, <1>a, CandidatesAreItems
<1>5. lifecycle' \in [Events -> Phases \cup {None}]
  <2>1. lifecycle \in [Events -> Phases \cup {None}]
    BY <1>0 DEF Types
  <2> HIDE DEF e, payload
  <2> QED BY <1>1, <1>a, <2>1
<1>6. substantive[e] \in Ids \cup {None} /\ seen[e] \subseteq Ids
  BY <1>0, <1>2 DEF Types
<1> HIDE DEF e, items, payload, turned
<1>c. noted' \in [Events -> SUBSET Transitions]
  <2>1. noted \in [Events -> SUBSET Transitions]
    BY <1>0 DEF Types
  <2> QED BY <1>1, <1>2, <1>b, <2>1
<1>d. /\ \A f \in Events : noted[f] \subseteq noted'[f]
      /\ IdsOf(items) \cap Transitions \subseteq noted'[e]
      /\ \A f \in Events : \A t \in noted'[f] : t \in noted[f] \/ (f = e /\ t \in IdsOf(turned))
  <2>1. noted \in [Events -> SUBSET Transitions]
    BY <1>0 DEF Types
  <2>2. noted'[e] = noted[e] \cup IdsOf(turned) /\ \A f \in Events \ {e} : noted'[f] = noted[f]
    BY <1>1, <1>2, <2>1
  <2> QED BY <1>2, <1>b, <2>2
<1>f. \A f \in Events : Writing(f) = {}
  BY <1>1 DEF Writing
<1>g. \A f \in Events : seen[f] \cap Transitions \subseteq noted'[f]
  BY <1>0, <1>d DEF PhaseChanges
<1>h. \A f \in Events : \A t \in noted'[f] :
          Recorded(f, t)' \/ t \in MissedOf(f) \/ (f = e /\ t \in IdsOf(items) \ seen[e])
  <2>1. ASSUME NEW f \in Events, NEW t \in noted'[f], ~Recorded(f, t)', t \notin MissedOf(f)
        PROVE  f = e /\ t \in IdsOf(items) \ seen[e]
    <3>1. ~Recorded(f, t)
      BY <1>1, <2>1 DEF Recorded
    <3>2. t \notin noted[f]
      BY <1>f, <2>1, <3>1 DEF MissedOf
    <3>3. f = e /\ t \in IdsOf(turned)
      BY <1>d, <2>1, <3>2
    <3>4. t \notin seen[e]
      BY <1>0, <1>2, <1>b, <3>2, <3>3 DEF PhaseChanges
    <3> QED BY <1>b, <3>3, <3>4
  <2> QED BY <2>1
<1>7. CASE substantive[e] # None
  <2>1. Proceed(e, items, seen[e], TRUE, substantive[e])
    BY <1>7 DEF RecordEvents, e, items, payload
  <2>2. /\ PollOK' /\ poll'.answers = poll.answers
        /\ scores' \in [Events -> (1 .. Len(Course)) \cup {None}]
        /\ seen' \in [Events -> SUBSET Ids]
        /\ (seen' = seen /\ Score(e)) \/ StopsAtNew(e, items, seen[e], TRUE, substantive[e])
    BY <1>0, <1>2, <1>3, <1>4, <1>6, <2>1, ProceedFacts
  <2>3. Score(e) => poll'.phase \in {"batch", "change"}
    BY <1>0, <1>2, <1>3, ScoreFacts
  <2>4. poll'.phase = "upsert" => poll'.event = e /\ poll'.prev = substantive[e]
    BY <2>2, <2>3 DEF StopsAtNew
  <2>5. poll'.phase # "finish"
    BY <2>2, <2>3 DEF StopsAtNew
  <2>6. Types'
    BY <1>0, <1>1, <1>5, <1>c, <2>2 DEF Types
  <2>7. OneRowEach' /\ Windows'
    BY <1>0, <1>1, <2>5, WindowsStay DEF OneRowEach
  <2>8. Links'
    <3>1. LinkTo(e, substantive[e])
      BY <1>0, <1>2, <1>7 DEF Links, LinkTo
    <3> QED BY <1>0, <1>1, <2>4, <3>1, LinksStay
  <2>9. Fingerprints'
    <3>1. \A f, id : Recorded(f, id) => Recorded(f, id)'
      BY <1>1 DEF Recorded
    <3>2. poll.phase # "upsert"
      BY <1>1
    <3> QED BY <1>0, <1>1, <1>2, <1>3, <1>4, <1>6, <2>1, <3>1, <3>2, FingerprintsProceed
  <2>10. Follows'
    <3>1. poll.phase # "change"
      BY <1>1
    <3> QED BY <1>0, <1>1, <1>2, <1>3, <1>4, <1>6, <2>1, <3>1, FollowsProceed
  <2>11. PhaseChanges'
    <3>1. seen[e] \cap Transitions \subseteq noted'[e]
      BY <1>2, <1>g
    <3> QED BY <1>0, <1>1, <1>2, <1>3, <1>4, <1>6, <1>b, <1>d, <1>g, <1>h, <2>1, <3>1,
               PhaseChangesProceed
  <2> QED BY <2>6, <2>7, <2>8, <2>9, <2>10, <2>11 DEF IInv
<1>8. CASE substantive[e] = None
  <2>1. /\ poll' = [phase |-> "lookup", answers |-> poll.answers, todo |-> poll.todo,
                    event |-> e, items |-> items, known |-> seen[e], shared |-> TRUE]
        /\ seen' = seen /\ scores' = scores
    BY <1>8 DEF RecordEvents, e, items, payload
  <2>2. /\ poll'.phase = "lookup" /\ poll'.answers = poll.answers
        /\ poll'.todo = poll.todo /\ poll'.event = e /\ poll'.items = items
        /\ poll'.known = seen[e] /\ poll'.shared = TRUE /\ poll' = LookupPoll'
    BY <2>1 DEF LookupPoll
  <2>3. PollOK'
    BY <1>2, <1>4, <1>6, <2>2 DEF PollOK, Answering
  <2>4. Types'
    BY <1>0, <1>1, <1>5, <1>c, <2>1, <2>3 DEF Types
  <2>5. OneRowEach' /\ Windows'
    BY <1>0, <1>1, <2>2, WindowsStay DEF OneRowEach
  <2>6. Links'
    BY <1>0, <1>1, <2>2, LinksStay
  <2>7. Fingerprints'
    BY <1>0, <1>1, <2>1, <2>2, FingerprintsStay DEF Types
  <2>8. Follows'
    BY <1>0, <1>1, <1>2, <2>1, <2>2, FollowsUntouched DEF Types, Answering
  <2>9. PhaseChanges'
    <3>1. \A f \in Events : f = e => Writing(f)' = IdsOf(items) \ seen[e]
      BY <2>2 DEF Writing, IdsOf
    <3>2. \A f \in Events : MissedOf(f)' \subseteq MissedOf(f)
      BY <1>h, <3>1 DEF MissedOf
    <3>3. IsFiniteSet(Missed') /\ Cardinality(Missed') <= faults' + restarts'
      BY <1>0, <1>1, <3>2, MissedShrinks DEF Types
    <3>4. OneTransition(poll.event, IdsOf(poll.items))'
      BY <1>b, <1>d, <2>2 DEF OneTransition, IdsOf
    <3>5. poll'.known \cap Transitions \subseteq noted'[poll'.event]
      BY <1>2, <1>g, <2>2
    <3> QED BY <1>g, <2>1, <2>2, <3>3, <3>4, <3>5 DEF PhaseChanges
  <2> QED BY <2>4, <2>5, <2>6, <2>7, <2>8, <2>9 DEF IInv
<1> QED BY <1>7, <1>8

\* The table answers for what memory does not know.
LEMMA LookupReturnsKeeps ==
    ASSUME IInv, LookupReturns
    PROVE  IInv'
<1> DEFINE e == poll.event
           prev == Link(e, NewestGoal(e))
<1>0. /\ Types /\ OneRowEach /\ Windows /\ Links /\ Fingerprints
      /\ PhaseChanges /\ Follows
  BY DEF IInv
<1>1. /\ poll.phase = "lookup"
      /\ substantive' = [substantive EXCEPT ![e] = prev]
      /\ Proceed(e, poll.items, poll.known, poll.shared, prev)
      /\ UNCHANGED <<watched, milestones, lifecycle, pending,
                     rows, goals, noted, at, faults, restarts>>
  BY DEF LookupReturns
<1>2. /\ Answering /\ e \in poll.todo /\ poll.todo \subseteq Events /\ e \in Events
      /\ poll.items \in Seq(Item) /\ poll.known \subseteq Ids /\ poll.shared \in BOOLEAN
  BY <1>0, <1>1 DEF Types, PollOK, Answering
<1>3. poll.answers[e] \in 1 .. Len(Course)
  BY <1>2, AnswerFacts
<1>4. prev \in Ids \cup {None} /\ LinkTo(e, prev)
  <2>1. CASE substantive[e] # None
    <3>1. prev = substantive[e]
      BY <2>1 DEF Link
    <3>2. substantive[e] \in Ids \cup {None} /\ LinkTo(e, substantive[e])
      BY <1>0, <1>2, <2>1 DEF Links, LinkTo, Types
    <3> QED BY <3>1, <3>2
  <2>2. CASE substantive[e] = None
    <3>1. prev = NewestGoal(e)
      BY <2>2 DEF Link
    <3> QED BY <1>0, <1>2, <3>1, NewestGoalFacts
  <2> QED BY <2>1, <2>2
<1> HIDE DEF e, prev
<1>5. /\ PollOK' /\ poll'.answers = poll.answers
      /\ scores' \in [Events -> (1 .. Len(Course)) \cup {None}]
      /\ seen' \in [Events -> SUBSET Ids]
      /\ \/ seen' = seen /\ Score(e) /\ IdsOf(poll.items) \subseteq poll.known
         \/ StopsAtNew(e, poll.items, poll.known, poll.shared, prev)
  BY <1>0, <1>1, <1>2, <1>3, <1>4, ProceedFacts
<1>6. Score(e) => poll'.phase \in {"batch", "change"}
  BY <1>0, <1>2, <1>3, ScoreFacts
<1>7. /\ poll'.phase = "upsert" => poll'.event = e /\ poll'.prev = prev
      /\ poll'.phase # "finish"
  BY <1>5, <1>6 DEF StopsAtNew
<1>8. Types'
  <2>1. substantive' \in [Events -> Ids \cup {None}]
    BY <1>0, <1>1, <1>4 DEF Types
  <2> QED BY <1>0, <1>1, <1>5, <2>1 DEF Types
<1>9. OneRowEach' /\ Windows'
  BY <1>0, <1>1, <1>7, WindowsStay DEF OneRowEach
<1>10. Links'
  <2>1. \A f, id : Recorded(f, id)' <=> Recorded(f, id)
    BY <1>1 DEF Recorded
  <2>2. CorrectionsAreLinked'
    BY <1>0, <1>1 DEF Links, CorrectionsAreLinked
  <2>3. ASSUME NEW f \in Events, substantive'[f] # None
        PROVE  Recorded(f, substantive'[f])
    <3>1. substantive'[f] = IF f = e THEN prev ELSE substantive[f]
      BY <1>0, <1>1 DEF Types
    <3> QED BY <1>0, <1>4, <2>3, <3>1 DEF Links, LinkTo
  <2>4. \A f \in Events : substantive'[f] # None => Recorded(f, substantive[f])'
    BY <2>1, <2>3
  <2>5. poll'.phase = "upsert" => LinkTo(poll.event, poll.prev)'
    BY <1>1, <1>4, <1>7, <2>1 DEF LinkTo
  <2> QED BY <2>2, <2>4, <2>5 DEF Links
<1>11. Fingerprints'
  <2>1. \A f, id : Recorded(f, id) => Recorded(f, id)'
    BY <1>1 DEF Recorded
  <2>2. poll.phase # "upsert" /\ (poll.shared => poll.known = seen[e])
    BY <1>0, <1>1 DEF Fingerprints, e
  <2> QED BY <1>0, <1>1, <1>2, <1>3, <1>4, <2>1, <2>2, FingerprintsProceed
<1>12. Follows'
  <2>1. poll.phase # "change"
    BY <1>1
  <2> QED BY <1>0, <1>1, <1>2, <1>3, <1>4, <2>1, FollowsProceed
<1>13. PhaseChanges'
  <2>1. /\ IdsOf(poll.items) \cap Transitions \subseteq noted[e]
        /\ \A s, t \in IdsOf(poll.items) \cap Transitions : s = t
        /\ poll.known \cap Transitions \subseteq noted[e]
        /\ \A f \in Events : seen[f] \cap Transitions \subseteq noted[f]
    BY <1>0, <1>1 DEF PhaseChanges, OneTransition, e
  <2>2. \A f \in Events : Writing(f) = IF f = e THEN IdsOf(poll.items) \ poll.known ELSE {}
    BY <1>1 DEF Writing, e
  <2>3. \A f, id : Recorded(f, id)' <=> Recorded(f, id)
    BY <1>1 DEF Recorded
  <2>4. \A f \in Events : \A t \in noted[f] :
            Recorded(f, t)' \/ t \in MissedOf(f) \/ (f = e /\ t \in IdsOf(poll.items) \ poll.known)
    BY <2>2, <2>3 DEF MissedOf
  <2> QED BY <1>0, <1>1, <1>2, <1>3, <1>4, <2>1, <2>4, PhaseChangesProceed
<1> QED BY <1>8, <1>9, <1>10, <1>11, <1>12, <1>13 DEF IInv

\* What the upsert does to the table, and what may be linked to after it.
LEMMA UpsertFacts ==
    ASSUME Types, OneRowEach, CorrectionsAreLinked,
           NEW e \in Events, NEW item \in Item, NEW prev \in Ids \cup {None},
           LinkTo(e, prev), rows' = Upserted(e, item, prev),
           NEW next,
           next = IF item.kind # "other" \/ ~Recorded(e, item.id) THEN item.id ELSE prev
    PROVE  /\ rows' \in Seq(RowType) /\ OneRowEach' /\ CorrectionsAreLinked'
           /\ \A f, id : Recorded(f, id) => Recorded(f, id)'
           /\ Recorded(e, item.id)' /\ LinkTo(e, next)' /\ next \in Ids \cup {None}
<1>0. item.id \in Ids /\ item.kind \in Kinds /\ item.id # None /\ rows \in Seq(RowType)
  BY ConstantsOK DEF Item, Types
<1>1. CASE Recorded(e, item.id)
  <2>1. rows' = rows
    BY <1>1 DEF Upserted
  <2>2. \A f, id : Recorded(f, id)' <=> Recorded(f, id)
    BY <2>1 DEF Recorded
  <2>3. OneRowEach' /\ CorrectionsAreLinked'
    BY <2>1 DEF OneRowEach, CorrectionsAreLinked
  <2>4. next = item.id \/ next = prev
    BY <1>1
  <2>5. LinkTo(e, next)'
    BY <1>0, <1>1, <2>1, <2>2, <2>4 DEF LinkTo
  <2> QED BY <1>0, <1>1, <2>1, <2>2, <2>3, <2>4, <2>5
<1>2. CASE ~Recorded(e, item.id)
  <2> DEFINE x == [event |-> e, id |-> item.id, kind |-> item.kind,
                   prev |-> IF item.kind = "correction" THEN prev ELSE None]
             n == Len(rows) + 1
  <2>1. rows' = Append(rows, x)
    BY <1>2 DEF Upserted
  <2>2. /\ x.event = e /\ x.id = item.id /\ x.kind = item.kind
        /\ x.kind = "correction" => x.prev = prev
    OBVIOUS
  <2>3. x \in RowType
    BY <1>0 DEF RowType
  <2> HIDE DEF x
  <2>4. /\ rows' \in Seq(RowType) /\ Len(rows) \in Nat
        /\ DOMAIN rows = 1 .. Len(rows) /\ DOMAIN rows' = 1 .. n
        /\ \A i \in 1 .. Len(rows) : i \in 1 .. n /\ rows'[i] = rows[i]
        /\ rows'[n] = x
        /\ \A i \in 1 .. n : i \in 1 .. Len(rows) \/ i = n
    BY <1>0, <2>1, <2>3, AppendFacts
  <2>5. (\A f, id : Recorded(f, id) => Recorded(f, id)') /\ Recorded(e, item.id)'
    BY <2>1, <2>2, <2>3, RecordedGrows
  <2>6. /\ n \in Nat /\ 1 .. n - 1 = 1 .. Len(rows)
        /\ \A j \in 1 .. Len(rows) : 1 .. j - 1 \subseteq 1 .. Len(rows)
    BY <2>4
  <2> HIDE DEF n
  <2>7. \A i \in 1 .. Len(rows) : ~(rows[i].event = e /\ rows[i].id = item.id)
    BY <1>2, <2>4 DEF Recorded
  <2>8. OneRowEach'
    BY <2>2, <2>4, <2>7 DEF OneRowEach
  <2>9. ASSUME NEW j \in DOMAIN rows', rows'[j].kind = "correction"
        PROVE  LET earlier == {i \in 1 .. j - 1 : rows'[i].event = rows'[j].event} IN
               /\ rows'[j].prev # None => \E i \in earlier : rows'[i].id = rows'[j].prev
               /\ (\E i \in earlier : rows'[i].kind = "goal") => rows'[j].prev # None
    <3>1. CASE j \in 1 .. Len(rows)
      <4>1. \A i \in 1 .. j - 1 : i \in 1 .. Len(rows)
        BY <2>6, <3>1
      <4>2. rows'[j] = rows[j] /\ \A i \in 1 .. j - 1 : rows'[i] = rows[i]
        BY <2>4, <3>1, <4>1
      <4>3. LET earlier == {i \in 1 .. j - 1 : rows[i].event = rows[j].event} IN
            /\ rows[j].prev # None => \E i \in earlier : rows[i].id = rows[j].prev
            /\ (\E i \in earlier : rows[i].kind = "goal") => rows[j].prev # None
        BY <2>4, <2>9, <3>1, <4>2 DEF CorrectionsAreLinked
      <4> QED BY <4>2, <4>3
    <3>2. CASE j = n
      <4>1. rows'[j].event = e /\ rows'[j].prev = prev
        BY <2>2, <2>4, <2>9, <3>2
      <4>2. \A i \in 1 .. j - 1 : i \in DOMAIN rows /\ rows'[i] = rows[i]
        BY <2>4, <2>6, <3>2
      <4>3. \A i \in DOMAIN rows : i \in 1 .. j - 1 /\ rows'[i] = rows[i]
        BY <2>4, <2>6, <3>2
      <4>4. prev # None => \E i \in 1 .. j - 1 :
                              rows'[i].event = e /\ rows'[i].id = prev
        BY <4>3 DEF LinkTo, Recorded
      <4>5. prev = None => \A i \in 1 .. j - 1 :
                              rows'[i].event = e => rows'[i].kind # "goal"
        BY <4>2 DEF LinkTo
      <4> QED BY <4>1, <4>4, <4>5
    <3> QED BY <2>4, <2>9, <3>1, <3>2
  <2>10. CorrectionsAreLinked'
    BY <2>9 DEF CorrectionsAreLinked
  <2>11. next = item.id
    BY <1>2
  <2>12. LinkTo(e, next)'
    BY <1>0, <2>5, <2>11 DEF LinkTo
  <2> QED BY <1>0, <2>4, <2>5, <2>8, <2>10, <2>11, <2>12
<1> QED BY <1>1, <1>2

\* A written event is what later ones link to.
LEMMA UpsertReturnsKeeps ==
    ASSUME IInv, UpsertReturns
    PROVE  IInv'
<1> DEFINE e == poll.event
           item == poll.item
           next == IF item.kind # "other" \/ ~Recorded(e, item.id) THEN item.id ELSE poll.prev
<1>0. /\ Types /\ OneRowEach /\ Windows /\ Links /\ Fingerprints
      /\ PhaseChanges /\ Follows
  BY DEF IInv
<1>1. /\ poll.phase = "upsert"
      /\ rows' = Upserted(e, item, poll.prev)
      /\ \/ substantive' = substantive
         \/ substantive' = [substantive EXCEPT ![e] = item.id]
      /\ Proceed(e, poll.rest, poll.known, poll.shared, next)
      /\ UNCHANGED <<watched, milestones, lifecycle, pending, goals, noted, at, faults, restarts>>
  BY DEF UpsertReturns
<1>2. /\ Answering /\ e \in poll.todo /\ poll.todo \subseteq Events /\ e \in Events
      /\ item \in Item /\ poll.rest \in Seq(Item) /\ poll.known \subseteq Ids
      /\ poll.shared \in BOOLEAN /\ poll.prev \in Ids \cup {None}
  BY <1>0, <1>1 DEF Types, PollOK, Answering
<1>3. poll.answers[e] \in 1 .. Len(Course)
  BY <1>2, AnswerFacts
<1>4. LinkTo(e, poll.prev) /\ CorrectionsAreLinked
  BY <1>0, <1>1 DEF Links
<1>5. PICK x : x = next
  OBVIOUS
<1>6. \A f, id : poll.phase = "upsert" /\ poll.event = f /\ poll.item.id = id
                    => f = e /\ id = item.id
  OBVIOUS
<1>7. poll.shared => poll.known = seen[e]
  BY <1>0, <1>1 DEF Fingerprints
<1>8. x = IF item.kind # "other" \/ ~Recorded(e, item.id) THEN item.id ELSE poll.prev
  BY <1>5
<1>9. Proceed(e, poll.rest, poll.known, poll.shared, x)
  BY <1>1, <1>5
<1> HIDE DEF e, item, next
<1>10. /\ rows' \in Seq(RowType) /\ OneRowEach' /\ CorrectionsAreLinked'
       /\ \A f, id : Recorded(f, id) => Recorded(f, id)'
       /\ x \in Ids \cup {None}
  BY <1>0, <1>1, <1>2, <1>4, <1>8, UpsertFacts
<1>11. \A f, id : f = e /\ id = item.id => Recorded(f, id)'
  BY <1>0, <1>1, <1>2, <1>4, <1>8, UpsertFacts
<1>12. \A f, y : f = e /\ y = x => LinkTo(f, y)'
  BY <1>0, <1>1, <1>2, <1>4, <1>8, UpsertFacts
<1>13. /\ PollOK' /\ poll'.answers = poll.answers
       /\ scores' \in [Events -> (1 .. Len(Course)) \cup {None}]
       /\ seen' \in [Events -> SUBSET Ids]
       /\ \/ seen' = seen /\ Score(e) /\ IdsOf(poll.rest) \subseteq poll.known
          \/ StopsAtNew(e, poll.rest, poll.known, poll.shared, x)
  BY <1>0, <1>2, <1>3, <1>9, <1>10, ProceedFacts
<1>14. Score(e) => poll'.phase \in {"batch", "change"}
  BY <1>0, <1>2, <1>3, ScoreFacts
<1>15. /\ poll'.phase = "upsert" => poll'.event = e /\ poll'.prev = x
       /\ poll'.phase # "finish"
  BY <1>13, <1>14 DEF StopsAtNew
<1>16. item.id \in Ids
  BY <1>2 DEF Item
<1>17. Types'
  <2>1. substantive' \in [Events -> Ids \cup {None}]
    BY <1>0, <1>1, <1>16 DEF Types
  <2> QED BY <1>0, <1>1, <1>10, <1>13, <2>1 DEF Types
<1>18. Windows'
  BY <1>0, <1>1, <1>15, WindowsStay
<1>19. Links'
  <2>1. ASSUME NEW f \in Events, substantive'[f] # None
        PROVE  \A id : id = substantive'[f] => Recorded(f, id)'
    <3>1. substantive'[f] = substantive[f] \/ (f = e /\ substantive'[f] = item.id)
      BY <1>0, <1>1 DEF Types
    <3>2. CASE substantive'[f] = substantive[f]
      BY <1>0, <1>10, <2>1, <3>2 DEF Links
    <3>3. CASE f = e /\ substantive'[f] = item.id
      BY <1>11, <3>3
    <3> QED BY <3>1, <3>2, <3>3
  <2>2. \A f \in Events : substantive'[f] # None => Recorded(f, substantive[f])'
    BY <2>1
  <2>3. poll'.phase = "upsert" => LinkTo(poll.event, poll.prev)'
    BY <1>12, <1>15
  <2> QED BY <1>10, <2>2, <2>3 DEF Links
<1>20. Fingerprints'
  <2>1. \A f, id : poll.phase = "upsert" /\ poll.event = f /\ poll.item.id = id
                     => Recorded(f, id)'
    BY <1>6, <1>11
  <2> QED BY <1>0, <1>1, <1>2, <1>3, <1>7, <1>9, <1>10, <2>1, FingerprintsProceed
<1>21. Follows'
  <2>1. poll.phase # "change"
    BY <1>1
  <2> QED BY <1>0, <1>1, <1>2, <1>3, <1>9, <1>10, <2>1, FollowsProceed
<1>22. PhaseChanges'
  <2>1. /\ ({item.id} \cup IdsOf(poll.rest)) \cap Transitions \subseteq noted[e]
        /\ \A s, t \in ({item.id} \cup IdsOf(poll.rest)) \cap Transitions : s = t
        /\ poll.known \cap Transitions \subseteq noted[e]
        /\ \A f \in Events : seen[f] \cap Transitions \subseteq noted[f]
    BY <1>0, <1>1 DEF PhaseChanges, OneTransition, e, item
  <2>2. /\ IdsOf(poll.rest) \cap Transitions \subseteq noted[e]
        /\ \A s, t \in IdsOf(poll.rest) \cap Transitions : s = t
    BY <2>1
  <2>3. \A f \in Events :
            Writing(f) = IF f = e THEN {item.id} \cup (IdsOf(poll.rest) \ poll.known) ELSE {}
    BY <1>1 DEF Writing, e, item
  <2>4. \A f \in Events : \A t \in noted[f] :
            Recorded(f, t)' \/ t \in MissedOf(f) \/ (f = e /\ t \in IdsOf(poll.rest) \ poll.known)
    BY <1>10, <1>11, <2>3 DEF MissedOf
  <2> QED BY <1>0, <1>1, <1>2, <1>3, <1>9, <1>10, <2>1, <2>2, <2>4, PhaseChangesProceed
<1> QED BY <1>10, <1>17, <1>18, <1>19, <1>20, <1>21, <1>22 DEF IInv

\* A call that fails loses what it was to write at most.
LEMMA FailureKeeps ==
    ASSUME IInv, WriteFails, poll' = Idle,
           UNCHANGED <<watched, milestones, seen, lifecycle, substantive, scores, pending,
                       rows, goals, noted, at, restarts>>
    PROVE  IInv'
<1>0. /\ Types /\ OneRowEach /\ Windows /\ Links /\ Fingerprints
      /\ PhaseChanges /\ Follows
  BY DEF IInv
<1>1. faults \in Nat /\ faults' = faults + 1 /\ poll'.phase = "idle"
  BY <1>0 DEF WriteFails, Types, Idle
<1>2. Types'
  BY <1>0, <1>1 DEF Types, PollOK, Answering
<1>3. OneRowEach' /\ Windows'
  BY <1>0, <1>1, WindowsStay DEF OneRowEach
<1>4. Links'
  BY <1>0, <1>1, LinksStay
<1>5. Fingerprints'
  <2> DEFINE x == <<poll.event, poll.item.id>>
  <2>1. ASSUME NEW f \in Events, NEW id \in LostOf(f)'
        PROVE  id \in LostOf(f) \/ <<f, id>> = x
    <3>1. id \in seen[f] /\ ~Recorded(f, id)
      BY DEF LostOf, Recorded
    <3> QED BY <3>1 DEF LostOf
  <2> HIDE DEF x
  <2>2. Lost' \subseteq Lost \cup {x}
    BY <2>1 DEF Lost
  <2>3. IsFiniteSet(Lost) /\ Cardinality(Lost) <= faults
    BY <1>0 DEF Fingerprints
  <2>4. /\ IsFiniteSet(Lost \cup {x}) /\ Cardinality(Lost) \in Nat
        /\ Cardinality(Lost \cup {x}) \in Nat
        /\ Cardinality(Lost \cup {x}) <= Cardinality(Lost) + 1
    BY <2>3, OneMore
  <2>5. /\ IsFiniteSet(Lost') /\ Cardinality(Lost') \in Nat
        /\ Cardinality(Lost') <= Cardinality(Lost \cup {x})
    BY <2>2, <2>4, FS_Subset, FS_CardinalityType
  <2>6. Cardinality(Lost') <= faults'
    BY <1>1, <2>3, <2>4, <2>5
  <2> QED BY <1>1, <2>5, <2>6 DEF Fingerprints
<1>6. Follows'
  BY <1>0, <1>1, FollowsUntouched DEF Types, Answering
<1>7. PhaseChanges'
  <2>1. faults' + restarts' = faults + restarts + 1
    BY <1>0, <1>1 DEF Types
  <2> QED BY <1>0, <1>1, <2>1, PhaseChangesLose
<1> QED BY <1>2, <1>3, <1>4, <1>5, <1>6, <1>7 DEF IInv

\* A change is written: the baseline follows it, or a fault is charged.
LEMMA ChangeReturnsKeeps ==
    ASSUME IInv, NEW logged \in BOOLEAN, ChangeReturns(logged)
    PROVE  IInv'
<1>0. /\ Types /\ OneRowEach /\ Windows /\ Links /\ Fingerprints
      /\ PhaseChanges /\ Follows
  BY DEF IInv
<1>a. PICK e \in Events : e = poll.event
  BY <1>0 DEF ChangeReturns, Types, PollOK, Answering
<1> DEFINE read == poll.answers[e]
           n == Len(goals) + 1
           w == [row |-> n, due |-> FALSE]
<1>b. PICK g : g = [event |-> e, before |-> poll.before, after |-> read,
                    finished |-> FALSE]
  OBVIOUS
<1>1. /\ poll.phase = "change"
      /\ goals' = Append(goals, g) /\ pending' = pending \cup {w}
      /\ \/ /\ scores' = [scores EXCEPT ![e] = read]
            /\ poll' = DoneWith(e) /\ faults' = faults
         \/ scores' = scores /\ poll' = Idle /\ faults' = faults + 1
      /\ UNCHANGED <<watched, milestones, seen, lifecycle, substantive, rows, noted, at, restarts>>
  BY <1>a, <1>b DEF ChangeReturns, WriteFails
<1>2. /\ Answering /\ e \in poll.todo /\ poll.todo \subseteq Events /\ e \in Events
      /\ poll.before \in 1 .. Len(Course)
  BY <1>0, <1>1, <1>a DEF Types, PollOK, Answering
<1>3. read \in 1 .. Len(Course) /\ read \in 1 .. at[e] /\ Covers(e, read)
  BY <1>2, AnswerFacts
<1>4. \/ poll'.phase = "batch" /\ poll'.todo = poll.todo \ {e} /\ poll'.answers = poll.answers
      \/ poll'.phase = "idle"
  BY <1>1 DEF DoneWith, Idle
<1>5. PollOK'
  BY <1>2, <1>4 DEF PollOK, Answering
<1>6. poll.phase = "change" /\ poll.event = e
  BY <1>1, <1>a
<1>7. /\ g \in GoalType /\ g.event = e /\ g.finished = FALSE
      /\ g.before = poll.before /\ g.after = read
  BY <1>b, <1>2, <1>3 DEF GoalType
<1>8. w.row = n /\ w.due = FALSE
  OBVIOUS
<1> HIDE DEF read, w
<1>9. /\ goals' \in Seq(GoalType) /\ Len(goals) \in Nat
      /\ DOMAIN goals = 1 .. Len(goals) /\ DOMAIN goals' = 1 .. n
      /\ \A i \in 1 .. Len(goals) : i \in 1 .. n /\ goals'[i] = goals[i]
      /\ goals'[n] = g
      /\ \A i \in 1 .. n : i \in 1 .. Len(goals) \/ i = n
  BY <1>0, <1>1, <1>7, AppendFacts DEF Types
<1>10. n \in 1 .. n /\ n \notin 1 .. Len(goals) /\ n \in Nat
  BY <1>9
<1>11. w \in [row : Nat, due : BOOLEAN]
  BY <1>10 DEF w
<1>12. scores' \in [Events -> (1 .. Len(Course)) \cup {None}] /\ faults' \in Nat /\ faults <= faults'
  <2>1. faults \in Nat /\ (faults' = faults \/ faults' = faults + 1)
    BY <1>0, <1>1 DEF Types
  <2>2. faults' \in Nat /\ faults <= faults'
    BY <2>1
  <2>3. scores \in [Events -> (1 .. Len(Course)) \cup {None}]
    BY <1>0 DEF Types
  <2>4. scores' = scores \/ scores' = [scores EXCEPT ![e] = read]
    BY <1>1
  <2>5. scores' \in [Events -> (1 .. Len(Course)) \cup {None}]
    BY <1>3, <2>3, <2>4
  <2> QED BY <2>2, <2>5
<1> HIDE DEF n
<1>13. Types'
  BY <1>0, <1>1, <1>5, <1>9, <1>11, <1>12 DEF Types
<1>14. OneRowEach'
  BY <1>0, <1>1 DEF OneRowEach
<1>15. Windows'
  <2>1. \A p \in pending' : p.row \in DOMAIN goals'
    BY <1>0, <1>1, <1>8, <1>9, <1>10 DEF Windows
  <2>2. \A p, q \in pending' : p.row = q.row => p = q
    <3>1. \A p \in pending : p.row # n
      BY <1>0, <1>9, <1>10 DEF Windows
    <3> QED BY <1>0, <1>1, <1>8, <3>1 DEF Windows
  <2>3. \A i \in DOMAIN goals' :
           ~goals'[i].finished /\ restarts' = 0 => \E p \in pending' : p.row = i
    <3>1. ASSUME NEW i \in 1 .. Len(goals), ~goals'[i].finished, restarts' = 0
          PROVE  \E p \in pending' : p.row = i
      <4>1. i \in DOMAIN goals /\ ~goals[i].finished /\ restarts = 0
        BY <1>1, <1>9, <3>1
      <4> QED BY <1>0, <1>1, <4>1 DEF Windows
    <3>2. w \in pending' /\ w.row = n
      BY <1>1, <1>8
    <3> QED BY <1>9, <3>1, <3>2
  <2>4. poll'.phase # "finish"
    BY <1>4
  <2> QED BY <2>1, <2>2, <2>3, <2>4 DEF Windows
<1>16. Links'
  BY <1>0, <1>1, <1>4, LinksStay
<1>17. Fingerprints'
  BY <1>0, <1>1, <1>4, <1>12, FingerprintsStay
<1>18. PhaseChanges'
  <2>1. restarts' = restarts /\ restarts \in Nat /\ faults \in Nat
    BY <1>0, <1>1 DEF Types
  <2>2. PICK k \in Nat : k = faults'
    BY <1>12
  <2>3. faults <= k
    BY <1>12, <2>2
  <2>4. k + restarts \in Nat /\ faults + restarts <= k + restarts
    BY <2>1, <2>3
  <2>5. faults' + restarts' \in Nat /\ faults + restarts <= faults' + restarts'
    BY <2>1, <2>2, <2>4
  <2> QED BY <1>0, <1>1, <1>4, <2>5, PhaseChangesStay
<1>19. Follows'
  <2>1. /\ IsFiniteSet(Lagging) /\ Cardinality(Lagging) \in Nat
        /\ Cardinality(Overlapping) + Cardinality(Lagging) <= faults
        /\ IsFiniteSet(Overlapping) /\ Cardinality(Overlapping) \in Nat /\ faults \in Nat
        /\ scores[e] \in {None, poll.before} /\ poll.before # None
    BY <1>0, <1>1, <1>2, <1>a, OverlappingIsFinite, FS_CardinalityType, ConstantsOK
       DEF Follows, Types
  <2>2. \A i \in DOMAIN goals : goals[i].after \in Nat /\ goals[i].event \in Events
    <3>1. goals \in Seq(GoalType)
      BY <1>0 DEF Types
    <3>2. \A i \in DOMAIN goals : goals[i] \in GoalType
      BY <3>1
    <3> QED BY <3>2 DEF GoalType
  <2>3. \A f \in Events : Base(f) = IF f = e THEN poll.before ELSE scores[f]
    BY <1>6 DEF Base
  <2>4. \A f \in Events : Base(f)' = scores'[f]
    BY <1>4 DEF Base
  <2>5. \A f \in Events \ {e} : scores'[f] = scores[f]
    BY <1>0, <1>1 DEF Types
  <2>6. \A f, k : Covers(f, k) /\ (f = e => read <= k) => \A i \in DOMAIN goals' :
            goals'[i].event = f => goals'[i].after <= k
    BY <1>7, <1>9 DEF Covers
  <2>7. \A f \in Events \ {e} : f \in Lagging' => f \in Lagging
    <3>1. ASSUME NEW f \in Events, f # e, Covers(f, Base(f)) PROVE Covers(f, Base(f))'
      <4>1. Base(f)' = Base(f)
        BY <2>3, <2>4, <2>5, <3>1
      <4> QED BY <2>6, <3>1, <4>1 DEF Covers
    <3> QED BY <2>3, <2>4, <2>5, <3>1 DEF Lagging
  <2>8. Overlapping' \subseteq Overlapping \cup {n} /\ (n \in Overlapping' => e \in Lagging)
    <3>1. \A j \in 1 .. n : \A i \in 1 .. j - 1 : i \in 1 .. Len(goals)
      BY <1>9, <1>10 DEF n
    <3>2. ASSUME NEW j \in Overlapping', j # n PROVE j \in Overlapping
      <4>1. j \in 1 .. Len(goals)
        BY <1>9, <3>2 DEF Overlapping
      <4>2. \A i \in 1 .. j - 1 : goals'[i] = goals[i]
        BY <1>9, <1>10, <3>1, <4>1
      <4> QED BY <1>9, <3>2, <4>1, <4>2 DEF Overlapping
    <3>3. ASSUME n \in Overlapping' PROVE e \in Lagging
      <4>1. PICK i \in 1 .. n - 1 : goals'[i].event = goals'[n].event /\ goals'[n].before < goals'[i].after
        BY <3>3 DEF Overlapping
      <4>2. i \in DOMAIN goals /\ goals[i].event = e /\ poll.before < goals[i].after
        BY <1>7, <1>9, <1>10, <3>1, <4>1
      <4>3. ~Covers(e, poll.before)
        BY <1>2, <2>2, <4>2 DEF Covers
      <4> QED BY <2>1, <2>3, <4>3 DEF Lagging
    <3> QED BY <3>2, <3>3
  <2>9. IsFiniteSet(Lagging') /\ Cardinality(Overlapping') + Cardinality(Lagging') <= faults'
    <3>1. IsFiniteSet(Lagging \cup {e}) /\ IsFiniteSet(Lagging \ {e})
          /\ IsFiniteSet(Overlapping \cup {n})
          /\ Cardinality(Overlapping \cup {n}) <= Cardinality(Overlapping) + 1
          /\ Cardinality(Overlapping \cup {n}) \in Nat
      BY <2>1, FS_AddElement, FS_RemoveElement, FS_CardinalityType
    <3>2. CASE scores' = [scores EXCEPT ![e] = read] /\ faults' = faults
      <4>1. Base(e)' = read /\ Covers(e, read)
        BY <1>0, <1>2, <1>3, <2>4, <3>2 DEF Types
      <4>2. Covers(e, Base(e))'
        BY <1>3, <2>6, <4>1 DEF Covers
      <4>3. Lagging' \subseteq Lagging \ {e}
        BY <2>7, <4>2 DEF Lagging
      <4>4. IsFiniteSet(Lagging') /\ Cardinality(Lagging') <= Cardinality(Lagging \ {e})
            /\ Cardinality(Lagging') \in Nat /\ Cardinality(Lagging \ {e}) \in Nat
        BY <3>1, <4>3, FS_Subset, FS_CardinalityType
      <4>5. CASE e \in Lagging
        <5>1. Cardinality(Lagging \ {e}) = Cardinality(Lagging) - 1
          BY <2>1, <4>5, FS_RemoveElement
        <5>2. Cardinality(Overlapping') <= Cardinality(Overlapping \cup {n})
              /\ Cardinality(Overlapping') \in Nat
          BY <2>8, <3>1, FS_Subset, FS_CardinalityType
        <5> QED BY <2>1, <3>1, <3>2, <4>4, <5>1, <5>2
      <4>6. CASE e \notin Lagging
        <5>1. Overlapping' \subseteq Overlapping
          BY <2>8, <4>6
        <5>2. Cardinality(Overlapping') <= Cardinality(Overlapping)
              /\ Cardinality(Overlapping') \in Nat
          BY <2>1, <5>1, FS_Subset, FS_CardinalityType
        <5>3. Lagging \ {e} = Lagging
          BY <4>6
        <5> QED BY <2>1, <3>2, <4>4, <5>2, <5>3
      <4> QED BY <4>5, <4>6
    <3>3. CASE scores' = scores /\ faults' = faults + 1
      <4>1. CASE e \in Lagging
        <5>1. Lagging' \subseteq Lagging
          BY <2>7, <4>1 DEF Lagging
        <5>2. IsFiniteSet(Lagging') /\ Cardinality(Lagging') <= Cardinality(Lagging)
              /\ Cardinality(Lagging') \in Nat
          BY <2>1, <5>1, FS_Subset, FS_CardinalityType
        <5>3. Cardinality(Overlapping') <= Cardinality(Overlapping \cup {n})
              /\ Cardinality(Overlapping') \in Nat
          BY <2>8, <3>1, FS_Subset, FS_CardinalityType
        <5> QED BY <2>1, <3>1, <3>3, <5>2, <5>3
      <4>2. CASE e \notin Lagging
        <5>1. Lagging' \subseteq Lagging \cup {e}
          BY <2>7 DEF Lagging
        <5>2. Cardinality(Lagging \cup {e}) = Cardinality(Lagging) + 1
          BY <2>1, <4>2, FS_AddElement
        <5>3. IsFiniteSet(Lagging') /\ Cardinality(Lagging') <= Cardinality(Lagging \cup {e})
              /\ Cardinality(Lagging') \in Nat
          BY <3>1, <5>1, FS_Subset, FS_CardinalityType
        <5>4. Overlapping' \subseteq Overlapping
          BY <2>8, <4>2
        <5>5. Cardinality(Overlapping') <= Cardinality(Overlapping)
              /\ Cardinality(Overlapping') \in Nat
          BY <2>1, <5>4, FS_Subset, FS_CardinalityType
        <5> QED BY <2>1, <3>3, <5>2, <5>3, <5>5
      <4> QED BY <4>1, <4>2
    <3> QED BY <1>1, <3>2, <3>3
  <2>10. ASSUME NEW f \in Events PROVE Covers(f, at[f])'
    <3>1. Covers(f, at[f]) /\ (f = e => read <= at[f])
      BY <1>0, <1>3 DEF Follows, Types
    <3> QED BY <1>1, <2>6, <3>1 DEF Covers
  <2>11. ASSUME NEW f \in Events, Answering', f \in poll'.todo
         PROVE  poll'.answers[f] \in 1 .. at'[f] /\ Covers(f, poll.answers[f])'
    <3>1. f # e /\ f \in poll.todo /\ poll'.answers = poll.answers
      BY <1>4, <2>11 DEF Answering
    <3>2. poll.answers[f] \in 1 .. at[f] /\ Covers(f, poll.answers[f])
      BY <1>0, <1>2, <3>1 DEF Follows
    <3> QED BY <1>1, <2>6, <3>1, <3>2 DEF Covers
  <2>12. poll'.phase # "change"
    BY <1>4
  <2> QED BY <2>9, <2>10, <2>11, <2>12 DEF Follows
<1> QED BY <1>13, <1>14, <1>15, <1>16, <1>17, <1>18, <1>19 DEF IInv

LEMMA WindowClosesKeeps ==
    ASSUME IInv, NEW p \in pending, WindowCloses(p)
    PROVE  IInv'
<1> DEFINE q == [p EXCEPT !.due = TRUE]
<1>0. /\ Types /\ OneRowEach /\ Windows /\ Links /\ Fingerprints
      /\ PhaseChanges /\ Follows
  BY DEF IInv
<1>1. /\ pending' = (pending \ {p}) \cup {q}
      /\ UNCHANGED <<watched, milestones, poll, seen, lifecycle, substantive, scores,
                     rows, goals, noted, at, faults, restarts>>
  BY DEF WindowCloses
<1>2. p \in [row : Nat, due : BOOLEAN]
  BY <1>0 DEF Types
<1>3. q \in [row : Nat, due : BOOLEAN] /\ q.row = p.row
  BY <1>2
<1> HIDE DEF q
<1>4. Types'
  BY <1>0, <1>1, <1>3 DEF Types, PollOK, Answering, LookupPoll, UpsertPoll, FinishPoll
<1>5. OneRowEach'
  BY <1>0, <1>1 DEF OneRowEach
<1>6. Windows'
  <2>1. \A r \in pending' : \E s \in pending : s.row = r.row
    BY <1>1, <1>3
  <2>2. \A s \in pending : \E r \in pending' : r.row = s.row
    BY <1>1, <1>3
  <2>3. \A r \in pending' : r.row \in DOMAIN goals'
    BY <1>0, <1>1, <2>1 DEF Windows
  <2>4. \A r, s \in pending' : r.row = s.row => r = s
    BY <1>0, <1>1, <1>3 DEF Windows
  <2>5. \A i \in DOMAIN goals' :
           ~goals'[i].finished /\ restarts' = 0 => \E r \in pending' : r.row = i
    BY <1>0, <1>1, <2>2 DEF Windows
  <2>6. poll'.phase = "finish" =>
           /\ poll'.todo \subseteq DOMAIN goals'
           /\ \A r \in pending' : \/ r.row \in poll'.todo \cup poll'.remaining
                                  \/ goals'[r.row].finished
    BY <1>0, <1>1, <2>1 DEF Windows
  <2> QED BY <2>3, <2>4, <2>5, <2>6 DEF Windows
<1>7. Links'
  BY <1>0, <1>1, LinksStay DEF Links
<1>8. Fingerprints'
  BY <1>0, <1>1, FingerprintsStay DEF Fingerprints, Types
<1>9. PhaseChanges'
  BY <1>0, <1>1, PhaseChangesStay DEF Types
<1>10. Follows'
  BY <1>0, <1>1, FollowsUntouched DEF Answering, Types
<1> QED BY <1>4, <1>5, <1>6, <1>7, <1>8, <1>9, <1>10 DEF IInv

\* Every open window is found due or remains.
LEMMA FinishStartsKeeps ==
    ASSUME IInv, FinishStarts
    PROVE  IInv'
<1>0. /\ Types /\ OneRowEach /\ Windows /\ Links /\ Fingerprints
      /\ PhaseChanges /\ Follows
  BY DEF IInv
<1>1. /\ poll.phase = "batch"
      /\ poll' = [phase |-> "finish",
                  todo |-> {p.row : p \in {p \in pending : p.due}},
                  remaining |-> {p.row : p \in {p \in pending : ~p.due}}]
      /\ UNCHANGED <<watched, milestones, seen, lifecycle, substantive, scores, pending,
                     rows, goals, noted, at, faults, restarts>>
  BY DEF FinishStarts
<1>2. /\ poll'.phase = "finish" /\ poll' = FinishPoll'
      /\ poll'.todo = {p.row : p \in {p \in pending : p.due}}
      /\ poll'.remaining = {p.row : p \in {p \in pending : ~p.due}}
  BY <1>1 DEF FinishPoll
<1>3. Types'
  BY <1>0, <1>1, <1>2 DEF Types, PollOK, Answering
<1>4. OneRowEach'
  BY <1>0, <1>1 DEF OneRowEach
<1>5. Windows'
  <2>1. poll'.todo \subseteq DOMAIN goals
    BY <1>0, <1>2 DEF Windows
  <2>2. \A p \in pending : p.row \in poll'.todo \cup poll'.remaining
    BY <1>2
  <2> QED BY <1>0, <1>1, <2>1, <2>2 DEF Windows
<1>6. Links'
  BY <1>0, <1>1, <1>2, LinksStay
<1>7. Fingerprints'
  BY <1>0, <1>1, <1>2, FingerprintsStay DEF Types
<1>8. PhaseChanges'
  BY <1>0, <1>1, <1>2, PhaseChangesStay DEF Types
<1>9. Follows'
  BY <1>0, <1>1, <1>2, FollowsUntouched DEF Answering, Types
<1> QED BY <1>3, <1>4, <1>5, <1>6, <1>7, <1>8, <1>9 DEF IInv

\* The least row found due is finished.
LEMMA FinishReturnsKeeps ==
    ASSUME IInv, FinishReturns
    PROVE  IInv'
<1> DEFINE r == Min(poll.todo)
<1>0. /\ Types /\ OneRowEach /\ Windows /\ Links /\ Fingerprints
      /\ PhaseChanges /\ Follows
  BY DEF IInv
<1>1. /\ poll.phase = "finish" /\ poll.todo # {}
      /\ goals' = [goals EXCEPT ![r].finished = TRUE]
      /\ poll' = [poll EXCEPT !.todo = @ \ {r}]
      /\ UNCHANGED <<watched, milestones, seen, lifecycle, substantive, scores, pending,
                     rows, noted, at, faults, restarts>>
  BY DEF FinishReturns
<1>2. goals \in Seq(GoalType) /\ Len(goals) \in Nat /\ DOMAIN goals = 1 .. Len(goals)
  BY <1>0 DEF Types
<1>3. poll.todo \subseteq DOMAIN goals
  BY <1>0, <1>1 DEF Windows
<1>4. r \in DOMAIN goals
  <2>1. poll.todo \in SUBSET Nat
    BY <1>2, <1>3
  <2> QED BY <1>1, <1>3, <2>1, MinIsLeast
<1> HIDE DEF r
<1>5. goals[r] \in GoalType
  BY <1>2, <1>4
<1>6. /\ goals' \in Seq(GoalType) /\ DOMAIN goals' = DOMAIN goals
      /\ \A i \in DOMAIN goals : i # r => goals'[i] = goals[i]
      /\ goals'[r].event = goals[r].event /\ goals'[r].before = goals[r].before
      /\ goals'[r].after = goals[r].after /\ goals'[r].finished = TRUE
  <2> DEFINE g == [goals[r] EXCEPT !.finished = TRUE]
  <2>1. /\ g \in GoalType /\ g.event = goals[r].event /\ g.finished = TRUE
        /\ g.before = goals[r].before /\ g.after = goals[r].after
    BY <1>5 DEF GoalType
  <2>2. goals' = [goals EXCEPT ![r] = g]
    BY <1>1
  <2> HIDE DEF g
  <2>3. goals' \in Seq(GoalType)
    BY <1>2, <1>4, <2>1, <2>2
  <2>4. /\ DOMAIN goals' = DOMAIN goals /\ goals'[r] = g
        /\ \A i \in DOMAIN goals : i # r => goals'[i] = goals[i]
    BY <1>2, <1>4, <2>2
  <2> QED BY <2>1, <2>3, <2>4
<1>7. poll = FinishPoll
  BY <1>0, <1>1 DEF Types, PollOK
<1>8. /\ poll'.phase = "finish" /\ poll' = FinishPoll'
      /\ poll'.todo = poll.todo \ {r} /\ poll'.remaining = poll.remaining
  <2>1. poll' = [phase |-> "finish", todo |-> poll.todo \ {r},
                 remaining |-> poll.remaining]
    BY <1>1, <1>7 DEF FinishPoll
  <2> QED BY <2>1 DEF FinishPoll
<1>9. Types'
  BY <1>0, <1>1, <1>6, <1>8 DEF Types, PollOK, Answering
<1>10. OneRowEach'
  BY <1>0, <1>1 DEF OneRowEach
<1>11. Windows'
  <2>1. \A p \in pending : p.row \in DOMAIN goals'
    BY <1>0, <1>6 DEF Windows
  <2>2. \A p, q \in pending : p.row = q.row => p = q
    BY <1>0 DEF Windows
  <2>3. \A i \in DOMAIN goals' :
           ~goals'[i].finished /\ restarts = 0 => \E p \in pending : p.row = i
    BY <1>0, <1>6 DEF Windows
  <2>4. poll'.todo \subseteq DOMAIN goals'
    BY <1>3, <1>6, <1>8
  <2>5. ASSUME NEW p \in pending, p.row \notin poll'.todo \cup poll'.remaining
        PROVE  goals'[p.row].finished
    <3>1. p.row \in DOMAIN goals
      BY <1>0 DEF Windows
    <3>2. CASE p.row = r
      BY <1>6, <3>2
    <3>3. CASE p.row # r
      <4>1. goals[p.row].finished
        BY <1>0, <1>1, <1>8, <2>5, <3>3 DEF Windows
      <4> QED BY <1>6, <3>1, <3>3, <4>1
    <3> QED BY <3>2, <3>3
  <2> QED BY <1>1, <2>1, <2>2, <2>3, <2>4, <2>5 DEF Windows
<1>12. Links'
  BY <1>0, <1>1, <1>8, LinksStay
<1>13. Fingerprints'
  BY <1>0, <1>1, <1>8, FingerprintsStay DEF Types
<1>14. PhaseChanges'
  BY <1>0, <1>1, <1>8, PhaseChangesStay DEF Types
<1>15. Follows'
  <2>1. \A f \in Events : Base(f)' = Base(f)
    BY <1>1, <1>8 DEF Base
  <2>2. ~Answering' /\ poll'.phase # "change"
    BY <1>8 DEF Answering
  <2>3. faults' \in Nat /\ faults <= faults' /\ \A f \in Events : at'[f] \in Nat /\ at[f] <= at'[f]
    BY <1>0, <1>1 DEF Types
  <2>4. \A i \in DOMAIN goals : /\ goals'[i].event = goals[i].event
                              /\ goals'[i].before = goals[i].before
                              /\ goals'[i].after = goals[i].after
    BY <1>6
  <2> QED BY <1>0, <1>6, <2>1, <2>2, <2>3, <2>4, FollowsStay
<1> QED BY <1>9, <1>10, <1>11, <1>12, <1>13, <1>14, <1>15 DEF IInv

LEMMA FinishEndsKeeps ==
    ASSUME IInv, FinishEnds
    PROVE  IInv'
<1>0. /\ Types /\ OneRowEach /\ Windows /\ Links /\ Fingerprints
      /\ PhaseChanges /\ Follows
  BY DEF IInv
<1>1. /\ poll.phase = "finish" /\ poll.todo = {}
      /\ pending' = {p \in pending : p.row \in poll.remaining}
      /\ poll' = Idle
      /\ UNCHANGED <<watched, milestones, seen, lifecycle, substantive, scores,
                     rows, goals, noted, at, faults, restarts>>
  BY DEF FinishEnds
<1>2. poll'.phase = "idle"
  BY <1>1 DEF Idle
<1>3. Types'
  BY <1>0, <1>1, <1>2 DEF Types, PollOK, Answering
<1>4. OneRowEach'
  BY <1>0, <1>1 DEF OneRowEach
<1>5. Windows'
  <2>1. ASSUME NEW i \in DOMAIN goals, ~goals[i].finished, restarts = 0
        PROVE  \E p \in pending' : p.row = i
    <3>1. PICK p \in pending : p.row = i
      BY <1>0, <2>1 DEF Windows
    <3>2. p.row \in poll.remaining
      BY <1>0, <1>1, <2>1, <3>1 DEF Windows
    <3> QED BY <1>1, <3>1, <3>2
  <2> QED BY <1>0, <1>1, <1>2, <2>1 DEF Windows
<1>6. Links'
  BY <1>0, <1>1, <1>2, LinksStay
<1>7. Fingerprints'
  BY <1>0, <1>1, <1>2, FingerprintsStay DEF Types
<1>8. PhaseChanges'
  BY <1>0, <1>1, <1>2, PhaseChangesStay DEF Types
<1>9. Follows'
  BY <1>0, <1>1, <1>2, FollowsUntouched DEF Answering, Types
<1> QED BY <1>3, <1>4, <1>5, <1>6, <1>7, <1>8, <1>9 DEF IInv

-----------------------------------------------------------------------------
(***************************************************************************)
(* The mapping task, the matches and restarts                              *)
(***************************************************************************)

\* Neither discovery, nor a match that goes on, touches what was recorded.
LEMMA WorldKeeps ==
    ASSUME IInv,
           UNCHANGED <<poll, seen, lifecycle, substantive, scores, pending, rows, goals,
                       noted, faults, restarts>>,
           watched' \subseteq Events, milestones' \subseteq Events,
           at' \in [Events -> 1 .. Len(Course)],
           \A e \in Events : at[e] <= at'[e]
    PROVE  IInv'
<1>0. /\ Types /\ OneRowEach /\ Windows /\ Links /\ Fingerprints
      /\ PhaseChanges /\ Follows
  BY DEF IInv
<1>1. PollOK'
  BY <1>0 DEF Types, PollOK, Answering, LookupPoll, UpsertPoll, FinishPoll
<1>2. Types'
  BY <1>0, <1>1 DEF Types
<1>3. OneRowEach' /\ Windows'
  BY <1>0, WindowsStay DEF OneRowEach
<1>4. Links'
  BY <1>0, LinksStay DEF Links
<1>5. Fingerprints'
  BY <1>0, FingerprintsStay DEF Fingerprints, Types
<1>6. \A e \in Events : at'[e] \in Nat
  BY ConstantsOK
<1>7. Answering' <=> Answering
  BY DEF Answering
<1>8. faults' \in Nat /\ faults <= faults'
  BY <1>0 DEF Types
<1>9. PhaseChanges'
  BY <1>0, PhaseChangesStay DEF Types
<1>10. Follows'
  <2>1. \A e \in Events : Base(e)' = Base(e)
    BY DEF Base
  <2>2. \A e \in Events : Answering' /\ e \in poll'.todo =>
            poll'.answers[e] \in 1 .. at'[e] /\ Covers(e, poll'.answers[e])
    <3>1. \A e \in Events : at[e] \in Nat
      BY <1>0 DEF Types
    <3> QED BY <1>0, <1>6, <1>7, <3>1 DEF Follows
  <2>3. poll'.phase = "change" => scores'[poll'.event] \in {None, poll'.before}
    BY <1>0 DEF Follows
  <2> QED BY <1>0, <1>6, <1>8, <2>1, <2>2, <2>3, FollowsStay
<1> QED BY <1>2, <1>3, <1>4, <1>5, <1>9, <1>10 DEF IInv

\* What a drop leaves of the run task's hands.
LEMMA DropFacts ==
    ASSUME Types, RoundDrops
    PROVE  /\ PollOK' /\ poll'.phase = poll.phase
           /\ poll'.todo = poll.todo
           /\ Answering => poll'.answers = poll.answers
           /\ poll.phase = "change" => poll'.event = poll.event /\ poll'.before = poll.before
           /\ poll.phase = "lookup" => poll'.items = poll.items
           /\ poll.phase = "upsert" => poll'.rest = poll.rest
           /\ poll.phase \in {"lookup", "upsert"} =>
                 /\ poll'.event = poll.event /\ poll'.known = poll.known
                 /\ poll'.shared => poll.shared /\ poll.event \notin round.drop
           /\ poll.phase = "upsert" => poll'.item = poll.item /\ poll'.prev = poll.prev
           /\ poll.phase = "finish" => poll'.remaining = poll.remaining
<1>0. PollOK
  BY DEF Types
<1>1. poll' = IF poll.phase \in {"lookup", "upsert"} /\ poll.event \in round.drop
              THEN [poll EXCEPT !.shared = FALSE] ELSE poll
  BY DEF RoundDrops
<1>2. CASE ~(poll.phase \in {"lookup", "upsert"} /\ poll.event \in round.drop)
  <2>1. poll' = poll
    BY <1>1, <1>2
  <2>2. PollOK'
    BY <1>0, <2>1 DEF PollOK, Answering, LookupPoll, UpsertPoll, FinishPoll
  <2> QED BY <1>2, <2>1, <2>2
<1>3. CASE poll.phase = "lookup" /\ poll.event \in round.drop
  <2>1. PICK a, t, e, i, k, s :
           poll = [phase |-> "lookup", answers |-> a, todo |-> t, event |-> e,
                      items |-> i, known |-> k, shared |-> s]
    <3>1. poll = LookupPoll
      BY <1>0, <1>3 DEF PollOK
    <3> QED BY <3>1, Zenon DEF LookupPoll
  <2>a. PICK z : z = FALSE
    OBVIOUS
  <2>b. poll' = [poll EXCEPT !.shared = z]
    BY <1>1, <1>3, <2>a
  <2>2. poll' = [phase |-> "lookup", answers |-> a, todo |-> t, event |-> e,
                      items |-> i, known |-> k, shared |-> z]
    BY <2>1, <2>b
  <2>3. /\ poll'.phase = "lookup" /\ poll'.answers = poll.answers /\ poll'.todo = poll.todo
        /\ poll'.event = poll.event /\ poll'.items = poll.items
        /\ poll'.known = poll.known /\ poll'.shared = FALSE /\ poll' = LookupPoll'
    BY <2>1, <2>2, <2>a DEF LookupPoll
  <2>4. PollOK'
    BY <1>0, <1>3, <2>3 DEF PollOK, Answering
  <2> QED BY <1>3, <2>3, <2>4
<1>4. CASE poll.phase = "upsert" /\ poll.event \in round.drop
  <2>1. PICK a, t, e, i, r, k, s, p :
           poll = [phase |-> "upsert", answers |-> a, todo |-> t, event |-> e,
                      item |-> i, rest |-> r, known |-> k, shared |-> s, prev |-> p]
    <3>1. poll = UpsertPoll
      BY <1>0, <1>4 DEF PollOK
    <3> QED BY <3>1, Zenon DEF UpsertPoll
  <2>a. PICK z : z = FALSE
    OBVIOUS
  <2>b. poll' = [poll EXCEPT !.shared = z]
    BY <1>1, <1>4, <2>a
  <2>2. poll' = [phase |-> "upsert", answers |-> a, todo |-> t, event |-> e,
                      item |-> i, rest |-> r, known |-> k, shared |-> z, prev |-> p]
    BY <2>1, <2>b
  <2>3. /\ poll'.phase = "upsert" /\ poll'.answers = poll.answers /\ poll'.todo = poll.todo
        /\ poll'.event = poll.event /\ poll'.item = poll.item /\ poll'.rest = poll.rest
        /\ poll'.known = poll.known /\ poll'.shared = FALSE /\ poll'.prev = poll.prev
        /\ poll' = UpsertPoll'
    BY <2>1, <2>2, <2>a DEF UpsertPoll
  <2>4. PollOK'
    BY <1>0, <1>4, <2>3 DEF PollOK, Answering
  <2> QED BY <1>4, <2>3, <2>4
<1> QED BY <1>2, <1>3, <1>4

\* A drop forgets the match in memory, and separates the set of the pass in
\* progress from the observer's.
LEMMA RoundDropsKeeps ==
    ASSUME IInv, RoundDrops
    PROVE  IInv'
<1>0. /\ Types /\ OneRowEach /\ Windows /\ Links /\ Fingerprints
      /\ PhaseChanges /\ Follows
  BY DEF IInv
<1>1. /\ milestones' = milestones \ round.drop
      /\ seen' = [e \in Events |-> IF e \in round.drop THEN {} ELSE seen[e]]
      /\ lifecycle' = Forget(lifecycle, round.drop)
      /\ substantive' = Forget(substantive, round.drop)
      /\ scores' = Forget(scores, round.drop)
      /\ UNCHANGED <<watched, pending, rows, goals, noted, at, faults, restarts>>
  BY DEF RoundDrops
<1>2. /\ PollOK' /\ poll'.phase = poll.phase /\ poll'.todo = poll.todo
      /\ Answering => poll'.answers = poll.answers
      /\ poll.phase = "change" => poll'.event = poll.event /\ poll'.before = poll.before
      /\ poll.phase = "lookup" => poll'.items = poll.items
      /\ poll.phase = "upsert" => poll'.rest = poll.rest
      /\ poll.phase \in {"lookup", "upsert"} =>
            /\ poll'.event = poll.event /\ poll'.known = poll.known
            /\ poll'.shared => poll.shared /\ poll.event \notin round.drop
      /\ poll.phase = "upsert" => poll'.item = poll.item /\ poll'.prev = poll.prev
      /\ poll.phase = "finish" => poll'.remaining = poll.remaining
  BY <1>0, DropFacts
<1>3. /\ seen' \in [Events -> SUBSET Ids]
      /\ \A e \in Events : seen'[e] = {} \/ (e \notin round.drop /\ seen'[e] = seen[e])
      /\ \A e \in Events : e \notin round.drop => seen'[e] = seen[e]
  BY <1>0, <1>1 DEF Types
<1>4. /\ lifecycle' \in [Events -> Phases \cup {None}]
      /\ substantive' \in [Events -> Ids \cup {None}]
      /\ scores' \in [Events -> (1 .. Len(Course)) \cup {None}]
  BY <1>0, <1>1 DEF Types, Forget
<1>5. \A e \in Events : /\ substantive'[e] # None => substantive'[e] = substantive[e]
                        /\ scores'[e] # None => scores'[e] = scores[e]
  BY <1>1 DEF Forget
<1>6. Types'
  BY <1>0, <1>1, <1>2, <1>3, <1>4 DEF Types
<1>7. OneRowEach' /\ Windows'
  BY <1>0, <1>1, <1>2, WindowsStay DEF OneRowEach
<1>8. Links'
  <2>1. \A f, id : Recorded(f, id)' <=> Recorded(f, id)
    BY <1>1 DEF Recorded
  <2>2. CorrectionsAreLinked'
    BY <1>0, <1>1 DEF Links, CorrectionsAreLinked
  <2>3. \A f \in Events : substantive'[f] # None => Recorded(f, substantive[f])'
    BY <1>0, <1>5, <2>1 DEF Links
  <2>4. poll'.phase = "upsert" => LinkTo(poll'.event, poll'.prev)
    BY <1>0, <1>2 DEF Links
  <2>5. poll'.phase = "upsert" => LinkTo(poll.event, poll.prev)'
    BY <1>1, <2>1, <2>4 DEF LinkTo
  <2> QED BY <2>2, <2>3, <2>5 DEF Links
<1>9. Fingerprints'
  <2>1. ASSUME NEW f \in Events, NEW id \in LostOf(f)' PROVE id \in LostOf(f)
    <3>1. id \in seen[f] /\ ~Recorded(f, id)
      BY <1>1, <1>3 DEF LostOf, Recorded
    <3>2. ~(poll'.phase = "upsert" /\ poll'.event = f /\ poll'.item.id = id)
      BY DEF LostOf
    <3>3. ~(poll.phase = "upsert" /\ poll.event = f /\ poll.item.id = id)
      BY <1>2, <3>2
    <3> QED BY <3>1, <3>3 DEF LostOf
  <2>2. IsFiniteSet(Lost') /\ Cardinality(Lost') <= faults'
    BY <1>0, <1>1, <2>1, LostShrinks DEF Types
  <2>3. ASSUME poll'.phase \in {"lookup", "upsert"}, poll'.shared
        PROVE  poll'.known = seen'[poll'.event]
    <3>1. /\ poll.phase \in {"lookup", "upsert"} /\ poll.shared
          /\ poll.event \notin round.drop
          /\ poll'.event = poll.event /\ poll'.known = poll.known
      BY <1>2, <2>3
    <3>2. poll.event \in Events /\ poll.known = seen[poll.event]
      BY <1>0, <3>1 DEF Fingerprints, Types, PollOK, Answering
    <3> QED BY <1>3, <3>1, <3>2
  <2> QED BY <2>2, <2>3 DEF Fingerprints
<1>10. PhaseChanges'
  BY <1>0, <1>1, <1>2, <1>3, PhaseChangesStay DEF Types
<1>11. Follows'
  <2>1. faults' \in Nat /\ faults <= faults'
    BY <1>0, <1>1 DEF Types
  <2>2. Answering' => Answering /\ poll'.answers = poll.answers /\ poll'.todo \subseteq poll.todo
    BY <1>2 DEF Answering
  <2>3. \A e \in Events : scores'[e] \in {None, scores[e]}
    BY <1>5
  <2> QED BY <1>0, <1>1, <1>2, <2>1, <2>2, <2>3, FollowsUntouched
<1> QED BY <1>6, <1>7, <1>8, <1>9, <1>10, <1>11 DEF IInv

LEMMA RestartKeeps ==
    ASSUME IInv, Restart
    PROVE  IInv'
<1>0. /\ Types /\ OneRowEach /\ Windows /\ Links /\ Fingerprints
      /\ PhaseChanges /\ Follows
  BY DEF IInv
<1>1. /\ restarts' = restarts + 1 /\ watched' = {} /\ milestones' = {} /\ poll' = Idle
      /\ seen' = [e \in Events |-> {}]
      /\ lifecycle' = Nothing /\ substantive' = Nothing /\ scores' = Nothing
      /\ pending' = {}
      /\ UNCHANGED <<rows, goals, noted, at, faults>>
  BY DEF Restart
<1>2. poll'.phase = "idle" /\ restarts' \in Nat /\ restarts' # 0
  BY <1>0, <1>1 DEF Idle, Types
<1>3. /\ seen' \in [Events -> SUBSET Ids] /\ lifecycle' \in [Events -> Phases \cup {None}]
      /\ substantive' \in [Events -> Ids \cup {None}]
      /\ scores' \in [Events -> (1 .. Len(Course)) \cup {None}]
      /\ \A e \in Events : substantive'[e] = None /\ scores'[e] = None /\ seen'[e] = {}
  BY <1>1 DEF Nothing
<1>4. Types'
  BY <1>0, <1>1, <1>2, <1>3 DEF Types, PollOK, Answering
<1>5. OneRowEach' /\ Windows'
  BY <1>0, <1>1, <1>2 DEF OneRowEach, Windows
<1>6. Links'
  BY <1>0, <1>1, <1>2, <1>3 DEF Links, CorrectionsAreLinked
<1>7. Fingerprints'
  <2>1. \A e \in Events : LostOf(e)' \subseteq LostOf(e)
    BY <1>3 DEF LostOf
  <2>2. IsFiniteSet(Lost') /\ Cardinality(Lost') <= faults'
    BY <1>0, <1>1, <2>1, LostShrinks DEF Types
  <2> QED BY <1>2, <2>2 DEF Fingerprints
<1>8. PhaseChanges'
  <2>1. faults' + restarts' = faults + restarts + 1
    BY <1>0, <1>1 DEF Types
  <2> QED BY <1>0, <1>1, <1>2, <1>3, <2>1, PhaseChangesLose
<1>9. Follows'
  BY <1>0, <1>1, <1>2, <1>3, FollowsUntouched DEF Types, Answering
<1> QED BY <1>4, <1>5, <1>6, <1>7, <1>8, <1>9 DEF IInv

-----------------------------------------------------------------------------
(***************************************************************************)
(* Every behaviour                                                         *)
(***************************************************************************)

LEMMA InitHolds ==
    ASSUME Init
    PROVE  IInv
<1>0. /\ rows = <<>> /\ goals = <<>> /\ pending = {} /\ poll.phase = "idle"
      /\ faults = 0 /\ restarts = 0 /\ watched = {} /\ milestones = {}
      /\ at = [e \in Events |-> 1] /\ noted = [e \in Events |-> {}] /\ seen = [e \in Events |-> {}]
      /\ lifecycle = Nothing /\ substantive = Nothing /\ scores = Nothing
  BY DEF Init, Idle
<1>1. Len(Course) \in Nat /\ 1 \in 1 .. Len(Course)
  <2>1. Course \in Seq(Payload) /\ Course # <<>>
    BY ConstantsOK
  <2>2. Len(Course) \in Nat /\ Len(Course) # 0
    BY <2>1, EmptySeq
  <2> QED BY <2>2
<1>2. rows \in Seq(RowType) /\ goals \in Seq(GoalType)
      /\ DOMAIN rows = {} /\ DOMAIN goals = {}
  BY <1>0
<1>3. \A e \in Events : /\ substantive[e] = None /\ scores[e] = None
                        /\ seen[e] = {} /\ at[e] = 1
  BY <1>0 DEF Nothing
<1>4. Types
  BY <1>0, <1>1, <1>2 DEF Types, PollOK, Answering, Nothing
<1>5. OneRowEach /\ Windows
  BY <1>0, <1>2 DEF OneRowEach, Windows
<1>6. Links
  BY <1>0, <1>2, <1>3 DEF Links, CorrectionsAreLinked
<1>7. Fingerprints
  <2>1. \A e \in Events : LostOf(e) = {}
    BY <1>3 DEF LostOf
  <2>2. Lost = {}
    BY <2>1 DEF Lost
  <2>3. IsFiniteSet(Lost) /\ Cardinality(Lost) = 0
    BY <2>2, FS_EmptySet
  <2> QED BY <1>0, <2>3 DEF Fingerprints
<1>8. PhaseChanges
  <2>1. \A e \in Events : MissedOf(e) = {}
    BY <1>0 DEF MissedOf
  <2>2. Missed = {}
    BY <2>1 DEF Missed
  <2>3. IsFiniteSet(Missed) /\ Cardinality(Missed) = 0
    BY <2>2, FS_EmptySet
  <2> QED BY <1>0, <1>3, <2>3 DEF PhaseChanges
<1>9. Follows
  <2>1. \A e \in Events : Base(e) = None
    BY <1>0, <1>3 DEF Base
  <2>2. Lagging = {} /\ Overlapping = {}
    BY <1>2, <2>1 DEF Lagging, Overlapping
  <2>3. IsFiniteSet(Lagging) /\ Cardinality(Lagging) = 0 /\ Cardinality(Overlapping) = 0
    BY <2>2, FS_EmptySet
  <2>4. \A e \in Events : Covers(e, at[e])
    BY <1>2 DEF Covers
  <2> QED BY <1>0, <2>3, <2>4 DEF Follows, Answering
<1> QED BY <1>4, <1>5, <1>6, <1>7, <1>8, <1>9 DEF IInv

LEMMA NextKeeps ==
    ASSUME IInv, [Next]_vars
    PROVE  IInv'
<1>0. Types
  BY DEF IInv
<1>1. /\ watched \subseteq Events /\ milestones \subseteq Events
      /\ at \in [Events -> 1 .. Len(Course)] /\ \A e \in Events : at[e] \in Nat
  BY <1>0, ConstantsOK DEF Types
<1>2. ASSUME NEW es \in SUBSET milestones, Answer(es) PROVE IInv'
  BY <1>2, AnswerKeeps
<1>3. CASE Working
  <2>1. ASSUME NEW e \in Events, TakeUp(e) PROVE IInv'
    BY <2>1, TakeUpKeeps
  <2> QED BY <1>3, <2>1, RecordEventsKeeps, LookupReturnsKeeps, UpsertReturnsKeeps,
             ChangeReturnsKeeps, FinishStartsKeeps, FinishReturnsKeeps, FinishEndsKeeps
          DEF Working
<1>4. CASE PollFails
  BY <1>4, FailureKeeps DEF PollFails
<1>5. CASE ChangeReturns(FALSE)
  BY <1>5, ChangeReturnsKeeps
<1>6. CASE FinishFails
  BY <1>6, FailureKeeps DEF FinishFails
<1>7. ASSUME NEW p \in pending, WindowCloses(p) PROVE IInv'
  BY <1>7, WindowClosesKeeps
<1>8. CASE RoundStarts
  BY <1>1, <1>8, WorldKeeps DEF RoundStarts
<1>9. CASE RoundDrops
  BY <1>9, RoundDropsKeeps
<1>10. CASE RoundEnds
  BY <1>1, <1>10, WorldKeeps DEF RoundEnds
<1>11. ASSUME NEW e \in Events, Resolve(e) PROVE IInv'
  BY <1>1, <1>11, WorldKeeps DEF Resolve
<1>12. ASSUME NEW es \in SUBSET Events, Discover(es) PROVE IInv'
  BY <1>1, <1>12, WorldKeeps DEF Discover
<1>13. ASSUME NEW e \in Events, Advance(e) PROVE IInv'
  <2>1. at[e] < Len(Course) /\ at' = [at EXCEPT ![e] = at[e] + 1] /\ Len(Course) \in Nat
    BY <1>13, ConstantsOK DEF Advance
  <2>2. at[e] + 1 \in 1 .. Len(Course)
    BY <1>1, <2>1
  <2>3. at' \in [Events -> 1 .. Len(Course)]
    BY <1>1, <2>1, <2>2
  <2>4. \A f \in Events : at[f] <= at'[f]
    BY <1>1, <2>1
  <2> QED BY <1>1, <1>13, <2>3, <2>4, WorldKeeps DEF Advance
<1>14. CASE Restart
  BY <1>14, RestartKeeps
<1>15. CASE UNCHANGED vars
  BY <1>1, <1>15, WorldKeeps DEF vars
<1> QED BY <1>2, <1>3, <1>4, <1>5, <1>6, <1>7, <1>8, <1>9, <1>10, <1>11, <1>12,
           <1>13, <1>14, <1>15 DEF Next

\* The strengthening of what the run checks holds in every behaviour, whatever
\* the interleaving of the two tasks, and however often a write fails.
THEOREM Invariance == Spec => []IInv
<1>1. Init => IInv
  BY InitHolds
<1>2. IInv /\ [Next]_vars => IInv'
  BY NextKeeps
<1> QED BY <1>1, <1>2, PTL DEF Spec

\* Rows of either table are well formed and there once, and the window of every
\* change that is not finished is open, but for a restart.
THEOREM TypeCorrect == Spec => []TypeOK
<1>1. ASSUME IInv PROVE TypeOK
  <2>1. \A i \in DOMAIN rows : rows[i].event \in Events /\ rows[i].kind \in Kinds
    <3>1. rows \in Seq(RowType)
      BY <1>1 DEF IInv, Types
    <3>2. \A i \in DOMAIN rows : rows[i] \in RowType
      BY <3>1
    <3> QED BY <3>2 DEF RowType
  <2> QED BY <1>1, <2>1 DEF IInv, Types, OneRowEach, Windows, TypeOK
<1> QED BY <1>1, Invariance, PTL

\* A correction is linked to an earlier row of its match whenever a goal was
\* recorded before it, across failed writes, drops and restarts.
THEOREM CorrectionsStayLinked == Spec => []CorrectionsAreLinked
<1>1. IInv => CorrectionsAreLinked
  BY DEF IInv, Links
<1> QED BY <1>1, Invariance, PTL

\* A failed write loses the event it was to write and the change of phase behind
\* it, or leads to one score change written again, and a restart loses the change
\* of phase in hand; nothing else is lost or repeated.
THEOREM FaultsStayCharged == Spec => []FaultsCostOneEach
<1>1. ASSUME IInv PROVE FaultsCostOneEach
  <2>1. Cardinality(Lost) <= faults /\ Cardinality(Missed) <= faults + restarts
    BY <1>1 DEF IInv, Fingerprints, PhaseChanges
  <2>2. Types /\ Follows
    BY <1>1 DEF IInv
  <2>3. /\ Cardinality(Lagging) \in Nat /\ Cardinality(Overlapping) \in Nat /\ faults \in Nat
        /\ Cardinality(Overlapping) + Cardinality(Lagging) <= faults
    BY <2>2, OverlappingIsFinite, FS_CardinalityType DEF Follows, Types
  <2> QED BY <2>1, <2>3 DEF FaultsCostOneEach
<1> QED BY <1>1, Invariance, PTL
=============================================================================
