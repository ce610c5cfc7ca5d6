--------------------------- MODULE ProviderEvents ---------------------------
(***************************************************************************)
(* What app/goal_latency.py records of the match feed: the provider's      *)
(* events (goals, corrections, lifecycle), each row once, with the link    *)
(* from a correction to what it revises; and the changes of the score,     *)
(* each with the market's reaction once its window is over.                *)
(*                                                                         *)
(* The run task polls, takes the answer apart event by event, then closes  *)
(* the windows that are due; every call to the database is awaited on a    *)
(* worker thread.  The mapping task drops and resolves matches at any      *)
(* await of the run task.  The clock readings of the same poll are in      *)
(* MatchClock; the batched refreshes of last_observed_ts are left out.     *)
(*                                                                         *)
(* A match runs through Course, a sequence of payloads.  A score is an     *)
(* opaque value, and None a payload without one.  The score kept of a match*)
(* is held as the place in Course it was read at: the code compares scores *)
(* only, the properties tell two reads of the same score apart.            *)
(***************************************************************************)
EXTENDS Integers, Sequences, FiniteSets, SequencesExt

CONSTANTS
    Events,    \* watched matches; each has one milestone
    None,      \* an absent value
    Course,    \* the payloads of a match in order: items, phase and score
    MaxFaults  \* bound: writes that fail and restarts

Kinds  == {"goal", "correction", "other"}
Phases == {Course[k].phase : k \in DOMAIN Course}
Scores == {Course[k].score : k \in DOMAIN Course}

\* The fingerprints of provider events, and those of the transitions.
ItemIds == UNION {{Course[k].items[i].id : i \in DOMAIN Course[k].items} :
                     k \in DOMAIN Course}
Transitions == (Phases \cup {None}) \X Phases
Ids == ItemIds \cup Transitions

Item    == [id : Ids, kind : Kinds]
Payload == [items : Seq(Item), phase : Phases, score : Scores]

ASSUME ConstantsOK ==
    /\ Course \in Seq(Payload) /\ Course # <<>>
    /\ None \notin Events /\ None \notin Ids /\ None \notin DOMAIN Course
    /\ ItemIds \cap Transitions = {}
    /\ MaxFaults \in Nat

VARIABLES
    watched,     \* Engine.watched_events
    milestones,  \* GoalLatencyObserver.milestones
    round,       \* the mapping task
    poll,        \* the run task
    seen,        \* seen_fingerprints
    lifecycle,   \* lifecycle_state
    substantive, \* last_substantive_fingerprint
    scores,      \* scores: where in Course the baseline was read
    pending,     \* pending, in row order: rows whose window is open, and whether it is over
    rows,        \* the provider_match_events table
    goals,       \* the goal_latency_observations table
    noted,       \* history: the transitions that lifecycle_state ever made
    at,          \* the match: how far along Course it is
    faults, restarts

memory == <<seen, lifecycle, substantive, scores, pending>>
tables == <<rows, goals>>
vars   == <<watched, milestones, round, poll, memory, tables, noted, at, faults, restarts>>

Idle == [phase |-> "idle"]

Nothing == [e \in Events |-> None]

Init ==
    /\ watched = {} /\ milestones = {}
    /\ round = Idle /\ poll = Idle
    /\ seen = [e \in Events |-> {}]
    /\ lifecycle = Nothing /\ substantive = Nothing /\ scores = Nothing
    /\ pending = {}
    /\ rows = <<>> /\ goals = <<>>
    /\ noted = [e \in Events |-> {}]
    /\ at = [e \in Events |-> 1]
    /\ faults = 0 /\ restarts = 0

WriteFails == faults + restarts < MaxFaults /\ faults' = faults + 1

-----------------------------------------------------------------------------
(***************************************************************************)
(* Candidates and links                                                    *)
(***************************************************************************)

\* period_status_event: a change of phase is an event of its own, whose
\* fingerprint is the transition.
Transition(from, to) ==
    IF from = to THEN <<>> ELSE <<[id |-> <<from, to>>, kind |-> "other"]>>

\* iter_provider_event_rows, and the transition after them.
Candidates(e, payload) == payload.items \o Transition(lifecycle[e], payload.phase)

\* The fingerprints of a list of items.
IdsOf(items) == {items[i].id : i \in DOMAIN items}

Recorded(e, id) == \E i \in DOMAIN rows : rows[i].event = e /\ rows[i].id = id

\* previous_substantive_fingerprint: the newest goal in the table.
NewestGoal(e) ==
    LET found == {i \in DOMAIN rows : rows[i].event = e /\ rows[i].kind = "goal"} IN
    IF found = {} THEN None ELSE rows[Max(found)].id

\* Mutant: after a restart there is nothing to link to.
LinkInMemory(e, durable) == substantive[e]

\* What a correction would revise: the last substantive event in memory or,
\* when memory has none, in the table.
Link(e, durable) == IF substantive[e] # None THEN substantive[e] ELSE durable

\* Mutant: the table is not asked whether it has the fingerprint.
Inserted(e, item, prev) ==
    Append(rows, [event |-> e, id |-> item.id, kind |-> item.kind,
                  prev |-> IF item.kind = "correction" THEN prev ELSE None])

\* upsert_provider_event: a fingerprint gets one row.
Upserted(e, item, prev) ==
    IF Recorded(e, item.id) THEN rows
    ELSE Append(rows, [event |-> e, id |-> item.id, kind |-> item.kind,
                       prev |-> IF item.kind = "correction" THEN prev ELSE None])

-----------------------------------------------------------------------------
(***************************************************************************)
(* The run task                                                            *)
(***************************************************************************)

\* One event of the batch is done.
DoneWith(e) == [phase |-> "batch", answers |-> poll.answers, todo |-> poll.todo \ {e}]

\* The end of an event in _poll: a changed score of a match that is still
\* mapped is inserted; any other becomes the baseline at once.
Score(e) ==
    LET read == poll.answers[e]
        score == Course[read].score
        changed == scores[e] # None /\ Course[scores[e]].score # score IN
    CASE score = None ->
           poll' = DoneWith(e) /\ UNCHANGED scores
      [] score # None /\ changed /\ e \in milestones ->
           /\ poll' = [phase |-> "change", answers |-> poll.answers, todo |-> poll.todo,
                       event |-> e, before |-> scores[e]]
           /\ UNCHANGED scores
      [] OTHER ->
           /\ poll' = DoneWith(e)
           /\ scores' = [scores EXCEPT ![e] = read]

\* Mutant: all candidates are marked before the first is written.
MarkedAll(known, items, k) == known \cup IdsOf(items)

\* The fingerprint is marked as seen before its row is written.
Marked(known, items, k) == known \cup {items[k].id}

\* The loop of _record_provider_events over the candidates left: those seen
\* before only refresh their row; the first new one is marked and upserted.
\* known is the local set; it is the observer's own unless the match was
\* dropped meanwhile.
Proceed(e, items, known, shared, prev) ==
    LET new == {i \in DOMAIN items : items[i].id \notin known} IN
    IF new = {}
    THEN Score(e) /\ UNCHANGED seen
    ELSE LET k == Min(new)
             marked == Marked(known, items, k) IN
         /\ seen' = IF shared THEN [seen EXCEPT ![e] = marked] ELSE seen
         /\ poll' = [phase |-> "upsert", answers |-> poll.answers, todo |-> poll.todo,
                     event |-> e, item |-> items[k], rest |-> SubSeq(items, k + 1, Len(items)),
                     known |-> marked, shared |-> shared, prev |-> prev]
         /\ UNCHANGED scores

\* _poll: the provider answers for the matches es.
Answer(es) ==
    /\ poll = Idle /\ es \subseteq milestones
    /\ poll' = [phase |-> "batch", answers |-> [e \in es |-> at[e]], todo |-> es]
    /\ UNCHANGED <<watched, milestones, round, memory, tables, noted, at, faults, restarts>>

\* A match dropped since the request is skipped; of another the clock is
\* recorded first, which may await its insert.
TakeUp(e) ==
    /\ poll.phase = "batch" /\ e \in poll.todo
    /\ poll' = IF e \in milestones
               THEN [phase |-> "clock", answers |-> poll.answers, todo |-> poll.todo, event |-> e]
               ELSE DoneWith(e)
    /\ UNCHANGED <<watched, milestones, round, memory, tables, noted, at, faults, restarts>>

\* _record_provider_events up to its first await: a transition is noted before
\* it is written; the table is asked for a link that memory does not have.
RecordEvents ==
    /\ poll.phase = "clock"
    /\ LET e == poll.event
           payload == Course[poll.answers[e]]
           items == Candidates(e, payload) IN
       /\ lifecycle' = [lifecycle EXCEPT ![e] = payload.phase]
       /\ noted' = [noted EXCEPT ![e] = @ \cup IdsOf(Transition(lifecycle[e], payload.phase))]
       /\ IF substantive[e] # None
          THEN Proceed(e, items, seen[e], TRUE, substantive[e])
          ELSE /\ poll' = [phase |-> "lookup", answers |-> poll.answers, todo |-> poll.todo,
                           event |-> e, items |-> items, known |-> seen[e], shared |-> TRUE]
               /\ UNCHANGED <<seen, scores>>
    /\ UNCHANGED <<watched, milestones, round, substantive, pending, tables, at,
                   faults, restarts>>

\* The lookup returns.
LookupReturns ==
    /\ poll.phase = "lookup"
    /\ LET e == poll.event
           prev == Link(e, NewestGoal(e)) IN
       /\ substantive' = [substantive EXCEPT ![e] = prev]
       /\ Proceed(e, poll.items, poll.known, poll.shared, prev)
    /\ UNCHANGED <<watched, milestones, round, lifecycle, pending, tables, noted, at,
                   faults, restarts>>

\* The upsert returns: a substantive event is what later polls link to, and any
\* new one what the rest of this payload links to.
UpsertReturns ==
    /\ poll.phase = "upsert"
    /\ LET e == poll.event
           item == poll.item
           revises == item.kind # "other" IN
       /\ rows' = Upserted(e, item, poll.prev)
       /\ substantive' = IF revises THEN [substantive EXCEPT ![e] = item.id]
                                    ELSE substantive
       /\ Proceed(e, poll.rest, poll.known, poll.shared,
                  IF revises \/ ~Recorded(e, item.id) THEN item.id ELSE poll.prev)
    /\ UNCHANGED <<watched, milestones, round, lifecycle, pending, goals, noted, at,
                   faults, restarts>>

\* Any awaited call of _poll raises: the rest of the batch is abandoned, and
\* run does not come to _finish_pending.
PollFails ==
    /\ poll.phase \in {"lookup", "upsert", "change"}
    /\ WriteFails
    /\ poll' = Idle
    /\ UNCHANGED <<watched, milestones, round, memory, tables, noted, at, restarts>>

\* insert_goal_latency returns and the window opens.  The log entry written
\* after it may fail: the baseline is then not moved.
ChangeReturns(logged) ==
    /\ poll.phase = "change"
    /\ LET e == poll.event
           read == poll.answers[e] IN
       /\ goals' = Append(goals, [event |-> e, before |-> poll.before, after |-> read,
                                  finished |-> FALSE])
       /\ pending' = pending \cup {[row |-> Len(goals) + 1, due |-> FALSE]}
       /\ IF logged
          THEN /\ scores' = [scores EXCEPT ![e] = read]
               /\ poll' = DoneWith(e) /\ UNCHANGED faults
          ELSE /\ WriteFails
               /\ poll' = Idle /\ UNCHANGED scores
    /\ UNCHANGED <<watched, milestones, round, seen, lifecycle, substantive, rows, noted, at,
                   restarts>>

\* The window of a change is over.
WindowCloses(p) ==
    /\ ~p.due
    /\ pending' = (pending \ {p}) \cup {[p EXCEPT !.due = TRUE]}
    /\ UNCHANGED <<watched, milestones, round, poll, seen, lifecycle, substantive, scores,
                   tables, noted, at, faults, restarts>>

\* _finish_pending starts, and ends when the rows it found due are written:
\* the ones it did not find stay.
FinishStarts ==
    /\ poll.phase = "batch" /\ poll.todo = {}
    /\ poll' = [phase |-> "finish",
                todo |-> {p.row : p \in {p \in pending : p.due}},
                remaining |-> {p.row : p \in {p \in pending : ~p.due}}]
    /\ UNCHANGED <<watched, milestones, round, memory, tables, noted, at, faults, restarts>>

FinishReturns ==
    /\ poll.phase = "finish" /\ poll.todo # {}
    /\ goals' = [goals EXCEPT ![Min(poll.todo)].finished = TRUE]
    /\ poll' = [poll EXCEPT !.todo = @ \ {Min(@)}]
    /\ UNCHANGED <<watched, milestones, round, memory, rows, noted, at, faults, restarts>>

\* Mutant: a pass that fails gives up the rows it found due.
FinishGivesUp ==
    /\ poll.phase = "finish" /\ poll.todo # {}
    /\ WriteFails
    /\ pending' = {p \in pending : p.row \in poll.remaining}
    /\ poll' = Idle
    /\ UNCHANGED <<watched, milestones, round, seen, lifecycle, substantive, scores,
                   tables, noted, at, restarts>>

\* A row that cannot be written ends the pass, and all rows stay pending.
FinishFails ==
    /\ poll.phase = "finish" /\ poll.todo # {}
    /\ WriteFails
    /\ poll' = Idle
    /\ UNCHANGED <<watched, milestones, round, memory, tables, noted, at, restarts>>

FinishEnds ==
    /\ poll.phase = "finish" /\ poll.todo = {}
    /\ pending' = {p \in pending : p.row \in poll.remaining}
    /\ poll' = Idle
    /\ UNCHANGED <<watched, milestones, round, seen, lifecycle, substantive, scores,
                   tables, noted, at, faults, restarts>>

-----------------------------------------------------------------------------
(***************************************************************************)
(* The mapping task and the rest of the world                              *)
(***************************************************************************)

Forget(f, es) == [e \in Events |-> IF e \in es THEN None ELSE f[e]]

\* _resolve_new_events looks once at what is watched; the flush before the
\* drop is awaited when there is something to flush.
RoundStarts ==
    /\ round = Idle /\ milestones # watched
    /\ round' = [phase |-> "flush", active |-> watched, drop |-> milestones \ watched]
    /\ UNCHANGED <<watched, milestones, poll, memory, tables, noted, at, faults, restarts>>

\* Everything kept of the dropped matches goes, but what the run task has in
\* its hands.
RoundDrops ==
    /\ round.phase = "flush"
    /\ milestones' = milestones \ round.drop
    /\ seen' = [e \in Events |-> IF e \in round.drop THEN {} ELSE seen[e]]
    /\ lifecycle' = Forget(lifecycle, round.drop)
    /\ substantive' = Forget(substantive, round.drop)
    /\ scores' = Forget(scores, round.drop)
    /\ poll' = IF poll.phase \in {"lookup", "upsert"} /\ poll.event \in round.drop
               THEN [poll EXCEPT !.shared = FALSE] ELSE poll
    /\ round' = [phase |-> "resolve", todo |-> round.active \ milestones']
    /\ UNCHANGED <<watched, pending, tables, noted, at, faults, restarts>>

Resolve(e) ==
    /\ round.phase = "resolve" /\ e \in round.todo
    /\ milestones' = milestones \cup {e}
    /\ round' = [round EXCEPT !.todo = @ \ {e}]
    /\ UNCHANGED <<watched, poll, memory, tables, noted, at, faults, restarts>>

\* Matches without a milestone and lookups that failed wait for another round.
RoundEnds ==
    /\ round.phase = "resolve"
    /\ round' = Idle
    /\ UNCHANGED <<watched, milestones, poll, memory, tables, noted, at, faults, restarts>>

Discover(es) ==
    /\ es # watched
    /\ watched' = es
    /\ UNCHANGED <<milestones, round, poll, memory, tables, noted, at, faults, restarts>>

Advance(e) ==
    /\ at[e] < Len(Course)
    /\ at' = [at EXCEPT ![e] = @ + 1]
    /\ UNCHANGED <<watched, milestones, round, poll, memory, tables, noted, faults, restarts>>

\* A restart leaves the tables.
Restart ==
    /\ faults + restarts < MaxFaults /\ restarts' = restarts + 1
    /\ watched' = {} /\ milestones' = {} /\ round' = Idle /\ poll' = Idle
    /\ seen' = [e \in Events |-> {}]
    /\ lifecycle' = Nothing /\ substantive' = Nothing /\ scores' = Nothing
    /\ pending' = {}
    /\ UNCHANGED <<tables, noted, at, faults>>

Working ==
    \/ \E e \in Events : TakeUp(e)
    \/ RecordEvents \/ LookupReturns \/ UpsertReturns \/ ChangeReturns(TRUE)
    \/ FinishStarts \/ FinishReturns \/ FinishEnds

Next ==
    \/ \E es \in SUBSET milestones : Answer(es)
    \/ Working
    \/ PollFails \/ ChangeReturns(FALSE) \/ FinishFails
    \/ \E p \in pending : WindowCloses(p)
    \/ RoundStarts \/ RoundDrops \/ RoundEnds
    \/ \E e \in Events : Resolve(e)
    \/ \E es \in SUBSET Events : Discover(es)
    \/ \E e \in Events : Advance(e)
    \/ Restart

\* The run task loops for ever and survives its errors, its requests are
\* answered or it has nothing to ask for, and windows end with time.
Fairness ==
    /\ WF_vars(\E es \in SUBSET milestones : Answer(es))
    /\ WF_vars(Working)
    /\ WF_vars(\E p \in pending : WindowCloses(p))

Spec == Init /\ [][Next]_vars /\ Fairness

-----------------------------------------------------------------------------
(***************************************************************************)
(* Properties                                                              *)
(***************************************************************************)

\* Types; a row of either table is there once, and an open window has a row
\* that is not finished unless the pass that closes it is under way.
TypeOK ==
    /\ milestones \subseteq Events /\ watched \subseteq Events
    /\ \A i \in DOMAIN rows : rows[i].event \in Events /\ rows[i].kind \in Kinds
    /\ \A i, j \in DOMAIN rows :
          rows[i].event = rows[j].event /\ rows[i].id = rows[j].id => i = j
    /\ \A p \in pending : p.row \in DOMAIN goals
    /\ \A p, q \in pending : p.row = q.row => p = q
    /\ \A i \in DOMAIN goals :
          ~goals[i].finished /\ restarts = 0 => \E p \in pending : p.row = i

\* A correction is linked whenever there is something to link it to, across
\* polls, failed writes, drops and restarts: it names a row of the same match
\* that was written before it, and names one if a goal was.
CorrectionsAreLinked ==
    \A j \in DOMAIN rows :
        LET earlier == {i \in 1 .. j - 1 : rows[i].event = rows[j].event} IN
        rows[j].kind = "correction" =>
            /\ rows[j].prev # None => \E i \in earlier : rows[i].id = rows[j].prev
            /\ (\E i \in earlier : rows[i].kind = "goal") => rows[j].prev # None

\* Events that will not be written any more: marked as seen, but not recorded
\* and not being written.
LostOf(e) ==
    {id \in seen[e] :
        /\ ~Recorded(e, id)
        /\ ~(poll.phase = "upsert" /\ poll.event = e /\ poll.item.id = id)}

Lost == UNION {{e} \X LostOf(e) : e \in Events}

\* What the pass in progress has still to write.
Writing(e) ==
    CASE poll.phase = "lookup" /\ poll.event = e -> IdsOf(poll.items) \ poll.known
      [] poll.phase = "upsert" /\ poll.event = e ->
             {poll.item.id} \cup (IdsOf(poll.rest) \ poll.known)
      [] OTHER -> {}

\* Changes of phase that will not be written: lifecycle_state has made them, but
\* they are not recorded and not being written.
MissedOf(e) == {t \in noted[e] : ~Recorded(e, t) /\ t \notin Writing(e)}

Missed == UNION {{e} \X MissedOf(e) : e \in Events}

\* Score changes written although an earlier row of the match covers part of
\* the same stretch of it.
Overlapping ==
    {j \in DOMAIN goals : \E i \in 1 .. j - 1 :
        goals[i].event = goals[j].event /\ goals[j].before < goals[i].after}

\* What goes wrong in the tables is charged to a failed write or a restart.  A
\* failed write loses one event at most, the one marked as seen for it, and one
\* change of phase, which is noted before and written after the events of its
\* payload, or it makes one score change be written twice; a restart loses the
\* change of phase in hand at most.
FaultsCostOneEach ==
    /\ Cardinality(Lost) <= faults
    /\ Cardinality(Missed) <= faults + restarts
    /\ Cardinality(Overlapping) <= faults

\* A correction never links to another correction.
CorrectionsLinkToGoals ==
    \A i, j \in DOMAIN rows :
        rows[j].kind = "correction" /\ rows[i].event = rows[j].event
            /\ rows[i].id = rows[j].prev => rows[i].kind = "goal"

\* The market's reaction to every change is recorded once its window is over,
\* unless the process restarts.
WindowsAreFinished ==
    \A n \in 1 .. Len(Course) :
        (n \in DOMAIN goals) ~> (n \in DOMAIN goals /\ (goals[n].finished \/ restarts > 0))
=============================================================================
