----------------------------- MODULE MatchClock -----------------------------
(***************************************************************************)
(* The match clock and the late gate it serves: app/match_clock.py         *)
(* (MatchClockTracker, the stamps, the gate) and the two tasks of          *)
(* app/goal_latency.py that feed it.                                       *)
(*                                                                         *)
(* The poller asks for every mapped event in one request and handles the   *)
(* answers one event at a time; a new reading is inserted by a worker      *)
(* thread, and only its row id makes it visible.  The mapping task drops   *)
(* and resolves events on its own, between any two steps of the poller.    *)
(* Signals are gated against the visible reading with their own arrival    *)
(* time, which may lie behind the wall clock.                              *)
(*                                                                         *)
(* A match runs through Course, a sequence of payloads: at[e] is how far   *)
(* it has come.  An event stands for its milestone, which is its own.      *)
(***************************************************************************)
EXTENDS Integers, Sequences, FiniteSets

CONSTANTS
    Events,      \* watched matches
    None,        \* an absent field, reading or time
    Course,      \* the payloads of a match in order: status, period and minute
    SecondHalf,  \* first minute of the second half: 46
    MinMinute,   \* config.SLEEVE_MIN_MINUTE
    MaxAge,      \* config.MATCH_CLOCK_MAX_AGE_MS
    MaxResponse, \* bound: time an answer takes, with all the client's retries
    MaxLag,      \* bound: arrival of a signal behind the wall clock
    MaxTime,     \* bound: the wall clock
    MaxRows,     \* bound: rows inserted
    MaxFaults    \* bound: failed inserts, abandoned batches and restarts

Status == {"live", "half-time", "suspended", "abandoned", "pre-match", "final"}
Period == {"1st", "2nd", "half-time", "final"}

\* ParsedClock; what the provider sends has the same fields, more of them empty.
Reading == [status : Status \cup {None}, period : Period \cup {None},
            minute : Nat \cup {None}]

\* A row: the poll that established it and the last one that confirmed it.
Clock == [id : Nat, reading : Reading, observed : Nat, confirmed : Nat]

\* A reading that waits for its row.
Candidates == [reading : Reading, received : Nat]

ASSUME ConstantsOK ==
    /\ {SecondHalf, MinMinute, MaxAge, MaxResponse} \subseteq Nat
    /\ {MaxLag, MaxTime, MaxRows, MaxFaults} \subseteq Nat
    /\ Course \in Seq(Reading) /\ Course # <<>>
    /\ None \notin Events /\ None \notin Nat
    /\ None \notin Reading /\ None \notin Clock /\ None \notin Candidates

VARIABLES
    now,           \* time.time()
    watched,       \* Engine.watched_events
    milestones,    \* GoalLatencyObserver.milestones and events_by_milestone
    round,         \* the mapping task: events to drop and to resolve
    poll,          \* the poller: its request, its batch, its insert
    mapped,        \* MatchClockTracker.mapped
    latest,        \* .latest: the visible row of an event
    lastIdentity,  \* .last_identity
    pending,       \* .pending
    lastConfirmed, \* .last_confirmed
    clocks,        \* the match_clock_observations table
    at,            \* the match: how far along Course it is
    since,         \* history: when the match came to each place of Course
    faults

tracker == <<mapped, latest, lastIdentity, pending, lastConfirmed>>
observer == <<milestones, round, poll>>
match   == <<at, since>>
vars    == <<now, watched, observer, tracker, clocks, match, faults>>

-----------------------------------------------------------------------------
(***************************************************************************)
(* Readings, stamps and the gate                                           *)
(***************************************************************************)

\* parse_current_clock: a missing period is told from the minute, a missing
\* status from the period.
Parse(d) ==
    LET period == IF d.period # None THEN d.period
                  ELSE IF d.minute = None THEN None
                  ELSE IF d.minute >= SecondHalf THEN "2nd" ELSE "1st"
        status == IF d.status # None THEN d.status
                  ELSE IF period \in {"1st", "2nd"} THEN "live" ELSE period IN
    [status |-> status, period |-> period, minute |-> d.minute]

\* evaluate_clock_gate.
Gate(r, age) ==
    IF r.status \in Status \ {"live"} THEN r.status
    ELSE IF r.minute = None THEN "missing"
    ELSE IF r.status # "live" THEN "not_live"
    ELSE IF r.period = "1st" THEN "first_half"
    ELSE IF r.period \notin {"2nd", None} THEN "period_unusable"
    ELSE IF r.period = None /\ r.minute < SecondHalf THEN "first_half"
    ELSE IF age < 0 THEN "future"
    ELSE IF age > MaxAge THEN "stale"
    ELSE IF r.minute < MinMinute THEN "pre_88"
    ELSE "88_plus"

\* The age a stamp is judged by: since the last confirmation, unless the row
\* itself was received after the signal.
GateAge(c, ts) ==
    IF ts < c.observed /\ ts >= c.confirmed THEN ts - c.observed ELSE ts - c.confirmed

\* MatchClockTracker.stamp and MatchClockGate.evaluate: what the gate says to
\* a signal of event e that arrived at ts.
GateOutcome(e, ts) ==
    IF latest[e] = None /\ pending[e] # None THEN "unpersisted"
    ELSE IF e \notin mapped THEN "unmapped"
    ELSE IF latest[e] = None THEN "missing"
    ELSE IF latest[e].id <= 0 THEN "unpersisted"
    ELSE Gate(latest[e].reading, GateAge(latest[e], ts))

Accepts(e, ts) == GateOutcome(e, ts) = "88_plus"

\* coverage: the clock of e is present, and confirmed recently enough.
ClockPresent(e) == latest[e] # None /\ latest[e].reading.minute # None

ClockFresh(e) ==
    /\ ClockPresent(e) /\ lastConfirmed[e] # None
    /\ now - lastConfirmed[e] \in 0 .. MaxAge

-----------------------------------------------------------------------------
(***************************************************************************)
(* The tracker                                                             *)
(***************************************************************************)

\* Mutant: any reading confirms the visible one.
ConfirmsAnyReading(e, r) == latest[e] # None

\* A poll that brings the reading already visible moves its confirmation time
\* and nothing else.
Confirms(e, r) == latest[e] # None /\ lastIdentity[e] = r

\* Mutant: the time of the confirmation is not noted for the coverage.
ConfirmUnnoted(e, received) ==
    /\ latest' = [latest EXCEPT ![e].confirmed = received]
    /\ UNCHANGED lastConfirmed

Confirm(e, received) ==
    /\ latest' = [latest EXCEPT ![e].confirmed = received]
    /\ lastConfirmed' = [lastConfirmed EXCEPT ![e] = received]

Candidate(r, received) == [reading |-> r, received |-> received]

\* Mutant: the candidate is published at once, under the id it is about to get.
ProposeVisibly(e, r, received) ==
    /\ pending' = [pending EXCEPT ![e] = Candidate(r, received)]
    /\ latest' = [latest EXCEPT ![e] = [id |-> Len(clocks) + 1, reading |-> r,
                      observed |-> received, confirmed |-> received]]
    /\ lastConfirmed' = [lastConfirmed EXCEPT ![e] = received]
    /\ UNCHANGED lastIdentity

\* A new reading is a candidate until its row exists.
Propose(e, r, received) ==
    /\ pending' = [pending EXCEPT ![e] = Candidate(r, received)]
    /\ UNCHANGED <<latest, lastIdentity, lastConfirmed>>

\* promote: the candidate becomes visible with its row id; there is none left
\* to publish when the event was dropped meanwhile.
Promote(e, id) ==
    IF pending[e] = None THEN UNCHANGED tracker
    ELSE /\ latest' = [latest EXCEPT ![e] = [id |-> id,
                           reading |-> pending[e].reading,
                           observed |-> pending[e].received,
                           confirmed |-> pending[e].received]]
         /\ lastIdentity' = [lastIdentity EXCEPT ![e] = pending[e].reading]
         /\ lastConfirmed' = [lastConfirmed EXCEPT ![e] = pending[e].received]
         /\ pending' = [pending EXCEPT ![e] = None]
         /\ UNCHANGED mapped

\* Mutant: the candidate stays pending after its insert has failed.
FailPersistKept(e) == UNCHANGED tracker

\* fail_persist: the next identical poll tries again.
FailPersist(e) ==
    /\ pending' = [pending EXCEPT ![e] = None]
    /\ UNCHANGED <<mapped, latest, lastIdentity, lastConfirmed>>

Forget(f, es) == [e \in Events |-> IF e \in es THEN None ELSE f[e]]

\* drop_event.
DropEvents(es) ==
    /\ mapped' = mapped \ es
    /\ latest' = Forget(latest, es)
    /\ lastIdentity' = Forget(lastIdentity, es)
    /\ pending' = Forget(pending, es)
    /\ lastConfirmed' = Forget(lastConfirmed, es)

-----------------------------------------------------------------------------
(***************************************************************************)
(* The poller                                                              *)
(***************************************************************************)

Idle == [phase |-> "idle"]

Init ==
    /\ now = 0 /\ watched = {} /\ milestones = {}
    /\ round = Idle /\ poll = Idle
    /\ mapped = {}
    /\ latest = Forget([e \in Events |-> None], {})
    /\ lastIdentity = latest /\ pending = latest /\ lastConfirmed = latest
    /\ clocks = <<>>
    /\ at = [e \in Events |-> 1]
    /\ since = [e \in Events |-> <<0>>]
    /\ faults = 0

\* _poll asks for every mapped event.
Ask ==
    /\ poll = Idle /\ milestones # {}
    /\ poll' = [phase |-> "asked", events |-> milestones, started |-> now, from |-> at]
    /\ UNCHANGED <<now, watched, milestones, round, tracker, clocks, match, faults>>

RequestFails ==
    /\ poll.phase = "asked"
    /\ poll' = Idle
    /\ UNCHANGED <<now, watched, milestones, round, tracker, clocks, match, faults>>

Blank == [status |-> None, period |-> None, minute |-> None]

\* What the provider may say of e: where the match has been since the request
\* was sent, or a payload without a clock.
Answers(e) == {Parse(Course[k]) : k \in poll.from[e] .. at[e]} \cup {Parse(Blank)}

\* The answer: the events it speaks of, each with its reading.
Answer(readings) ==
    /\ poll.phase = "asked"
    /\ DOMAIN readings \subseteq poll.events
    /\ poll' = [phase |-> "batch", received |-> now, todo |-> DOMAIN readings,
                readings |-> readings, writing |-> None]
    /\ UNCHANGED <<now, watched, milestones, round, tracker, clocks, match, faults>>

\* _record_clock up to its insert, with observe.  An event dropped since the
\* request is skipped.  (No insert is in flight here: the poller awaits each.)
Observe(e) ==
    LET r == poll.readings[e] IN
    /\ poll.phase = "batch" /\ poll.writing = None /\ e \in poll.todo
    /\ IF e \notin milestones
       THEN /\ poll' = [poll EXCEPT !.todo = @ \ {e}]
            /\ UNCHANGED tracker
       ELSE /\ mapped' = mapped \cup {e}
            /\ IF Confirms(e, r)
               THEN /\ Confirm(e, poll.received)
                    /\ poll' = [poll EXCEPT !.todo = @ \ {e}]
                    /\ UNCHANGED <<lastIdentity, pending>>
               ELSE /\ Propose(e, r, poll.received)
                    /\ poll' = [poll EXCEPT !.todo = @ \ {e}, !.writing = e]
    /\ UNCHANGED <<now, watched, milestones, round, clocks, match, faults>>

\* The insert returns its row id, and the candidate is published.
InsertReturns ==
    /\ poll.phase = "batch" /\ poll.writing # None
    /\ Len(clocks) < MaxRows
    /\ LET e == poll.writing IN
       /\ clocks' = Append(clocks, [event |-> e, reading |-> poll.readings[e],
                                    observed |-> poll.received])
       /\ Promote(e, Len(clocks) + 1)
    /\ poll' = [poll EXCEPT !.writing = None]
    /\ UNCHANGED <<now, watched, milestones, round, match, faults>>

InsertFails ==
    /\ poll.phase = "batch" /\ poll.writing # None
    /\ faults < MaxFaults /\ faults' = faults + 1
    /\ FailPersist(poll.writing)
    /\ poll' = [poll EXCEPT !.writing = None]
    /\ UNCHANGED <<now, watched, milestones, round, clocks, match>>

\* The batch is done, or what else is recorded of an event has failed and the
\* rest of the batch is abandoned.
PollEnds ==
    /\ poll.phase = "batch" /\ poll.writing = None
    /\ IF poll.todo = {} THEN UNCHANGED faults
       ELSE faults < MaxFaults /\ faults' = faults + 1
    /\ poll' = Idle
    /\ UNCHANGED <<now, watched, milestones, round, tracker, clocks, match>>

-----------------------------------------------------------------------------
(***************************************************************************)
(* The mapping task and the rest of the world                              *)
(***************************************************************************)

\* _resolve_new_events: what is watched is looked at once; the refreshes of the
\* events to drop are flushed before they go.
RoundStarts ==
    /\ round = Idle /\ milestones # watched
    /\ round' = [phase |-> "flush", active |-> watched, drop |-> milestones \ watched]
    /\ UNCHANGED <<now, watched, milestones, poll, tracker, clocks, match, faults>>

RoundDrops ==
    /\ round.phase = "flush"
    /\ milestones' = milestones \ round.drop
    /\ DropEvents(round.drop)
    /\ round' = [phase |-> "resolve", todo |-> round.active \ milestones']
    /\ UNCHANGED <<now, watched, poll, clocks, match, faults>>

Resolve(e) ==
    /\ round.phase = "resolve" /\ e \in round.todo
    /\ milestones' = milestones \cup {e}
    /\ mapped' = mapped \cup {e}
    /\ round' = [round EXCEPT !.todo = @ \ {e}]
    /\ UNCHANGED <<now, watched, poll, latest, lastIdentity, pending, lastConfirmed,
                   clocks, match, faults>>

\* The round ends; events the provider has no milestone for, lookups that
\* failed and those tried within the last half minute are left for another.
RoundEnds ==
    /\ round.phase = "resolve"
    /\ round' = Idle
    /\ UNCHANGED <<now, watched, milestones, poll, tracker, clocks, match, faults>>

Discover(es) ==
    /\ es # watched
    /\ watched' = es
    /\ UNCHANGED <<now, observer, tracker, clocks, match, faults>>

Advance(e) ==
    /\ at[e] < Len(Course)
    /\ at' = [at EXCEPT ![e] = @ + 1]
    /\ since' = [since EXCEPT ![e] = Append(@, now)]
    /\ UNCHANGED <<now, watched, observer, tracker, clocks, faults>>

Tick ==
    /\ now < MaxTime
    /\ poll.phase = "asked" => now < poll.started + MaxResponse
    /\ now' = now + 1
    /\ UNCHANGED <<watched, observer, tracker, clocks, match, faults>>

\* A restart: the tracker is empty, and nothing is read back into it.
Restart ==
    /\ faults < MaxFaults /\ faults' = faults + 1
    /\ watched' = {} /\ milestones' = {} /\ round' = Idle /\ poll' = Idle
    /\ mapped' = {}
    /\ latest' = [e \in Events |-> None] /\ lastIdentity' = latest'
    /\ pending' = latest' /\ lastConfirmed' = latest'
    /\ UNCHANGED <<now, clocks, match>>

Next ==
    \/ Ask \/ RequestFails \/ InsertReturns \/ InsertFails \/ PollEnds
    \/ /\ poll.phase = "asked"
       /\ \E es \in SUBSET poll.events :
              \E readings \in [es -> UNION {Answers(e) : e \in es}] :
                  /\ \A e \in es : readings[e] \in Answers(e)
                  /\ Answer(readings)
    \/ \E e \in Events : Observe(e)
    \/ RoundStarts \/ RoundDrops \/ RoundEnds
    \/ \E e \in Events : Resolve(e)
    \/ \E es \in SUBSET Events : Discover(es)
    \/ \E e \in Events : Advance(e)
    \/ Tick \/ Restart

Spec == Init /\ [][Next]_vars

-----------------------------------------------------------------------------
(***************************************************************************)
(* Properties                                                              *)
(***************************************************************************)

\* Types: every candidate belongs to the insert in flight, what is visible
\* belongs to a mapped event, and the two tasks agree on what is mapped.
TypeOK ==
    /\ now \in 0 .. MaxTime
    /\ milestones \subseteq Events /\ mapped = milestones
    /\ \A e \in Events :
          /\ latest[e] # None => e \in mapped /\ latest[e] \in Clock
          /\ latest[e] = None <=> lastIdentity[e] = None
          /\ pending[e] # None => /\ poll.phase = "batch" /\ poll.writing = e
                                  /\ pending[e].reading \in Reading

\* The arrival times a signal handled now may carry.
Arrivals == {ts \in (now - MaxLag) .. now : ts >= 0}

\* A signal the gate accepts can be reconciled with the database: the visible
\* reading is the one stored under its row id, for this event, received before
\* the signal (is_persisted_id, promote), whatever inserts fail and whenever
\* the event is dropped and mapped again.
AcceptedHasLineage ==
    \A e \in Events, ts \in Arrivals :
        Accepts(e, ts) =>
            /\ latest[e].id \in DOMAIN clocks
            /\ clocks[latest[e].id] = [event |-> e, reading |-> latest[e].reading,
                                       observed |-> latest[e].observed]
            /\ latest[e].observed <= ts

\* A signal is accepted only if by its arrival the match had reached the minute
\* the gate asks for, and was still there no longer ago than the age limit and
\* the time an answer may take: a stale clock can refuse, but admits only
\* shortly after the whistle (MATCH_CLOCK_MAX_AGE_MS).
AcceptedIsCurrent ==
    \A e \in Events, ts \in Arrivals :
        Accepts(e, ts) =>
            \E k \in 1 .. at[e] :
                /\ Parse(Course[k]) = latest[e].reading /\ since[e][k] <= ts
                /\ k < at[e] => since[e][k + 1] >= ts - MaxAge - MaxResponse

\* The coverage the dashboard shows and the gate do not disagree on freshness:
\* the one reads last_confirmed, the other the row's own confirmation.
CoverageAgreesWithGate ==
    \A e \in Events :
        LET outcome == GateOutcome(e, now) IN
        /\ ClockPresent(e) /\ outcome \in {"pre_88", "88_plus"} => ClockFresh(e)
        /\ ClockFresh(e) => outcome \notin {"stale", "future", "unmapped",
                                            "unpersisted", "missing"}
=============================================================================
