-------------------------- MODULE MatchClockProofs --------------------------
(***************************************************************************)
(* Proofs about MatchClock, for any set of events, any course of a match,  *)
(* any age limit and any bounds.                                           *)
(*                                                                         *)
(* The argument carries one fact from the match to the gate: when an       *)
(* answer arrives, the match was at the reading it brings not long before  *)
(* (WasAt), by the time the answer may take.  The fact is kept for the     *)
(* batch, for the candidate whose row is being inserted and for the        *)
(* visible row, each with its own time, because the match only moves on    *)
(* and never earlier than now.                                             *)
(***************************************************************************)
EXTENDS MatchClock, TLAPS

\* The match was at reading r by time t, and left it no earlier than an answer
\* takes before t.
WasAt(e, r, t) ==
    \E k \in 1 .. at[e] :
        /\ Parse(Course[k]) = r /\ since[e][k] <= t
        /\ k < at[e] => since[e][k + 1] >= t - MaxResponse

Supported(e, r, t) == r.minute # None => WasAt(e, r, t)

Types ==
    /\ now \in 0 .. MaxTime
    /\ milestones \subseteq Events /\ mapped = milestones
    /\ latest \in [Events -> Clock \cup {None}]
    /\ lastIdentity \in [Events -> Reading \cup {None}]
    /\ pending \in [Events -> Candidates \cup {None}]
    /\ lastConfirmed \in [Events -> Nat \cup {None}]
    /\ clocks \in Seq([event : Events, reading : Reading, observed : Nat])
    /\ at \in [Events -> Nat] /\ since \in [Events -> Seq(Nat)]

\* How far each match has come, and when it came to each place.
Timeline ==
    \A e \in Events :
        /\ at[e] \in 1 .. Len(Course) /\ Len(since[e]) = at[e]
        /\ \A k \in 1 .. at[e] : since[e][k] <= now

\* What is visible of e agrees with the other maps and with its row.
VisibleAt(e) ==
    /\ latest[e] = None <=> lastIdentity[e] = None
    /\ latest[e] # None =>
          /\ e \in mapped
          /\ latest[e].reading = lastIdentity[e]
          /\ lastConfirmed[e] = latest[e].confirmed
          /\ latest[e].id \in DOMAIN clocks
          /\ clocks[latest[e].id] = [event |-> e, reading |-> latest[e].reading,
                                     observed |-> latest[e].observed]
          /\ latest[e].observed <= latest[e].confirmed /\ latest[e].confirmed <= now
          /\ Supported(e, latest[e].reading, latest[e].confirmed)

\* A request under way: no place of the match behind the one it was sent at was
\* reached before it was sent.
Asked ==
    /\ poll.phase = "asked"
    /\ poll = [phase |-> "asked", events |-> poll.events, started |-> poll.started,
               from |-> poll.from]
    /\ poll.events \subseteq Events
    /\ poll.started \in Nat /\ poll.started <= now /\ now <= poll.started + MaxResponse
    /\ \A e \in Events :
          /\ poll.from[e] \in 1 .. at[e]
          /\ \A k \in 1 .. at[e] : k > poll.from[e] => since[e][k] >= poll.started

\* A batch: nothing visible is newer than it.
Batch ==
    /\ poll.phase = "batch"
    /\ poll = [phase |-> "batch", received |-> poll.received, todo |-> poll.todo,
               readings |-> poll.readings, writing |-> poll.writing]
    /\ poll.received \in Nat /\ poll.received <= now
    /\ DOMAIN poll.readings \subseteq Events
    /\ poll.todo \subseteq DOMAIN poll.readings
    /\ poll.writing \in DOMAIN poll.readings \cup {None}
    /\ \A e \in DOMAIN poll.readings :
          /\ poll.readings[e] \in Reading
          /\ Supported(e, poll.readings[e], poll.received)
    /\ \A e \in Events : latest[e] # None => latest[e].confirmed <= poll.received

\* The candidate is the reading whose insert is in flight.
PendingAt(e) ==
    pending[e] # None =>
        /\ poll.phase = "batch" /\ poll.writing = e /\ e \in mapped
        /\ pending[e] = Candidate(poll.readings[e], poll.received)

Polling == poll = Idle \/ Asked \/ Batch

IInv ==
    /\ Types /\ Timeline /\ Polling
    /\ \A e \in Events : VisibleAt(e) /\ PendingAt(e)

-----------------------------------------------------------------------------

\* What is parsed of a payload is a reading; a payload without a clock has no
\* minute.
LEMMA ParseReading ==
    /\ \A d \in Reading : Parse(d) \in Reading
    /\ Parse(Blank) \in Reading /\ Parse(Blank).minute = None
  <1>1. ASSUME NEW d \in Reading PROVE Parse(d) \in Reading
    BY ConstantsOK DEF Parse, Reading, Status, Period
  <1>2. Blank \in Reading
    BY DEF Blank, Reading
  <1>3. Parse(Blank).minute = None
    BY DEF Parse, Blank
  <1> QED BY <1>1, <1>2, <1>3

\* What was true of a match stays true as it advances.
LEMMA SupportLasts ==
    ASSUME Types, Timeline, UNCHANGED match, NEW e \in Events, NEW r, NEW t
    PROVE  Supported(e, r, t)' <=> Supported(e, r, t)
  BY DEF match, Supported, WasAt

LEMMA InitIInv == Init => IInv
  <1> SUFFICES ASSUME Init PROVE IInv
    OBVIOUS
  <1>1. latest = [e \in Events |-> None]
    BY DEF Init, Forget
  <1>2. Types
    BY <1>1, ConstantsOK DEF Init, Types
  <1>3. Timeline
    BY ConstantsOK DEF Init, Timeline
  <1>4. \A e \in Events : VisibleAt(e) /\ PendingAt(e)
    BY <1>1 DEF Init, VisibleAt, PendingAt
  <1> QED BY <1>2, <1>3, <1>4 DEF Init, IInv, Polling

-----------------------------------------------------------------------------

\* A step that leaves the tracker, the rows, the match and the clock alone
\* keeps what is said of them.
LEMMA TrackerUntouched ==
    ASSUME IInv, UNCHANGED <<now, milestones, tracker, clocks, match>>
    PROVE  Types' /\ Timeline' /\ \A e \in Events : VisibleAt(e)'
  <1>1. Types' /\ Timeline'
    BY DEF IInv, Types, Timeline, tracker, match
  <1>2. ASSUME NEW e \in Events PROVE VisibleAt(e)'
    BY SupportLasts DEF IInv, Types, VisibleAt, tracker, match, Supported, WasAt
  <1> QED BY <1>1, <1>2

\* A step that does not concern the clocks at all.
LEMMA NothingTouched ==
    ASSUME IInv, UNCHANGED <<now, milestones, poll, tracker, clocks, match>>
    PROVE  IInv'
  <1>1. Polling'
    <2>1. Asked => Asked'
      BY DEF Asked, match
    <2>2. Batch => Batch'
      BY DEF Batch, tracker, match, Supported, WasAt
    <2> QED BY <2>1, <2>2 DEF IInv, Polling
  <1>2. \A e \in Events : PendingAt(e)'
    BY DEF IInv, PendingAt, tracker
  <1> QED BY <1>1, <1>2, TrackerUntouched DEF IInv

LEMMA AskKeeps ==
    ASSUME IInv, Ask
    PROVE  IInv'
  <1>1. Asked'
    BY ConstantsOK DEF Ask, Asked, IInv, Types, Timeline, match
  <1>2. \A e \in Events : PendingAt(e)'
    BY DEF Ask, Idle, IInv, PendingAt, tracker
  <1> QED BY <1>1, <1>2, TrackerUntouched DEF Ask, IInv, Polling

\* The poller stops: no insert is in flight, so there is no candidate.
LEMMA PollStopsKeeps ==
    ASSUME IInv, poll.phase = "batch" => poll.writing = None, poll' = Idle,
           UNCHANGED <<now, milestones, tracker, clocks, match>>
    PROVE  IInv'
  <1>1. \A e \in Events : PendingAt(e)'
    BY ConstantsOK DEF IInv, PendingAt, tracker
  <1> QED BY <1>1, TrackerUntouched DEF IInv, Polling

\* The answer: each reading is one the match was at since the request was
\* sent, or has no minute.
LEMMA AnswerKeeps ==
    ASSUME IInv, NEW readings,
           \A e \in DOMAIN readings : readings[e] \in Answers(e), Answer(readings)
    PROVE  IInv'
  <1>1. Asked
    BY DEF Answer, IInv, Polling, Idle, Batch
  <1>2. DOMAIN readings \subseteq Events
    BY <1>1 DEF Answer, Asked
  <1>3. ASSUME NEW e \in DOMAIN readings
        PROVE  readings[e] \in Reading /\ Supported(e, readings[e], now)
    <2>1. e \in Events
      BY <1>2
    <2>2. CASE readings[e] = Parse(Blank)
      BY <2>2, ParseReading DEF Supported
    <2>3. CASE \E k \in poll.from[e] .. at[e] : readings[e] = Parse(Course[k])
      <3>1. PICK k \in poll.from[e] .. at[e] : readings[e] = Parse(Course[k])
        BY <2>3
      <3>2. /\ poll.from[e] \in 1 .. at[e] /\ at[e] \in 1 .. Len(Course)
            /\ Len(since[e]) = at[e] /\ since[e] \in Seq(Nat)
            /\ \A i \in 1 .. at[e] : since[e][i] <= now
            /\ \A i \in 1 .. at[e] : i > poll.from[e] => since[e][i] >= poll.started
            /\ poll.started \in Nat /\ now <= poll.started + MaxResponse
        BY <1>1, <2>1 DEF Asked, IInv, Types, Timeline
      <3>3. k \in 1 .. at[e] /\ k \in 1 .. Len(Course) /\ k \in Int
        BY <3>1, <3>2
      <3>4. readings[e] \in Reading
        BY <3>1, <3>3, ConstantsOK, ParseReading
      <3>5. k < at[e] => since[e][k + 1] >= now - MaxResponse
        <4> SUFFICES ASSUME k < at[e] PROVE since[e][k + 1] >= now - MaxResponse
          OBVIOUS
        <4>1. k + 1 \in 1 .. at[e] /\ k + 1 > poll.from[e]
          BY <3>1, <3>2, <3>3
        <4>2. since[e][k + 1] >= poll.started /\ since[e][k + 1] \in Nat
          BY <3>2, <4>1
        <4>3. now \in Nat /\ MaxResponse \in Nat
          BY ConstantsOK DEF IInv, Types
        <4> QED BY <3>2, <4>2, <4>3
      <3>6. since[e][k] <= now
        BY <3>2, <3>3
      <3> QED BY <3>1, <3>3, <3>4, <3>5, <3>6 DEF Supported, WasAt
    <2> QED BY <1>3, <2>1, <2>2, <2>3 DEF Answers
  <1>4. Batch'
    <2>1. /\ poll' = [phase |-> "batch", received |-> now, todo |-> DOMAIN readings,
                      readings |-> readings, writing |-> None]
          /\ UNCHANGED <<now, tracker, match>>
      BY DEF Answer
    <2>2. now \in Nat
      BY ConstantsOK DEF IInv, Types
    <2>3. \A e \in Events : latest[e] # None => latest[e].confirmed <= now
      BY DEF IInv, VisibleAt
    <2>4. \A e \in DOMAIN readings : Supported(e, readings[e], now)'
      BY <1>2, <1>3, <2>1, SupportLasts DEF Answer, IInv, Supported, WasAt, match
    <2> QED BY <1>2, <1>3, <2>1, <2>2, <2>3, <2>4 DEF Batch, tracker
  <1>5. \A e \in Events : PendingAt(e)'
    BY DEF Answer, IInv, PendingAt, tracker
  <1> QED BY <1>4, <1>5, TrackerUntouched DEF Answer, IInv, Polling

-----------------------------------------------------------------------------

\* The batch, as the steps that handle its events use it.
LEMMA BatchFacts ==
    ASSUME IInv, poll.phase = "batch"
    PROVE  Batch
  BY DEF IInv, Polling, Idle, Asked

\* An event the match says nothing new about, for a step that changes neither
\* its reading nor its time.
LEMMA VisibleKept ==
    ASSUME IInv, UNCHANGED match, now' \in Nat, now <= now',
           NEW e \in Events, VisibleAt(e),
           latest'[e] = latest[e], lastIdentity'[e] = lastIdentity[e],
           lastConfirmed'[e] = lastConfirmed[e],
           e \in mapped => e \in mapped',
           \A i \in DOMAIN clocks : i \in DOMAIN clocks' /\ clocks'[i] = clocks[i]
    PROVE  VisibleAt(e)'
  <1>1. Supported(e, latest[e].reading, latest[e].confirmed)' <=>
            Supported(e, latest'[e].reading, latest'[e].confirmed)
    BY DEF match, Supported, WasAt
  <1>2. latest[e] # None => latest[e].confirmed \in Nat
    BY DEF IInv, Types, Clock
  <1>3. now \in Nat
    BY DEF IInv, Types
  <1>4. latest[e] # None => latest'[e].confirmed <= now'
    BY <1>2, <1>3 DEF VisibleAt
  <1>5. Supported(e, latest[e].reading, latest[e].confirmed) =>
            Supported(e, latest[e].reading, latest[e].confirmed)'
    BY DEF match, Supported, WasAt
  <1> QED BY <1>1, <1>4, <1>5 DEF VisibleAt, match, Supported, WasAt

LEMMA ObserveKeeps ==
    ASSUME IInv, NEW e \in Events, Observe(e)
    PROVE  IInv'
  <1>1. /\ Batch /\ poll.writing = None /\ e \in poll.todo /\ e \in DOMAIN poll.readings
        /\ poll.readings[e] \in Reading /\ poll.received \in Nat /\ poll.received <= now
        /\ Supported(e, poll.readings[e], poll.received)
    BY BatchFacts DEF Observe, Batch
  <1>2. \A i \in Events : pending[i] = None
    BY <1>1, ConstantsOK DEF IInv, PendingAt
  <1>3. UNCHANGED <<now, milestones, clocks, match>>
    BY DEF Observe
  <1>4. CASE e \notin milestones
    <2>1. poll' = [poll EXCEPT !.todo = @ \ {e}] /\ UNCHANGED tracker
      BY <1>4 DEF Observe
    <2>2. Batch'
      BY <1>1, <1>3, <2>1 DEF Batch, tracker, match, Supported, WasAt
    <2>3. \A i \in Events : PendingAt(i)'
      BY <1>2, <2>1 DEF PendingAt, tracker
    <2> QED BY <1>3, <2>1, <2>2, <2>3, TrackerUntouched DEF IInv, Polling
  <1>5. CASE e \in milestones /\ Confirms(e, poll.readings[e])
    <2>1. /\ poll' = [poll EXCEPT !.todo = @ \ {e}]
          /\ latest' = [latest EXCEPT ![e] = [latest[e] EXCEPT !.confirmed = poll.received]]
          /\ lastConfirmed' = [lastConfirmed EXCEPT ![e] = poll.received]
          /\ mapped' = mapped /\ UNCHANGED <<lastIdentity, pending>>
      <3>1. mapped' = mapped
        BY <1>5 DEF Observe, IInv, Types
      <3>2. latest' = [latest EXCEPT ![e].confirmed = poll.received]
        BY <1>5 DEF Observe, Confirm
      <3> QED BY <1>5, <3>1, <3>2 DEF Observe, Confirm
    <2>2. /\ latest[e] # None /\ lastIdentity[e] = poll.readings[e]
          /\ latest[e] \in Clock /\ VisibleAt(e)
          /\ latest[e].confirmed <= poll.received
      BY <1>1, <1>5 DEF Confirms, IInv, Types, Batch
    <2>3. /\ latest'[e] \in Clock /\ latest'[e] # None
          /\ latest'[e].id = latest[e].id /\ latest'[e].reading = latest[e].reading
          /\ latest'[e].observed = latest[e].observed
          /\ latest'[e].confirmed = poll.received
          /\ \A i \in Events \ {e} : latest'[i] = latest[i]
          /\ latest' \in [Events -> Clock \cup {None}]
      BY <1>1, <2>1, <2>2, ConstantsOK DEF IInv, Types, Clock
    <2>4. Types' /\ Timeline'
      BY <1>1, <1>3, <2>1, <2>3 DEF IInv, Types, Timeline, match
    <2>5. VisibleAt(e)'
      <3>1. latest[e].observed <= poll.received
        BY <1>1, <2>2 DEF VisibleAt, Clock
      <3>2. latest'[e].reading = poll.readings[e]
        BY <2>2, <2>3 DEF VisibleAt
      <3>3. Supported(e, poll.readings[e], poll.received) =>
                Supported(e, latest'[e].reading, latest'[e].confirmed)
        BY <2>3, <3>2
      <3>4. (Supported(e, latest[e].reading, latest[e].confirmed))'
        BY <1>1, <1>3, <3>3 DEF match, Supported, WasAt
      <3>5. lastConfirmed'[e] = poll.received
        BY <2>1 DEF IInv, Types
      <3> QED BY <1>1, <1>3, <2>1, <2>2, <2>3, <3>1, <3>2, <3>4, <3>5 DEF VisibleAt
    <2>6. ASSUME NEW i \in Events, i # e PROVE VisibleAt(i)'
      <3>1. lastConfirmed'[i] = lastConfirmed[i] /\ latest'[i] = latest[i]
        BY <2>1, <2>3, <2>6 DEF IInv, Types
      <3>2. now' \in Nat /\ now <= now'
        BY <1>3 DEF IInv, Types
      <3> QED BY <1>3, <2>1, <3>1, <3>2, VisibleKept DEF IInv
    <2>7. Batch'
      <3>1. \A i \in Events : latest'[i] # None => latest'[i].confirmed <= poll.received
        BY <1>1, <2>3 DEF Batch
      <3> QED BY <1>1, <1>3, <2>1, <3>1 DEF Batch, match, Supported, WasAt
    <2>8. \A i \in Events : PendingAt(i)'
      BY <1>2, <2>1 DEF PendingAt
    <2> QED BY <2>4, <2>5, <2>6, <2>7, <2>8 DEF IInv, Polling
  <1>6. CASE e \in milestones /\ ~Confirms(e, poll.readings[e])
    <2>1. /\ poll' = [poll EXCEPT !.todo = @ \ {e}, !.writing = e]
          /\ pending' = [pending EXCEPT ![e] = Candidate(poll.readings[e], poll.received)]
          /\ mapped' = mapped /\ UNCHANGED <<latest, lastIdentity, lastConfirmed>>
      <3>1. e \in milestones /\ milestones = mapped
        BY <1>6 DEF IInv, Types
      <3>2. mapped' = mapped \cup {e} /\ Propose(e, poll.readings[e], poll.received)
        BY <1>6 DEF Observe
      <3>3. poll' = [poll EXCEPT !.todo = @ \ {e}, !.writing = e]
        BY <1>6 DEF Observe
      <3> QED BY <3>1, <3>2, <3>3 DEF Propose
    <2>2. Types' /\ Timeline'
      BY <1>1, <1>3, <2>1 DEF IInv, Types, Timeline, match, Candidate, Candidates
    <2>3. ASSUME NEW i \in Events PROVE VisibleAt(i)'
      BY <1>3, <2>1, VisibleKept DEF IInv, Types
    <2>4. Batch'
      BY <1>1, <1>3, <2>1 DEF Batch, match, Supported, WasAt
    <2>5. ASSUME NEW i \in Events PROVE PendingAt(i)'
      <3>1. /\ poll'.phase = "batch" /\ poll'.writing = e /\ poll'.readings = poll.readings
            /\ poll'.received = poll.received
        BY <1>1, <2>1 DEF Batch
      <3>2. e \in mapped'
        BY <1>6, <2>1 DEF IInv, Types
      <3>3. pending'[i] = IF i = e THEN Candidate(poll.readings[e], poll.received) ELSE None
        BY <1>2, <2>1 DEF IInv, Types
      <3> QED BY <3>1, <3>2, <3>3 DEF PendingAt, Candidate
    <2> QED BY <2>2, <2>3, <2>4, <2>5 DEF IInv, Polling
  <1> QED BY <1>4, <1>5, <1>6

\* The row exists, and its candidate becomes visible unless it was dropped.
LEMMA InsertReturnsKeeps ==
    ASSUME IInv, InsertReturns
    PROVE  IInv'
  <1>0. PICK e \in Events : e = poll.writing
    BY BatchFacts DEF InsertReturns, Batch
  <1> DEFINE row == [event |-> e, reading |-> poll.readings[e], observed |-> poll.received]
  <1>1. /\ Batch /\ e \in DOMAIN poll.readings
        /\ poll.readings[e] \in Reading /\ poll.received \in Nat /\ poll.received <= now
        /\ Supported(e, poll.readings[e], poll.received)
    BY <1>0, BatchFacts DEF InsertReturns, Batch
  <1>2. /\ poll' = [poll EXCEPT !.writing = None]
        /\ clocks' = Append(clocks, row) /\ Promote(e, Len(clocks) + 1)
        /\ UNCHANGED <<now, milestones, match>>
    BY <1>0 DEF InsertReturns
  <1>3. /\ clocks' \in Seq([event : Events, reading : Reading, observed : Nat])
        /\ Len(clocks) + 1 \in DOMAIN clocks' /\ clocks'[Len(clocks) + 1] = row
        /\ \A i \in DOMAIN clocks : i \in DOMAIN clocks' /\ clocks'[i] = clocks[i]
    BY <1>1, <1>2 DEF IInv, Types
  <1>4. ASSUME NEW i \in Events, i # e PROVE pending[i] = None
    BY <1>0, <1>4 DEF IInv, PendingAt
  <1>5. CASE pending[e] = None
    <2>1. UNCHANGED tracker
      BY <1>2, <1>5 DEF Promote
    <2>2. Types' /\ Timeline'
      BY <1>2, <1>3, <2>1 DEF IInv, Types, Timeline, tracker, match
    <2>3. ASSUME NEW i \in Events PROVE VisibleAt(i)'
      BY <1>2, <1>3, <2>1, VisibleKept DEF IInv, Types, tracker
    <2>4. Batch'
      BY <1>1, <1>2, <2>1 DEF Batch, tracker, match, Supported, WasAt
    <2>5. \A i \in Events : PendingAt(i)'
      BY <1>4, <1>5, <2>1 DEF PendingAt, tracker
    <2> QED BY <2>2, <2>3, <2>4, <2>5 DEF IInv, Polling
  <1>6. CASE pending[e] # None
    <2>1. pending[e] = Candidate(poll.readings[e], poll.received) /\ e \in mapped
      BY <1>1, <1>6 DEF IInv, PendingAt
    <2>2. /\ latest' = [latest EXCEPT ![e] =
                 [id |-> Len(clocks) + 1, reading |-> poll.readings[e],
                  observed |-> poll.received, confirmed |-> poll.received]]
          /\ lastIdentity' = [lastIdentity EXCEPT ![e] = poll.readings[e]]
          /\ lastConfirmed' = [lastConfirmed EXCEPT ![e] = poll.received]
          /\ pending' = [pending EXCEPT ![e] = None] /\ mapped' = mapped
      BY <1>2, <1>6, <2>1 DEF Promote, Candidate
    <2>3. Types' /\ Timeline'
      BY <1>1, <1>2, <1>3, <2>2 DEF IInv, Types, Timeline, match, Clock
    <2>4. /\ latest'[e] = [id |-> Len(clocks) + 1, reading |-> poll.readings[e],
                           observed |-> poll.received, confirmed |-> poll.received]
          /\ lastIdentity'[e] = poll.readings[e] /\ lastConfirmed'[e] = poll.received
          /\ latest'[e] # None /\ lastIdentity'[e] # None
      <3>1. /\ latest \in [Events -> Clock \cup {None}]
            /\ lastIdentity \in [Events -> Reading \cup {None}]
            /\ lastConfirmed \in [Events -> Nat \cup {None}]
            /\ clocks \in Seq([event : Events, reading : Reading, observed : Nat])
        BY DEF IInv, Types
      <3>2. [id |-> Len(clocks) + 1, reading |-> poll.readings[e],
             observed |-> poll.received, confirmed |-> poll.received] \in Clock
        BY <1>1, <3>1 DEF Clock
      <3>3. poll.readings[e] # None
        BY <1>1, ConstantsOK
      <3> QED BY <2>2, <3>1, <3>2, <3>3, ConstantsOK
    <2>5. VisibleAt(e)'
      <3>1. Supported(e, latest[e].reading, latest[e].confirmed)'
        BY <1>1, <1>2, <2>4 DEF match, Supported, WasAt
      <3> QED BY <1>1, <1>2, <1>3, <2>1, <2>2, <2>4, <3>1 DEF VisibleAt
    <2>6. ASSUME NEW i \in Events, i # e PROVE VisibleAt(i)'
      <3>1. /\ latest'[i] = latest[i] /\ lastIdentity'[i] = lastIdentity[i]
            /\ lastConfirmed'[i] = lastConfirmed[i]
        BY <2>2, <2>6 DEF IInv, Types
      <3> QED BY <1>2, <1>3, <2>2, <3>1, VisibleKept DEF IInv, Types
    <2>7. Batch'
      <3>1. \A i \in Events : latest'[i] # None => latest'[i].confirmed <= poll.received
        <4>1. \A i \in Events \ {e} : latest'[i] = latest[i]
          BY <2>2 DEF IInv, Types
        <4> QED BY <1>1, <2>4, <4>1 DEF Batch
      <3> QED BY <1>1, <1>2, <3>1 DEF Batch, match, Supported, WasAt
    <2>8. \A i \in Events : PendingAt(i)'
      BY <1>1, <1>4, <2>2 DEF PendingAt, IInv, Types
    <2> QED BY <2>3, <2>5, <2>6, <2>7, <2>8 DEF IInv, Polling
  <1> QED BY <1>5, <1>6

LEMMA InsertFailsKeeps ==
    ASSUME IInv, InsertFails
    PROVE  IInv'
  <1>1. /\ Batch /\ poll' = [poll EXCEPT !.writing = None]
        /\ pending' = [pending EXCEPT ![poll.writing] = None]
        /\ UNCHANGED <<now, milestones, clocks, match, mapped, latest, lastIdentity,
                       lastConfirmed>>
    BY BatchFacts DEF InsertFails, FailPersist
  <1>2. \A i \in Events : pending'[i] = None
    BY <1>1 DEF IInv, Types, PendingAt
  <1>3. Types' /\ Timeline'
    BY <1>1 DEF IInv, Types, Timeline, match
  <1>4. ASSUME NEW i \in Events PROVE VisibleAt(i)'
    BY <1>1, VisibleKept DEF IInv, Types
  <1>5. Batch'
    BY <1>1 DEF Batch, match, Supported, WasAt
  <1> QED BY <1>2, <1>3, <1>4, <1>5 DEF IInv, Polling, PendingAt

\* A dropped event is forgotten whole, its candidate with it.
LEMMA DropKeeps ==
    ASSUME IInv, NEW es, milestones' = milestones \ es, DropEvents(es),
           UNCHANGED <<now, poll, clocks, match>>
    PROVE  IInv'
  <1>1. \A i \in Events :
           /\ latest'[i] = IF i \in es THEN None ELSE latest[i]
           /\ lastIdentity'[i] = IF i \in es THEN None ELSE lastIdentity[i]
           /\ lastConfirmed'[i] = IF i \in es THEN None ELSE lastConfirmed[i]
           /\ pending'[i] = IF i \in es THEN None ELSE pending[i]
    BY DEF DropEvents, Forget
  <1>2. mapped' = mapped \ es
    BY DEF DropEvents
  <1>3. Types' /\ Timeline'
    BY <1>2 DEF IInv, Types, Timeline, match, DropEvents, Forget
  <1>4. ASSUME NEW i \in Events PROVE VisibleAt(i)'
    <2>1. CASE i \in es
      BY <1>1, <2>1 DEF VisibleAt
    <2>2. CASE i \notin es
      <3>1. /\ latest'[i] = latest[i] /\ lastIdentity'[i] = lastIdentity[i]
            /\ lastConfirmed'[i] = lastConfirmed[i] /\ (i \in mapped => i \in mapped')
        BY <1>1, <1>2, <2>2
      <3>2. now' \in Nat /\ now <= now' /\ VisibleAt(i)
        BY DEF IInv, Types
      <3> QED BY <3>1, <3>2, VisibleKept
    <2> QED BY <2>1, <2>2
  <1>5. Polling'
    <2>1. Asked => Asked'
      BY DEF Asked, match
    <2>2. Batch => Batch'
      BY <1>1 DEF Batch, match, Supported, WasAt
    <2> QED BY <2>1, <2>2 DEF IInv, Polling
  <1>6. \A i \in Events : PendingAt(i)'
    BY <1>1, <1>2 DEF IInv, PendingAt
  <1> QED BY <1>3, <1>4, <1>5, <1>6 DEF IInv

LEMMA ResolveKeeps ==
    ASSUME IInv, NEW e \in Events, Resolve(e)
    PROVE  IInv'
  <1>1. /\ mapped' = mapped \cup {e} /\ milestones' = milestones \cup {e}
        /\ UNCHANGED <<now, poll, latest, lastIdentity, pending, lastConfirmed, clocks, match>>
    BY DEF Resolve
  <1>2. Types' /\ Timeline'
    BY <1>1 DEF IInv, Types, Timeline, match
  <1>3. ASSUME NEW i \in Events PROVE VisibleAt(i)'
    BY <1>1, VisibleKept DEF IInv, Types
  <1>4. Polling'
    <2>1. Asked => Asked'
      BY <1>1 DEF Asked, match
    <2>2. Batch => Batch'
      BY <1>1 DEF Batch, match, Supported, WasAt
    <2> QED BY <1>1, <2>1, <2>2 DEF IInv, Polling
  <1>5. \A i \in Events : PendingAt(i)'
    BY <1>1 DEF IInv, PendingAt
  <1> QED BY <1>2, <1>3, <1>4, <1>5 DEF IInv

LEMMA TickKeeps ==
    ASSUME IInv, Tick
    PROVE  IInv'
  <1>1. /\ now \in Nat /\ now' = now + 1 /\ now' \in 0 .. MaxTime
        /\ UNCHANGED <<milestones, poll, tracker, clocks, match>>
    BY ConstantsOK DEF Tick, IInv, Types, observer
  <1>2. Types'
    BY <1>1 DEF IInv, Types, tracker, match
  <1>3. Timeline'
    BY <1>1 DEF IInv, Types, Timeline, match
  <1>4. ASSUME NEW i \in Events PROVE VisibleAt(i)'
    BY <1>1, VisibleKept DEF IInv, tracker
  <1>5. Polling'
    <2>1. Asked => Asked'
      BY <1>1, ConstantsOK DEF Tick, Asked, match
    <2>2. Batch => Batch'
      BY <1>1 DEF Batch, tracker, match, Supported, WasAt
    <2> QED BY <1>1, <2>1, <2>2 DEF IInv, Polling
  <1>6. \A i \in Events : PendingAt(i)'
    BY <1>1 DEF IInv, PendingAt, tracker
  <1> QED BY <1>2, <1>3, <1>4, <1>5, <1>6 DEF IInv

LEMMA RestartKeeps ==
    ASSUME IInv, Restart
    PROVE  IInv'
  <1>1. /\ latest' = [e \in Events |-> None] /\ lastIdentity' = latest'
        /\ pending' = latest' /\ lastConfirmed' = latest' /\ poll' = Idle
        /\ mapped' = {} /\ milestones' = {} /\ UNCHANGED <<now, clocks, match>>
    BY DEF Restart
  <1>2. Types' /\ Timeline'
    BY <1>1 DEF IInv, Types, Timeline, match
  <1> QED BY <1>1, <1>2 DEF IInv, Polling, VisibleAt, PendingAt

\* The match moves on: what was true of it by an earlier time still is, because
\* the new place is reached now.
LEMMA AdvanceKeeps ==
    ASSUME IInv, NEW m \in Events, Advance(m)
    PROVE  IInv'
  <1>1. /\ at' = [at EXCEPT ![m] = @ + 1] /\ since' = [since EXCEPT ![m] = Append(@, now)]
        /\ at[m] < Len(Course) /\ UNCHANGED <<now, milestones, poll, tracker, clocks>>
    BY DEF Advance, observer
  <1>2. /\ now \in Nat /\ at \in [Events -> Nat] /\ since \in [Events -> Seq(Nat)]
        /\ MaxResponse \in Nat /\ Course \in Seq(Reading)
    BY ConstantsOK DEF IInv, Types
  <1>3. ASSUME NEW e \in Events
        PROVE  /\ at'[e] \in 1 .. Len(Course) /\ at'[e] >= at[e]
               /\ at[e] \in 1 .. Len(Course)
               /\ since'[e] \in Seq(Nat) /\ Len(since'[e]) = at'[e]
               /\ \A k \in 1 .. at[e] : since'[e][k] = since[e][k] /\ since[e][k] <= now
               /\ \A k \in 1 .. at'[e] : k > at[e] => since'[e][k] = now
    <2>1. /\ at[e] \in 1 .. Len(Course) /\ Len(since[e]) = at[e] /\ since[e] \in Seq(Nat)
          /\ \A k \in 1 .. at[e] : since[e][k] <= now
      BY <1>2 DEF IInv, Timeline
    <2>2. CASE e = m
      <3>1. at'[e] = at[e] + 1 /\ since'[e] = Append(since[e], now)
        BY <1>1, <1>2, <2>2
      <3> QED BY <1>1, <1>2, <2>1, <2>2, <3>1
    <2>3. CASE e # m
      <3>1. at'[e] = at[e] /\ since'[e] = since[e]
        BY <1>1, <1>2, <2>3
      <3> QED BY <1>2, <2>1, <3>1
    <2> QED BY <2>2, <2>3
  <1>4. Timeline'
    BY <1>1, <1>2, <1>3 DEF Timeline
  <1>5. Types'
    <2>1. at' \in [Events -> Nat] /\ since' \in [Events -> Seq(Nat)]
      BY <1>1, <1>2
    <2> QED BY <1>1, <2>1 DEF IInv, Types, tracker
  <1>6. ASSUME NEW e \in Events, NEW r, NEW t \in Nat, t <= now, Supported(e, r, t)
        PROVE  /\ Supported(e, r, t)'
               /\ r.minute # None =>
                    \E k \in 1 .. at'[e] :
                        /\ Parse(Course[k]) = r /\ since'[e][k] <= t
                        /\ k < at'[e] => since'[e][k + 1] >= t - MaxResponse
    <2> SUFFICES ASSUME r.minute # None
                 PROVE  \E k \in 1 .. at'[e] :
                            /\ Parse(Course[k]) = r /\ since'[e][k] <= t
                            /\ k < at'[e] => since'[e][k + 1] >= t - MaxResponse
      BY DEF Supported, WasAt, Parse
    <2>1. PICK k \in 1 .. at[e] :
              /\ Parse(Course[k]) = r /\ since[e][k] <= t
              /\ k < at[e] => since[e][k + 1] >= t - MaxResponse
      BY <1>6 DEF Supported, WasAt
    <2>2. k \in 1 .. at'[e] /\ since'[e][k] <= t
      BY <1>3, <2>1
    <2>3. ASSUME k < at'[e] PROVE since'[e][k + 1] >= t - MaxResponse
      <3>1. k + 1 \in 1 .. at'[e] /\ k \in Nat /\ at[e] \in Nat
        BY <1>3, <2>1, <2>3
      <3>2. CASE k < at[e]
        <4>1. k + 1 \in 1 .. at[e]
          BY <3>1, <3>2
        <4> QED BY <1>3, <2>1, <3>2, <4>1
      <3>3. CASE k >= at[e]
        <4>1. since'[e][k + 1] = now
          BY <1>3, <3>1, <3>3
        <4> QED BY <1>2, <1>6, <4>1
      <3> QED BY <3>1, <3>2, <3>3
    <2> QED BY <2>1, <2>2, <2>3
  <1>7. ASSUME NEW e \in Events PROVE VisibleAt(e)'
    <2>1. VisibleAt(e) /\ latest' = latest /\ lastIdentity' = lastIdentity
          /\ lastConfirmed' = lastConfirmed /\ mapped' = mapped
      BY <1>1 DEF IInv, tracker
    <2>2. latest[e] # None => latest[e].confirmed \in Nat
      BY DEF IInv, Types, Clock
    <2>3. latest[e] # None => (Supported(e, latest[e].reading, latest[e].confirmed))'
      BY <1>6, <2>1, <2>2 DEF VisibleAt, Supported, WasAt
    <2> QED BY <1>1, <2>1, <2>3 DEF VisibleAt
  <1>8. Asked => Asked'
    <2> SUFFICES ASSUME Asked PROVE Asked'
      OBVIOUS
    <2>1. ASSUME NEW e \in Events
          PROVE  /\ poll.from[e] \in 1 .. at'[e]
                 /\ \A k \in 1 .. at'[e] : k > poll.from[e] => since'[e][k] >= poll.started
      <3>1. /\ poll.from[e] \in 1 .. at[e] /\ poll.started \in Nat /\ poll.started <= now
            /\ \A k \in 1 .. at[e] : k > poll.from[e] => since[e][k] >= poll.started
            /\ at[e] \in Nat /\ at'[e] \in Nat
        BY <1>2, <1>3 DEF Asked
      <3>2. ASSUME NEW k \in 1 .. at'[e], k > poll.from[e]
            PROVE  since'[e][k] >= poll.started
        <4>1. CASE k <= at[e]
          <5>1. k \in 1 .. at[e]
            BY <3>1, <3>2, <4>1
          <5> QED BY <1>3, <3>1, <3>2, <5>1
        <4>2. CASE k > at[e]
          BY <1>2, <1>3, <3>1, <4>2
        <4> QED BY <3>1, <3>2, <4>1, <4>2
      <3>3. poll.from[e] \in 1 .. at'[e]
        BY <1>3, <3>1
      <3> QED BY <3>2, <3>3
    <2> QED BY <1>1, <2>1 DEF Asked
  <1>9. Batch => Batch'
    <2> SUFFICES ASSUME Batch PROVE Batch'
      OBVIOUS
    <2>1. ASSUME NEW e \in DOMAIN poll.readings
          PROVE  (Supported(e, poll.readings[e], poll.received))'
      <3>1. /\ e \in Events /\ poll.received \in Nat /\ poll.received <= now
            /\ Supported(e, poll.readings[e], poll.received)
        BY <2>1 DEF Batch
      <3> QED BY <1>1, <1>6, <3>1 DEF Supported, WasAt
    <2> QED BY <1>1, <2>1 DEF Batch, tracker
  <1>10. \A e \in Events : PendingAt(e)'
    BY <1>1 DEF IInv, PendingAt, tracker
  <1> QED BY <1>1, <1>4, <1>5, <1>7, <1>8, <1>9, <1>10 DEF IInv, Polling

LEMMA NextKeeps == IInv /\ [Next]_vars => IInv'
  <1> SUFFICES ASSUME IInv, [Next]_vars PROVE IInv'
    OBVIOUS
  <1>1. CASE UNCHANGED vars
    BY <1>1, NothingTouched DEF vars, observer
  <1>2. CASE Ask
    BY <1>2, AskKeeps
  <1>3. CASE RequestFails
    BY <1>3, PollStopsKeeps DEF RequestFails
  <1>4. CASE PollEnds
    BY <1>4, PollStopsKeeps DEF PollEnds
  <1>5. CASE InsertReturns
    BY <1>5, InsertReturnsKeeps
  <1>6. CASE InsertFails
    BY <1>6, InsertFailsKeeps
  <1>7. ASSUME NEW es \in SUBSET poll.events,
               NEW readings \in [es -> UNION {Answers(e) : e \in es}],
               \A e \in es : readings[e] \in Answers(e), Answer(readings)
        PROVE  IInv'
    BY <1>7, AnswerKeeps
  <1>8. ASSUME NEW e \in Events, Observe(e) \/ Resolve(e) \/ Advance(e)
        PROVE  IInv'
    BY <1>8, ObserveKeeps, ResolveKeeps, AdvanceKeeps
  <1>9. CASE RoundStarts \/ RoundEnds
    BY <1>9, NothingTouched DEF RoundStarts, RoundEnds
  <1>10. CASE RoundDrops
    BY <1>10, DropKeeps DEF RoundDrops
  <1>11. ASSUME NEW es, Discover(es) PROVE IInv'
    BY <1>11, NothingTouched DEF Discover, observer
  <1>12. CASE Tick \/ Restart
    BY <1>12, TickKeeps, RestartKeeps
  <1> QED BY <1>1, <1>2, <1>3, <1>4, <1>5, <1>6, <1>7, <1>8, <1>9, <1>10, <1>11, <1>12
          DEF Next

\* The invariant holds in every run: what the tracker shows of an event agrees
\* with its row, and the match was there when it was confirmed.
THEOREM Invariance == Spec => []IInv
  BY InitIInv, NextKeeps, PTL DEF Spec

\* What an accepted signal tells: the visible row is older than the signal and
\* was confirmed within the age limit before it.
LEMMA AcceptedFacts ==
    ASSUME IInv, NEW e \in Events, NEW ts \in Int, Accepts(e, ts)
    PROVE  /\ latest[e] # None /\ VisibleAt(e) /\ latest[e] \in Clock
           /\ latest[e].reading.minute # None
           /\ latest[e].observed <= latest[e].confirmed
           /\ latest[e].confirmed <= ts /\ ts - latest[e].confirmed <= MaxAge
  <1>1. /\ latest[e] # None
        /\ Gate(latest[e].reading, GateAge(latest[e], ts)) = "88_plus"
    BY DEF Accepts, GateOutcome
  <1>2. VisibleAt(e) /\ latest[e] \in Clock
    BY <1>1 DEF IInv, Types
  <1>3. /\ latest[e].reading.minute # None
        /\ ~(GateAge(latest[e], ts) < 0) /\ ~(GateAge(latest[e], ts) > MaxAge)
    BY <1>1 DEF Gate, Status
  <1>4. latest[e].observed \in Nat /\ latest[e].confirmed \in Nat
        /\ latest[e].observed <= latest[e].confirmed
    BY <1>1, <1>2 DEF Clock, VisibleAt
  <1>5. GateAge(latest[e], ts) = ts - latest[e].confirmed
    BY <1>4 DEF GateAge
  <1>6. latest[e].confirmed <= ts /\ ts - latest[e].confirmed <= MaxAge
    BY <1>3, <1>4, <1>5, ConstantsOK
  <1> QED BY <1>1, <1>2, <1>3, <1>4, <1>6

\* Types, and every candidate belongs to the insert in flight
\* (match_clock.py:558-663).
THEOREM TypeCorrect == Spec => []TypeOK
  <1>1. IInv => TypeOK
    <2> SUFFICES ASSUME IInv PROVE TypeOK
      OBVIOUS
    <2>1. ASSUME NEW e \in Events
          PROVE  /\ latest[e] # None => e \in mapped /\ latest[e] \in Clock
                 /\ latest[e] = None <=> lastIdentity[e] = None
                 /\ pending[e] # None => /\ poll.phase = "batch" /\ poll.writing = e
                                         /\ pending[e].reading \in Reading
      <3>1. pending[e] # None => pending[e].reading \in Reading
        BY DEF IInv, Types, Candidates
      <3>2. pending[e] # None => poll.phase = "batch" /\ poll.writing = e
        BY DEF IInv, PendingAt
      <3>3. /\ latest[e] # None => e \in mapped /\ latest[e] \in Clock
            /\ latest[e] = None <=> lastIdentity[e] = None
        BY DEF IInv, Types, VisibleAt
      <3> QED BY <3>1, <3>2, <3>3
    <2> QED BY <2>1 DEF IInv, Types, TypeOK
  <1> QED BY <1>1, Invariance, PTL

\* An accepted signal can be reconciled with its row, for any events, failures
\* and remappings (match_clock.py:558-594, 700-718).
THEOREM AcceptedSignalsHaveLineage == Spec => []AcceptedHasLineage
  <1>1. IInv => AcceptedHasLineage
    <2> SUFFICES ASSUME IInv, NEW e \in Events, NEW ts \in Arrivals, Accepts(e, ts)
                 PROVE  /\ latest[e].id \in DOMAIN clocks
                        /\ clocks[latest[e].id] =
                              [event |-> e, reading |-> latest[e].reading,
                               observed |-> latest[e].observed]
                        /\ latest[e].observed <= ts
      BY DEF AcceptedHasLineage
    <2>1. ts \in Int
      BY DEF Arrivals
    <2>2. /\ latest[e] # None /\ VisibleAt(e) /\ latest[e] \in Clock
          /\ latest[e].observed <= latest[e].confirmed /\ latest[e].confirmed <= ts
      BY <2>1, AcceptedFacts
    <2> QED BY <2>1, <2>2 DEF VisibleAt, Clock
  <1> QED BY <1>1, Invariance, PTL

\* A stale clock admits a signal only shortly after the match has moved on: the
\* age limit and the time of an answer, whatever they are
\* (match_clock.py:350-404, 436-527).
THEOREM AcceptedSignalsAreCurrent == Spec => []AcceptedIsCurrent
  <1>1. IInv => AcceptedIsCurrent
    <2> SUFFICES ASSUME IInv, NEW e \in Events, NEW ts \in Arrivals, Accepts(e, ts)
                 PROVE  \E k \in 1 .. at[e] :
                            /\ Parse(Course[k]) = latest[e].reading /\ since[e][k] <= ts
                            /\ k < at[e] => since[e][k + 1] >= ts - MaxAge - MaxResponse
      BY DEF AcceptedIsCurrent
    <2>1. ts \in Int
      BY DEF Arrivals
    <2>2. /\ latest[e] # None /\ VisibleAt(e) /\ latest[e] \in Clock
          /\ latest[e].reading.minute # None
          /\ latest[e].confirmed <= ts /\ ts - latest[e].confirmed <= MaxAge
      BY <2>1, AcceptedFacts
    <2>3. PICK k \in 1 .. at[e] :
              /\ Parse(Course[k]) = latest[e].reading
              /\ since[e][k] <= latest[e].confirmed
              /\ k < at[e] => since[e][k + 1] >= latest[e].confirmed - MaxResponse
      BY <2>2 DEF VisibleAt, Supported, WasAt
    <2>4. /\ latest[e].confirmed \in Nat /\ MaxAge \in Nat /\ MaxResponse \in Nat
          /\ at[e] \in Nat /\ since[e] \in Seq(Nat) /\ Len(since[e]) = at[e]
      BY <2>2, ConstantsOK DEF IInv, Types, Timeline, Clock
    <2>5. since[e][k] \in Nat /\ since[e][k] <= ts
      BY <2>1, <2>2, <2>3, <2>4
    <2>6. ASSUME k < at[e] PROVE since[e][k + 1] >= ts - MaxAge - MaxResponse
      <3>1. k + 1 \in DOMAIN since[e]
        BY <2>4, <2>6
      <3>2. since[e][k + 1] \in Nat
        BY <2>4, <3>1
      <3>3. since[e][k + 1] >= latest[e].confirmed - MaxResponse
        BY <2>3, <2>6
      <3>4. latest[e].confirmed >= ts - MaxAge
        BY <2>1, <2>2, <2>4
      <3> QED BY <2>1, <2>4, <3>2, <3>3, <3>4
    <2> QED BY <2>3, <2>5, <2>6
  <1> QED BY <1>1, Invariance, PTL

\* The freshness the dashboard shows and the one the gate uses never disagree,
\* though they are read from two maps (match_clock.py:436-527, 720-835).
THEOREM CoverageAndGateAgree == Spec => []CoverageAgreesWithGate
  <1>1. IInv => CoverageAgreesWithGate
    <2> SUFFICES ASSUME IInv, NEW e \in Events
                 PROVE  /\ ClockPresent(e) /\ GateOutcome(e, now) \in {"pre_88", "88_plus"}
                              => ClockFresh(e)
                        /\ ClockFresh(e) => GateOutcome(e, now) \notin
                              {"stale", "future", "unmapped", "unpersisted", "missing"}
      BY DEF CoverageAgreesWithGate
    <2> SUFFICES ASSUME ClockPresent(e)
                 PROVE  /\ GateOutcome(e, now) \in {"pre_88", "88_plus"} => ClockFresh(e)
                        /\ ClockFresh(e) => GateOutcome(e, now) \notin
                              {"stale", "future", "unmapped", "unpersisted", "missing"}
      BY DEF ClockFresh
    <2> DEFINE r   == latest[e].reading
               age == now - latest[e].confirmed
    <2>1. /\ latest[e] # None /\ latest[e] \in Clock /\ VisibleAt(e) /\ e \in mapped
          /\ r.minute # None /\ r \in Reading /\ now \in Nat
      BY DEF ClockPresent, IInv, Types, VisibleAt, Clock
    <2>2. /\ lastConfirmed[e] = latest[e].confirmed /\ lastConfirmed[e] # None
          /\ latest[e].confirmed \in Nat /\ latest[e].observed \in Nat
          /\ latest[e].observed <= latest[e].confirmed /\ age \in Int
      BY <2>1, ConstantsOK DEF VisibleAt, Clock
    <2>3. ~(latest[e].id <= 0)
      BY <2>1 DEF VisibleAt, IInv, Types
    <2>4. GateAge(latest[e], now) = age
      BY <2>1, <2>2 DEF GateAge
    <2>5. GateOutcome(e, now) = Gate(r, age)
      BY <2>1, <2>3, <2>4 DEF GateOutcome
    <2>6. ClockFresh(e) <=> ~(age < 0) /\ ~(age > MaxAge)
      BY <2>2, ConstantsOK DEF ClockFresh
    <2>7. ASSUME age < 0 \/ age > MaxAge PROVE Gate(r, age) \notin {"pre_88", "88_plus"}
      BY <2>7 DEF Gate, Status
    <2>8. ~(age < 0) /\ ~(age > MaxAge) =>
              Gate(r, age) \notin {"stale", "future", "unmapped", "unpersisted", "missing"}
      BY <2>1 DEF Gate, Status
    <2> QED BY <2>5, <2>6, <2>7, <2>8
  <1> QED BY <1>1, Invariance, PTL
=============================================================================
