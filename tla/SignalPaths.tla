---------------------------- MODULE SignalPaths ----------------------------
(***************************************************************************)
(* The forward paths of app/engine.py: after every signal the held-side    *)
(* price is recorded for a bounded window, buffered in memory by a watch,  *)
(* and written to bid_path_samples by worker threads while the event loop  *)
(* goes on.  The functions of app/store.py they call are one transaction   *)
(* each.                                                                   *)
(*                                                                         *)
(* A row is its sample_seq: which quotes deserve a row (an unchanged or a  *)
(* thinned one does not) is the choice of BookFrame.  A write is three     *)
(* steps: the loop captures the rows and dispatches it, a worker commits   *)
(* or fails, and the callback runs on the loop.  The loop that runs the    *)
(* feed is always there, so the inline branch of _dispatch_path_write,     *)
(* which only the synchronous tests take, is left out; with it go          *)
(* finalizing, which then holds exactly while a finalisation is in flight, *)
(* and scheduled_release, which then holds in every one of them.           *)
(***************************************************************************)
EXTENDS Integers, Sequences, FiniteSets, SequencesExt

CONSTANTS
    Signals,     \* rows of the signals table
    MaxTracked,  \* config.SIGNAL_PATH_MAX_TRACKED
    FlushEvery,  \* paper.BID_PATH_FLUSH_EVERY
    MaxSamples,  \* store.BID_PATH_MAX_SAMPLES
    MaxQuotes,   \* bound: quotes that deserve a row, per signal
    MaxFaults,   \* bound: writes that fail
    MaxCrashes   \* bound: abnormal stops

ASSUME ConstantsOK ==
    /\ MaxTracked \in Nat /\ MaxQuotes \in Nat
    /\ FlushEvery \in Nat \ {0} /\ MaxSamples \in Nat \ {0}
    /\ MaxFaults \in Nat /\ MaxCrashes \in Nat

VARIABLES
    started,    \* signals with forward_path_started_ts, in id order
    watches,    \* Engine._signal_paths
    ended,      \* signals whose expires_at has passed
    failed,     \* Engine._signal_path_failed_owners
    fault,      \* Engine.signal_path_fault is set
    durable,    \* bid_path_samples: signal -> sample_seqs
    finalized,  \* signals.forward_path_finalized and what it says of the path
    up,         \* the process runs
    ticking,    \* Engine.periodic_task has not ended
    offered,    \* history: quotes offered to a signal's watch
    lost,       \* history: signals a crash left without their watch
    finals,     \* history: finalisations committed per signal
    faults, crashes

loop     == <<watches, failed, fault>>
database == <<started, durable, finalized>>
process  == <<up, ticking>>
history  == <<offered, lost, finals>>
budget   == <<faults, crashes>>
vars     == <<loop, database, ended, process, history, budget>>

Labels == {"no", "complete", "truncated", "incomplete"}

Watch == [sig : Signals, rows : Seq(Nat), total : Nat, dropped : Nat,
          retry : BOOLEAN,                        \* retry_only
          flight : {"none", "flush", "final"},    \* in_flight, and on what
          sent : Seq(Nat),                        \* rows captured by the write
          answer : {"none", "ok", "failed"}]      \* what the worker did

NewWatch(s, retry) ==
    [sig |-> s, rows |-> <<>>, total |-> 0, dropped |-> 0, retry |-> retry,
     flight |-> "none", sent |-> <<>>, answer |-> "none"]

Watched(s) == \E i \in DOMAIN watches : watches[i].sig = s

Init ==
    /\ started = <<>> /\ watches = <<>> /\ ended = {}
    /\ failed = {} /\ fault = FALSE
    /\ durable = [s \in Signals |-> {}]
    /\ finalized = [s \in Signals |-> "no"]
    /\ up = TRUE /\ ticking = TRUE
    /\ offered = [s \in Signals |-> 0]
    /\ lost = {}
    /\ finals = [s \in Signals |-> 0]
    /\ faults = 0 /\ crashes = 0

-----------------------------------------------------------------------------
(***************************************************************************)
(* The event loop                                                          *)
(***************************************************************************)

\* _mark_signal_path_success: the fault stays while another owner's write failed.
MarkSuccess(s) ==
    /\ failed' = failed \ {s}
    /\ fault' = (fault /\ failed \ {s} # {})

\* _mark_signal_path_failure, for the watches of the signals S.
MarkFailure(S) == failed' = failed \cup S /\ fault' = (fault \/ S # {})

\* _dispatch_path_write: the rows now buffered go to a worker.
Dispatch(w, kind) == [w EXCEPT !.flight = kind, !.sent = w.rows, !.answer = "none"]

\* Mutant: a write that is still running is dispatched again.
DispatchAgain(w) == Dispatch(w, "final")

\* Mutant: an owner whose write failed is not retried.
FinalizeUnfailed(w) ==
    IF w.flight = "none" /\ w.sig \notin failed THEN Dispatch(w, "final") ELSE w

\* _finalize_signal_path: refused while a write is in flight.
Finalize(w) == IF w.flight = "none" THEN Dispatch(w, "final") ELSE w

\* _flush_signal_path, called once FlushEvery rows are buffered.
Flush(w) ==
    IF Len(w.rows) >= FlushEvery /\ w.flight = "none"
    THEN Dispatch(w, "flush") ELSE w

\* Mutant: a watch that is being finalised goes on recording.
RecordAlways(w) ==
    IF w.retry THEN w
    ELSE IF w.total >= MaxSamples - 1 THEN [w EXCEPT !.dropped = @ + 1]
    ELSE Flush([w EXCEPT !.total = @ + 1, !.rows = Append(@, w.total + 1)])

\* Mutant: no slot is reserved.
RecordUnreserved(w) ==
    IF w.retry \/ w.flight = "final" THEN w
    ELSE IF w.total >= MaxSamples THEN [w EXCEPT !.dropped = @ + 1]
    ELSE Flush([w EXCEPT !.total = @ + 1, !.rows = Append(@, w.total + 1)])

\* One quote that deserves a row: the cap keeps one slot free and counts what
\* it drops; a full buffer is flushed.
Record(w) ==
    IF w.retry \/ w.flight = "final" THEN w
    ELSE IF w.total >= MaxSamples - 1 THEN [w EXCEPT !.dropped = @ + 1]
    ELSE Flush([w EXCEPT !.total = @ + 1, !.rows = Append(@, w.total + 1)])

\* _release_finalized(0).  The watch stays in place until its write is done,
\* so the while loops around it stop after the first release.
ReleaseHead(ws) == IF ws = <<>> THEN ws ELSE [ws EXCEPT ![1] = Finalize(@)]

\* Only the head is looked at.  A watch rebuilt at startup is always due.
Expire(ws) ==
    IF ws # <<>> /\ (Head(ws).retry \/ Head(ws).sig \in ended)
    THEN ReleaseHead(ws) ELSE ws

Evict(ws) == IF Len(ws) > MaxTracked THEN ReleaseHead(ws) ELSE ws

\* record_signal has inserted the signal; _watch_signal_forward.
StartWatch(s) ==
    /\ up /\ ~Contains(started, s)
    /\ started' = Append(started, s)
    /\ watches' = Evict(Append(watches, NewWatch(s, FALSE)))
    /\ UNCHANGED <<failed, fault, durable, finalized, ended, process, history, budget>>

\* The latency sample between the insert and the watch fails and its exception
\* leaves record_signal: a started path that nobody watches.  It ends the
\* periodic task if that was the caller.
StartInterrupted(s) ==
    /\ up /\ ~Contains(started, s) /\ faults < MaxFaults
    /\ started' = Append(started, s)
    /\ lost' = lost \cup {s}
    /\ faults' = faults + 1
    /\ ticking' \in {ticking, FALSE}
    /\ UNCHANGED <<loop, durable, finalized, ended, up, offered, finals, crashes>>

\* on_book: the watches S record the new quote, then the head may expire.
BookFrame(S) ==
    LET takes(w) == w.sig \in S /\ ~w.retry /\ w.flight # "final" IN
    /\ up
    /\ \A s \in S : Watched(s) /\ offered[s] < MaxQuotes
    /\ watches' = Expire([i \in DOMAIN watches |->
           IF watches[i].sig \in S THEN Record(watches[i]) ELSE watches[i]])
    /\ offered' = [s \in Signals |->
           offered[s] + (IF \E i \in DOMAIN watches :
                                watches[i].sig = s /\ takes(watches[i])
                         THEN 1 ELSE 0)]
    /\ UNCHANGED <<failed, fault, database, ended, process, lost, finals, budget>>

\* periodic_task: expiry without a frame.
PeriodicTick ==
    /\ up /\ ticking
    /\ watches' = Expire(watches) /\ watches' # watches
    /\ UNCHANGED <<failed, fault, database, ended, process, history, budget>>

\* Another step of its body raises (a failed record_signal, a failed telemetry
\* write).  Nothing catches it and nothing starts the task again: until the next
\* restart only frames expire a path.
PeriodicDies ==
    /\ up /\ ticking /\ faults < MaxFaults
    /\ ticking' = FALSE
    /\ faults' = faults + 1
    /\ UNCHANGED <<loop, database, ended, up, history, crashes>>

\* SIGNAL_PATH_WINDOW_S after the candidate; a signal recorded late (an
\* unconfirmed one) is due before the watches ahead of it.
WindowEnds(s) ==
    /\ s \notin ended /\ Contains(started, s)
    /\ ended' = ended \cup {s}
    /\ UNCHANGED <<loop, database, process, history, budget>>

-----------------------------------------------------------------------------
(***************************************************************************)
(* Writes                                                                  *)
(***************************************************************************)

Waiting(i) == up /\ watches[i].flight # "none" /\ watches[i].answer = "none"

\* What finalize_signal_path writes beside the marker.
Label(w) ==
    IF w.retry THEN "incomplete"            \* in_memory_tail_lost_on_restart
    ELSE IF w.dropped > 0 THEN "truncated" ELSE "complete"

\* Rows already durable are proven identical and skipped; a batch that would
\* exceed the cap is refused before the insert.
Fits(w) == Cardinality(durable[w.sig] \cup ToSet(w.sent)) <= MaxSamples

\* insert_bid_path or finalize_signal_path commits on a worker thread.
WorkerCommits(i) ==
    LET w == watches[i] IN
    /\ Waiting(i) /\ Fits(w)
    /\ watches' = [watches EXCEPT ![i].answer = "ok"]
    /\ durable' = [durable EXCEPT ![w.sig] = @ \cup ToSet(w.sent)]
    /\ IF w.flight = "final"
       THEN /\ finalized' = [finalized EXCEPT ![w.sig] = Label(w)]
            /\ finals' = [finals EXCEPT ![w.sig] = @ + 1]
       ELSE UNCHANGED <<finalized, finals>>
    /\ UNCHANGED <<failed, fault, started, ended, process, offered, lost, budget>>

\* The transaction is rolled back.
WorkerFails(i) ==
    /\ Waiting(i)
    /\ IF Fits(watches[i]) THEN faults < MaxFaults /\ faults' = faults + 1
                           ELSE UNCHANGED faults
    /\ watches' = [watches EXCEPT ![i].answer = "failed"]
    /\ UNCHANGED <<failed, fault, database, ended, process, history, crashes>>

\* Mutant: the buffer is cleared, with the rows appended while the write ran.
KeptNone(w) == <<>>

\* The buffer without the rows that are now durable.
Kept(w) == SubSeq(w.rows, Len(w.sent) + 1, Len(w.rows))

\* done(exc): a failure keeps the rows and the owner, a flush drops what is
\* durable, a finalisation drops the watch.
WriteDone(i) ==
    LET w    == watches[i]
        idle == [w EXCEPT !.flight = "none", !.sent = <<>>, !.answer = "none"] IN
    /\ up /\ w.answer # "none"
    /\ IF w.answer = "failed"
       THEN /\ MarkFailure({w.sig})
            /\ watches' = [watches EXCEPT ![i] = idle]
       ELSE /\ MarkSuccess(w.sig)
            /\ watches' = IF w.flight = "final" THEN RemoveAt(watches, i)
                          ELSE [watches EXCEPT ![i] = [idle EXCEPT !.rows = Kept(w)]]
    /\ UNCHANGED <<database, ended, process, history, budget>>

-----------------------------------------------------------------------------
(***************************************************************************)
(* Restart                                                                 *)
(***************************************************************************)

\* unfinalized_signal_paths.
Unfinalized == {s \in ToSet(started) : finalized[s] = "no"}

\* Signals in the order of their rows.
InIdOrder(q) ==
    \A i, j \in DOMAIN q : i < j =>
        \E k, l \in DOMAIN started : k < l /\ started[k] = q[i] /\ started[l] = q[j]

\* An abnormal stop: what a worker had not committed is gone.
Crash ==
    /\ up /\ crashes < MaxCrashes
    /\ up' = FALSE /\ ticking' = FALSE
    /\ crashes' = crashes + 1
    /\ watches' = <<>> /\ failed' = {} /\ fault' = FALSE
    /\ lost' = lost \cup Unfinalized
    /\ UNCHANGED <<database, ended, offered, finals, faults>>

\* rebuild_signal_paths: every unfinalised path is finalised inline; those
\* whose write fails (F) keep, in id order, a watch that only retries.
Restart(F) ==
    LET closed == Unfinalized \ F IN
    /\ ~up /\ F \subseteq Unfinalized
    /\ faults + Cardinality(F) <= MaxFaults
    /\ faults' = faults + Cardinality(F)
    /\ up' = TRUE /\ ticking' = TRUE
    /\ finalized' = [s \in Signals |->
           IF s \in closed THEN Label(NewWatch(s, TRUE)) ELSE finalized[s]]
    /\ finals' = [s \in Signals |-> finals[s] + (IF s \in closed THEN 1 ELSE 0)]
    /\ \E fails \in [1 .. Cardinality(F) -> F] :
           /\ InIdOrder(fails)
           /\ watches' = [i \in DOMAIN fails |-> NewWatch(fails[i], TRUE)]
    /\ MarkFailure(F)
    /\ UNCHANGED <<started, durable, ended, offered, lost, crashes>>

Next ==
    \/ \E s \in Signals : StartWatch(s) \/ StartInterrupted(s) \/ WindowEnds(s)
    \/ \E S \in SUBSET Signals : BookFrame(S) \/ Restart(S)
    \/ PeriodicTick \/ PeriodicDies
    \/ \E i \in DOMAIN watches : WorkerCommits(i) \/ WorkerFails(i) \/ WriteDone(i)
    \/ Crash

\* Windows end, the periodic task ticks while it lives, workers answer, callbacks
\* run and a stopped process is restarted by its supervisor.  No frame has to
\* come.
Fairness ==
    /\ \A s \in Signals : WF_vars(WindowEnds(s))
    /\ WF_vars(PeriodicTick)
    /\ WF_vars(\E i \in DOMAIN watches :
                   WorkerCommits(i) \/ WorkerFails(i) \/ WriteDone(i))
    /\ WF_vars(\E F \in SUBSET Signals : Restart(F))

Spec == Init /\ [][Next]_vars /\ Fairness
-----------------------------------------------------------------------------
(***************************************************************************)
(* Properties                                                              *)
(***************************************************************************)

\* Types: the tracker holds watches of started signals, each at most once.
TypeOK ==
    /\ IsInjective(started) /\ ToSet(started) \subseteq Signals
    /\ \A i \in DOMAIN watches : watches[i] \in Watch
    /\ ended \subseteq ToSet(started) /\ lost \subseteq ToSet(started)
    /\ failed \subseteq Signals /\ fault = (failed # {})
    /\ up \in BOOLEAN /\ ticking \in BOOLEAN /\ (ticking => up)
    /\ \A s \in Signals : durable[s] \subseteq 1 .. MaxSamples - 1
    /\ finalized \in [Signals -> Labels]
    /\ offered \in [Signals -> 0 .. MaxQuotes]
    /\ faults <= MaxFaults /\ crashes <= MaxCrashes

\* A recorded row is in the buffer until it is durable, through flushes that
\* overlap with recording, failed writes and their retries: the rows on disk
\* and in the buffer are exactly the recorded ones, in order (done of
\* _flush_signal_path and _finalize_signal_path).
RowsAreOwned ==
    \A i \in DOMAIN watches :
        LET w == watches[i]
            flushed == w.total - Len(w.rows) IN
        /\ w.rows = [k \in 1 .. Len(w.rows) |-> flushed + k]
        /\ ~w.retry => durable[w.sig] =
               1 .. flushed + (IF w.answer = "ok" THEN Len(w.sent) ELSE 0)

\* What the finalised marker says of a path is true: complete means that every
\* quote the watch was offered is on disk, truncated that some were dropped at
\* the cap, incomplete that a stop took the watch, and nothing else does.
LabelsAreTrue ==
    \A s \in Signals :
        /\ finalized[s] = "complete" => durable[s] = 1 .. offered[s]
        /\ finalized[s] = "truncated" => Cardinality(durable[s]) < offered[s]
        /\ finalized[s] # "no" => (finalized[s] = "incomplete" <=> s \in lost)

\* Exactly one finalisation of a path reaches the database, whoever asks
\* (frames, ticks, eviction and restarts), and the tracker releases a watch
\* only then: an unfinalised path that a crash did not orphan has its watch.
OneFinalization ==
    \A s \in ToSet(started) :
        /\ finals[s] = IF finalized[s] = "no" THEN 0 ELSE 1
        /\ up /\ finalized[s] = "no" /\ s \notin lost => Watched(s)

\* Every watched path is finalised in the end, through failed writes, paths
\* that block the head of the tracker, and a crash, unless the periodic task is
\* dead for good.
PathsAreFinalized ==
    \A s \in Signals :
        (Watched(s) ~> finalized[s] # "no") \/ <>[]~ticking

\* Not kept: once the periodic task has ended and no frame comes, a path is not
\* finalised (README, Known departures).
EveryPathIsFinalized == \A s \in Signals : Watched(s) ~> finalized[s] # "no"
=============================================================================
