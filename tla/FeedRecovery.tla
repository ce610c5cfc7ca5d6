---------------------------- MODULE FeedRecovery ----------------------------
(***************************************************************************)
(* Order-book recovery of the exchange feed: the reader, the consumer, the *)
(* bounded arrival queue and set_markets of app/kalshi.py (KalshiWS), the  *)
(* sequence check of app/sequence.py, and what app/engine.py does to       *)
(* Book.ok when a frame or an orderbook_gap reaches it.                    *)
(*                                                                         *)
(* The coroutines share one lock (_lock).  What runs between two awaits is *)
(* one step; a coroutine that has to await the lock is a state of its own  *)
(* (held, gapFound, wanted).  That state is entered even when the lock is  *)
(* free, which only adds interleavings.                                    *)
(*                                                                         *)
(* Abstractions: a sequence number shows only as "a number is missing      *)
(* before this frame": a frame carries the markets whose deltas the        *)
(* exchange skipped just before it, and hole says that the last frames     *)
(* taken from the head of the queue were discarded.  A connection has one  *)
(* order-book subscription; trades, lifecycle frames and frames that       *)
(* cannot be parsed are left out, and so is request_snapshot, which the    *)
(* engine calls only for a delta that Book.apply_delta refuses: with       *)
(* sequence_validated=True it refuses none.  missed is history.           *)
(***************************************************************************)
EXTENDS Naturals, Sequences, FiniteSets

CONSTANTS
    Markets,
    QueueMax,        \* config.WS_QUEUE_MAX
    MaxDrops,        \* bound: frames the full queue discards
    MaxFaults,       \* bound: deltas the exchange skips, connections that end
    MaxReconciles    \* bound: calls of set_markets by discovery

ASSUME ConstantsOK ==
    /\ QueueMax \in Nat \ {0}
    /\ MaxDrops \in Nat /\ MaxFaults \in Nat /\ MaxReconciles \in Nat

VARIABLES
    connected,
    stalled,         \* the stall guard has emptied the queue and closes
    subscribed,      \* _subscribed
    sid,             \* _orderbook_sid is known: the ack was consumed
    tracked,         \* the subscription has a last sequence number
    recovering,      \* _recovering_orderbooks of the subscription
    gapAt,           \* _gap_recovery_at: "none", "recent" or "old"
    overflowMarkets, \* _overflow_markets
    queue,           \* the arrival queue
    hole,            \* a book frame was discarded since the one tracked last
    held,            \* reader: the frame it puts after disclosing a discard
    dropped,         \* reader: the markets of that disclosure
    gapFound,        \* consumer: a gap waits for _recover_orderbook
    wanted,          \* set_markets holds the lock for these: {} or {tickers}
    bookOk,          \* Book.ok of the engine's books
    xsubs,           \* exchange: the markets it sends
    ackOwed,         \* exchange: the 'subscribed' frame is still to come
    asked,           \* exchange: snapshots it owes, per market
    opened,          \* exchange: markets whose first snapshot was sent
    skipped,         \* exchange: markets of deltas skipped since the last frame
    missed,          \* history: what a book lacks, "no", "lost" or "away"
    drops, faults, reconciles

link     == <<connected, stalled>>
reader   == <<queue, hole, held, dropped>>
recovery == <<recovering, gapAt, overflowMarkets>>
exchange == <<xsubs, ackOwed, asked, opened, skipped>>
bounds   == <<drops, faults, reconciles>>
vars == <<link, subscribed, sid, tracked, recovery, reader, gapFound,
          wanted, bookOk, exchange, missed, bounds>>

BookFrame == [type: {"snapshot", "delta"}, market: Markets,
              lost: SUBSET Markets]
Ack       == [type |-> "ack", lost |-> {}]
Frame     == BookFrame \cup [type: {"ack"}, lost: SUBSET Markets]
IsBook(f) == f.type # "ack"
locked == wanted # {}

\* The deltas that are gone when f is not applied.
LostWith(f) == f.lost \cup (IF f.type = "delta" THEN {f.market} ELSE {})

\* A book is "away" until a snapshot of the stream that now runs is applied to
\* it; from then on it is "lost" once a delta of that stream was missed.
Lost(ms) == [m \in Markets |-> IF m \in ms /\ missed[m] = "no" THEN "lost"
                                                             ELSE missed[m]]
Away(ms) == [m \in Markets |-> IF m \in ms THEN "away" ELSE missed[m]]

\* What every connection starts with; asked is what set_markets(subs) sends.
Init ==
    /\ connected = TRUE /\ stalled = FALSE
    /\ subscribed = Markets
    /\ sid = FALSE /\ tracked = FALSE
    /\ recovering = {} /\ gapAt = "none" /\ overflowMarkets = {}
    /\ queue = << >> /\ hole = FALSE /\ held = << >> /\ dropped = {}
    /\ gapFound = FALSE
    /\ wanted = {}
    /\ bookOk = [m \in Markets |-> FALSE]
    /\ xsubs = Markets /\ ackOwed = TRUE
    /\ asked = [m \in Markets |-> 1]
    /\ opened = {} /\ skipped = {}
    /\ missed = [m \in Markets |-> "away"]
    /\ drops = 0 /\ faults = 0 /\ reconciles = 0

-----------------------------------------------------------------------------
(***************************************************************************)
(* The reader: _read, _note_dropped, _flush_overflow.                      *)
(***************************************************************************)

\* The frames behind a discarded one: what was skipped before it is now missing
\* before the first of them.
Behind(stale, frames) ==
    [i \in DOMAIN frames |->
        IF i = 1 THEN [frames[1] EXCEPT !.lost = @ \cup stale.lost]
                 ELSE frames[i]]

\* Mutant: nothing bounds the queue.
ReceiveUnbounded(f) ==
    /\ connected /\ held = << >>
    /\ queue' = Append(queue, f)
    /\ UNCHANGED <<hole, held, dropped, missed, drops>>

\* Frame f arrives.  A full queue first discards its oldest frame; when that is
\* a book frame of a market not yet known to be holed, f waits for the disclosure.
Receive(f) ==
    /\ connected /\ held = << >>
    /\ \/ /\ Len(queue) < QueueMax
          /\ queue' = Append(queue, f)
          /\ UNCHANGED <<hole, held, dropped, missed, drops>>
       \/ LET stale    == Head(queue)
              frames   == Behind(stale, Append(Tail(queue), f))
              disclose == IsBook(stale) /\ stale.market \notin overflowMarkets
          IN  /\ Len(queue) >= QueueMax
              /\ drops < MaxDrops
              /\ drops' = drops + 1
              /\ hole' = (hole \/ IsBook(stale))
              /\ missed' = IF stale.type = "delta"
                             THEN Lost({stale.market}) ELSE missed
              /\ IF disclose
                   THEN /\ queue' = SubSeq(frames, 1, Len(frames) - 1)
                        /\ held' = <<frames[Len(frames)]>>
                        /\ dropped' = {stale.market}
                   ELSE queue' = frames /\ UNCHANGED <<held, dropped>>

\* Mutant: the gap frame takes its place behind the backlog.
InvalidatedLater(ms) == bookOk

\* The books an orderbook_gap frame names; one that names none means them all.
Invalidated(ms) ==
    [m \in Markets |-> bookOk[m] /\ ms # {} /\ m \notin ms]

Ask(ms) == asked' = [m \in Markets |-> IF m \in ms \cap xsubs THEN asked[m] + 1
                                                              ELSE asked[m]]

\* _recover_dropped_books: mark, invalidate, ask; then the reader queues the
\* frame it holds.
RecoverDroppedBooks ==
    LET targets == IF subscribed = {} THEN dropped ELSE dropped \cap subscribed
    IN  /\ held # << >> /\ ~locked
        /\ overflowMarkets' = overflowMarkets \cup dropped
        /\ recovering' = IF sid THEN recovering \cup targets ELSE recovering
        /\ bookOk' = Invalidated(targets)
        /\ IF sid THEN Ask(targets) ELSE UNCHANGED asked
        /\ queue' = Append(queue, held[1])
        /\ held' = << >> /\ dropped' = {}
        /\ UNCHANGED <<link, subscribed, sid, tracked, gapAt, hole, gapFound,
                       wanted, xsubs, ackOwed, opened, skipped, missed,
                       bounds>>

-----------------------------------------------------------------------------
(***************************************************************************)
(* The consumer: _handle_raw, _accept_orderbook_frame, _recover_orderbook  *)
(* and the engine's handle_ws.                                             *)
(***************************************************************************)
ConsumerReady == connected /\ ~gapFound /\ queue # << >>

\* The 'subscribed' frame: the id is known, its sequence starts afresh.
ConsumeAck ==
    /\ ConsumerReady /\ ~IsBook(Head(queue))
    /\ sid' = TRUE
    /\ tracked' = FALSE /\ hole' = FALSE
    /\ missed' = Away(Markets)
    /\ queue' = Tail(queue)
    /\ UNCHANGED <<link, subscribed, recovery, held, dropped, gapFound,
                   wanted, bookOk, exchange, bounds>>

\* A book frame that finds nothing subscribed is dropped before it is tracked.
ConsumeUnwanted ==
    /\ ConsumerReady /\ IsBook(Head(queue))
    /\ subscribed = {}
    /\ missed' = Away(LostWith(Head(queue)))
    /\ queue' = Tail(queue)
    /\ UNCHANGED <<link, subscribed, sid, tracked, recovery, hole, held,
                   dropped, gapFound, wanted, bookOk, exchange, bounds>>

\* SubscriptionSequenceTracker.track = "gap".  The first frame is never one.
IsGap(f) == tracked /\ (hole \/ f.lost # {})

\* A frame that reveals a gap is refused, whatever it carries.
ConsumeGap ==
    /\ ConsumerReady /\ IsBook(Head(queue))
    /\ subscribed # {}
    /\ IsGap(Head(queue))
    /\ gapFound' = TRUE
    /\ hole' = FALSE
    /\ missed' = Lost(LostWith(Head(queue)))
    /\ queue' = Tail(queue)
    /\ UNCHANGED <<link, subscribed, sid, tracked, recovery, held, dropped,
                   wanted, bookOk, exchange, bounds>>

InSequence(f) ==
    /\ ConsumerReady
    /\ IsBook(f) /\ subscribed # {} /\ ~IsGap(f)
    /\ tracked' = TRUE /\ hole' = FALSE
    /\ queue' = Tail(queue)

\* A snapshot is applied; one that a recovery waits for ends it for its market.
ConsumeSnapshot ==
    LET f == Head(queue)
        m == f.market
        settled == IF m \in recovering THEN {m} ELSE {}
    IN  /\ queue # << >> /\ f.type = "snapshot"
        /\ InSequence(f)
        /\ recovering' = recovering \ {m}
        /\ overflowMarkets' = overflowMarkets \ settled
        /\ gapAt' = IF recovering = {m} THEN "none" ELSE gapAt
        /\ bookOk' = [bookOk EXCEPT ![m] = TRUE]
        /\ missed' = [Lost(f.lost) EXCEPT ![m] = "no"]
        /\ UNCHANGED <<link, subscribed, sid, held, dropped, gapFound,
                       wanted, exchange, bounds>>

\* A delta is refused while its market waits for a snapshot; else it is applied,
\* to a book that is not ok as well.
ConsumeDelta ==
    LET f == Head(queue)
        m == f.market
    IN  /\ queue # << >> /\ f.type = "delta"
        /\ InSequence(f)
        /\ missed' = Lost(IF m \in recovering THEN LostWith(f) ELSE f.lost)
        /\ UNCHANGED <<link, subscribed, sid, recovery, held, dropped,
                       gapFound, wanted, bookOk, exchange, bounds>>

\* Mutant: any recovery that is in flight covers the gap.
SomeInFlight == recovering # {} /\ gapAt = "recent"

\* A recovery that is already in flight for every market covers this gap.
AlreadyInFlight ==
    recovering # {} /\ subscribed \subseteq recovering /\ gapAt = "recent"

RecoverOrderbook ==
    /\ gapFound /\ ~locked
    /\ gapFound' = FALSE
    /\ IF AlreadyInFlight
         THEN UNCHANGED <<recovering, gapAt, bookOk, asked>>
         ELSE /\ gapAt' = "recent"
              /\ recovering' = subscribed
              /\ bookOk' = Invalidated(subscribed)
              /\ Ask(subscribed)
    /\ UNCHANGED <<link, subscribed, sid, tracked, overflowMarkets, reader,
                   wanted, xsubs, ackOwed, opened, skipped, missed, bounds>>

\* WS_SNAPSHOT_RETRY_S has passed since the last recovery.
RetryIntervalPasses ==
    /\ gapAt = "recent"
    /\ gapAt' = "old"
    /\ UNCHANGED <<link, subscribed, sid, tracked, recovering, overflowMarkets,
                   reader, gapFound, wanted, bookOk, exchange, missed, bounds>>

-----------------------------------------------------------------------------
(***************************************************************************)
(* set_markets: discovery reconciles the subscription.  Its commands are   *)
(* awaited under the lock; the bookkeeping follows them.                   *)
(***************************************************************************)

\* The commands reach the exchange: it answers 'subscribed' to a first
\* subscription, sends a snapshot of every market added and stops the others.
\* (A second call before the first ack is consumed is left out: it would open
\* a second subscription.)
SetMarkets(want) ==
    /\ connected /\ ~locked
    /\ want # subscribed
    /\ sid \/ xsubs = {}
    /\ reconciles < MaxReconciles
    /\ reconciles' = reconciles + 1
    /\ wanted' = {want}
    /\ xsubs' = want
    /\ ackOwed' = (~sid /\ want # {})
    /\ asked' = [m \in Markets |-> IF m \notin want THEN 0
                                   ELSE IF m \notin xsubs THEN 1 ELSE asked[m]]
    /\ opened' = opened \cap want
    /\ skipped' = skipped \cap want
    /\ missed' = Away(want \ subscribed)
    /\ UNCHANGED <<link, subscribed, sid, tracked, recovery, reader, gapFound,
                   bookOk, drops, faults>>

\* A recovery no longer waits for the markets that were dropped.
SetMarketsEnds ==
    /\ locked
    /\ \E want \in wanted :
          /\ subscribed' = want
          /\ recovering' = recovering \cap want
          /\ missed' = Away(Markets \ want)
          /\ IF want = {}
               THEN /\ sid' = FALSE /\ tracked' = FALSE
                    /\ hole' = FALSE /\ gapAt' = "none"
               ELSE UNCHANGED <<sid, tracked, hole, gapAt>>
    /\ wanted' = {}
    /\ UNCHANGED <<link, overflowMarkets, queue, held, dropped, gapFound,
                   bookOk, exchange, bounds>>

\* Without a connection set_markets forgets what was subscribed.
SetMarketsOffline ==
    /\ ~connected /\ ~locked
    /\ subscribed # {}
    /\ reconciles < MaxReconciles
    /\ reconciles' = reconciles + 1
    /\ subscribed' = {}
    /\ UNCHANGED <<link, sid, tracked, recovery, reader, gapFound, wanted,
                   bookOk, exchange, missed, drops, faults>>

-----------------------------------------------------------------------------
(***************************************************************************)
(* The exchange.                                                           *)
(***************************************************************************)
SendAck ==
    /\ ackOwed
    /\ ackOwed' = FALSE
    /\ Receive(Ack)
    /\ UNCHANGED <<link, subscribed, sid, tracked, recovery, gapFound, wanted,
                   bookOk, xsubs, asked, opened, skipped, faults, reconciles>>

SendSnapshot(m) ==
    /\ ~ackOwed /\ asked[m] > 0
    /\ asked' = [asked EXCEPT ![m] = @ - 1]
    /\ opened' = opened \cup {m}
    /\ skipped' = {}
    /\ Receive([type |-> "snapshot", market |-> m, lost |-> skipped])
    /\ UNCHANGED <<link, subscribed, sid, tracked, recovery, gapFound, wanted,
                   bookOk, xsubs, ackOwed, faults, reconciles>>

SendDelta(m) ==
    /\ ~ackOwed /\ m \in opened
    /\ skipped' = {}
    /\ Receive([type |-> "delta", market |-> m, lost |-> skipped])
    /\ UNCHANGED <<link, subscribed, sid, tracked, recovery, gapFound, wanted,
                   bookOk, xsubs, ackOwed, asked, opened, faults, reconciles>>

\* A delta that never arrives; its number is missing from the next frame on.
SkipDelta(m) ==
    /\ connected /\ m \in opened
    /\ faults < MaxFaults
    /\ faults' = faults + 1
    /\ skipped' = skipped \cup {m}
    /\ UNCHANGED <<link, subscribed, sid, tracked, recovery, reader, gapFound,
                   wanted, bookOk, xsubs, ackOwed, asked, opened, missed, drops,
                   reconciles>>

\* The book of a market nobody subscribes to changes on the exchange.
ChangeUnseen(m) ==
    /\ m \notin xsubs
    /\ \A i \in DOMAIN queue : IsBook(queue[i]) => queue[i].market # m
    /\ held = << >>
    /\ missed' = Away({m})
    /\ UNCHANGED <<link, subscribed, sid, tracked, recovery, reader, gapFound,
                   wanted, bookOk, exchange, bounds>>

-----------------------------------------------------------------------------
(***************************************************************************)
(* Connections: run and the stall guard.                                   *)
(***************************************************************************)

\* ws_queue_stall_depth as it is configured; 0 turns the guard off.
HighWater == QueueMax \div 2

\* _watch_queue found the queue at its high water for too long and empties it
\* before it reconnects.
StallDrain ==
    /\ connected /\ ~stalled
    /\ faults < MaxFaults
    /\ faults' = faults + 1
    /\ stalled' = TRUE
    /\ HighWater > 0 /\ Len(queue) >= HighWater
    /\ queue' = << >>
    /\ hole' = (hole \/ \E i \in DOMAIN queue : IsBook(queue[i]))
    /\ LET gone == UNION {LostWith(queue[i]) : i \in DOMAIN queue}
       IN  missed' = Away(gone)
    /\ UNCHANGED <<connected, subscribed, sid, tracked, recovery, held, dropped,
                   gapFound, wanted, bookOk, exchange, drops,
                   reconciles>>

\* The connection ends: the tasks are cancelled, the queue is discarded, and a
\* set_markets in progress fails in its send.
Disconnect ==
    /\ connected
    /\ \/ stalled /\ UNCHANGED faults
       \/ /\ ~stalled /\ faults < MaxFaults
          /\ faults' = faults + 1
    /\ connected' = FALSE /\ stalled' = FALSE
    /\ queue' = << >> /\ held' = << >> /\ dropped' = {}
    /\ gapFound' = FALSE
    /\ wanted' = {}
    /\ missed' = Away(Markets)
    /\ xsubs' = {} /\ ackOwed' = FALSE /\ opened' = {} /\ skipped' = {}
    /\ asked' = [m \in Markets |-> 0]
    /\ UNCHANGED <<subscribed, sid, tracked, recovery, hole, bookOk,
                   drops, reconciles>>

\* run() connects again: the state of the last connection is cleared, and the
\* markets it was subscribed to are subscribed before a frame is read.
Connect ==
    /\ ~connected
    /\ connected' = TRUE
    /\ sid' = FALSE /\ tracked' = FALSE /\ hole' = FALSE
    /\ recovering' = {} /\ gapAt' = "none" /\ overflowMarkets' = {}
    /\ xsubs' = subscribed
    /\ ackOwed' = (subscribed # {})
    /\ asked' = [m \in Markets |-> IF m \in subscribed THEN 1 ELSE 0]
    /\ UNCHANGED <<subscribed, queue, held, dropped, gapFound, wanted, bookOk,
                   opened, skipped, stalled, missed, bounds>>

-----------------------------------------------------------------------------
Consume ==
    ConsumeAck \/ ConsumeUnwanted \/ ConsumeGap \/ ConsumeSnapshot \/ ConsumeDelta

Next ==
    \/ RecoverDroppedBooks
    \/ Consume
    \/ RecoverOrderbook
    \/ RetryIntervalPasses
    \/ \E want \in SUBSET Markets : SetMarkets(want)
    \/ SetMarketsEnds
    \/ SetMarketsOffline
    \/ SendAck
    \/ \E m \in Markets : \/ SendSnapshot(m)
                           \/ SendDelta(m)
                           \/ SkipDelta(m)
                           \/ ChangeUnseen(m)
    \/ StallDrain
    \/ Disconnect
    \/ Connect

Spec == Init /\ [][Next]_vars

\* The tasks run, the exchange answers every request and keeps sending, and the
\* retry interval passes.
FairSpec ==
    /\ Spec
    /\ WF_vars(Consume)
    /\ WF_vars(RecoverDroppedBooks) /\ WF_vars(RecoverOrderbook)
    /\ WF_vars(RetryIntervalPasses) /\ WF_vars(SetMarketsEnds)
    /\ WF_vars(SendAck)
    /\ \A m \in Markets : SF_vars(SendSnapshot(m)) /\ SF_vars(SendDelta(m))

-----------------------------------------------------------------------------
(***************************************************************************)
(* Properties                                                              *)
(***************************************************************************)

LinkType ==
    /\ connected \in BOOLEAN /\ stalled \in BOOLEAN
    /\ sid \in BOOLEAN /\ tracked \in BOOLEAN
    /\ gapFound \in BOOLEAN
    /\ gapAt \in {"none", "recent", "old"}

MarketsType ==
    /\ subscribed \subseteq Markets
    /\ recovering \subseteq Markets
    /\ overflowMarkets \subseteq Markets
    /\ wanted \subseteq SUBSET Markets

ReaderType ==
    /\ queue \in Seq(Frame) /\ held \in Seq(Frame)
    /\ Len(held) <= 1
    /\ Len(queue) + Len(held) <= QueueMax
    /\ hole \in BOOLEAN
    /\ dropped \subseteq Markets

ExchangeType ==
    /\ xsubs \subseteq Markets
    /\ ackOwed \in BOOLEAN
    /\ asked \in [Markets -> Nat]
    /\ opened \subseteq Markets /\ skipped \subseteq Markets

HistoryType ==
    /\ missed \in [Markets -> {"no", "lost", "away"}]

BoundType ==
    /\ drops \in Nat /\ faults \in Nat /\ reconciles \in Nat

\* Every variable has its type, and the arrival queue with the frame the reader
\* holds never exceeds WS_QUEUE_MAX.
TypeOK ==
    /\ LinkType /\ MarketsType /\ ReaderType
    /\ bookOk \in [Markets -> BOOLEAN]
    /\ ExchangeType /\ HistoryType /\ BoundType

\* A market that waits for a snapshot has a book that is not ok.
RecoveringBooksDoNotServe ==
    \A m \in recovering : ~bookOk[m]

\* A task knows of a loss and waits for the lock to say so.
Disclosing == held # << >> \/ gapFound

\* A frame of a market was discarded while the market was still marked from
\* before: nobody discloses it, and the next frame's number will show it.
LeftToTheSequence(m) == hole /\ m \in overflowMarkets \ recovering

\* A delta that was lost while the stream lived takes the book of its market out
\* of service: while the book still serves, a task that knows of the loss waits
\* for the lock to say so, or the next frame of the stream reveals it.
LossesStopFills ==
    \A m \in subscribed :
        missed[m] = "lost" /\ bookOk[m] =>
            m \in dropped \/ gapFound \/ LeftToTheSequence(m)

\* A market marked as discarded has a book that is out of service, so a further
\* discard need not be disclosed (_note_dropped).
MarkedBooksDoNotServe ==
    \A m \in overflowMarkets \cap subscribed : ~bookOk[m]

\* A book that lost deltas must never go on serving fills -- by whatever way
\* they were lost (KalshiWS).
MissedFramesStopFills ==
    \A m \in Markets : missed[m] # "no" /\ ~Disclosing => ~bookOk[m]

\* A recovery that stalls is still retried (_recover_orderbook): a subscribed
\* market gets a good book in the end, while the exchange answers.
RecoveryCompletes ==
    \A m \in Markets : (m \in recovering) ~> (m \notin recovering)
=============================================================================
