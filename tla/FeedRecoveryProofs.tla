------------------------- MODULE FeedRecoveryProofs -------------------------
(***************************************************************************)
(* What holds of FeedRecovery for every set of markets, every queue bound  *)
(* and any number of losses, disconnections and reconciliations.           *)
(*                                                                         *)
(* The parts of TypeOK are proved one by one: an action disturbs few.      *)
(***************************************************************************)
EXTENDS FeedRecovery, TLAPS

\* The part that an action keeps on its own.
Base == TypeOK /\ RecoveringBooksDoNotServe

\* The markets whose frames count: subscribed, or about to be.
Current == subscribed \cup UNION wanted

\* A book that lost a delta and serves is one a task, or the next frame, takes
\* out of service.
LossesAreKnown ==
    \A m \in Current :
        missed[m] = "lost" /\ bookOk[m] =>
            m \in dropped \/ gapFound \/ LeftToTheSequence(m)

\* No book comes from a stream of which no frame was tracked.
UntrackedIsAway == ~tracked => \A m \in Markets : missed[m] = "away"

\* Only a frame that waits has markets to disclose.
DroppedIsHeld == held = << >> => dropped = {}

Accounted == Base /\ LossesAreKnown /\ UntrackedIsAway /\ DroppedIsHeld

\* Without a connection there is no stream a book could come from.
OfflineIsAway == ~connected => \A m \in Markets : missed[m] = "away"

IInv == Accounted /\ OfflineIsAway

USE DEF link, reader, recovery, exchange, bounds

LEMMA MissedType ==
    ASSUME HistoryType, NEW ms
    PROVE  /\ Lost(ms) \in [Markets -> {"no", "lost", "away"}]
           /\ Away(ms) \in [Markets -> {"no", "lost", "away"}]
BY DEF HistoryType, Lost, Away

LEMMA BookFrameExcept ==
    ASSUME NEW f \in BookFrame, NEW ms \in SUBSET Markets
    PROVE  [f EXCEPT !.lost = @ \cup ms] \in BookFrame
<1>1. /\ f.lost \in SUBSET Markets
      /\ f \in [type : {"snapshot", "delta"}, market : Markets,
                lost : SUBSET Markets]
  BY DEF BookFrame
<1> DEFINE more == f.lost \cup ms
<1>2. more \in SUBSET Markets
  BY <1>1
<1> HIDE DEF more
<1>3. [f EXCEPT !.lost = more] \in BookFrame
  BY <1>1, <1>2 DEF BookFrame
<1> QED BY <1>3 DEF more

\* A frame that is discarded leaves as many frames behind it.
LEMMA BehindType ==
    ASSUME NEW stale \in Frame, NEW frames \in Seq(Frame)
    PROVE  /\ Behind(stale, frames) \in Seq(Frame)
           /\ Len(Behind(stale, frames)) = Len(frames)
<1>1. stale.lost \in SUBSET Markets
  BY DEF Frame, BookFrame
<1>2. ASSUME NEW i \in 1..Len(frames) PROVE Behind(stale, frames)[i] \in Frame
  <2>1. frames[i] \in Frame
    OBVIOUS
  <2>2. CASE i = 1
    <3>1. [frames[1] EXCEPT !.lost = @ \cup stale.lost] \in Frame
      <4>1. CASE frames[1] \in BookFrame
        BY <1>1, <4>1, BookFrameExcept DEF Frame
      <4>2. CASE frames[1] \in [type : {"ack"}, lost : SUBSET Markets]
        BY <1>1, <4>2 DEF Frame
      <4> QED BY <2>1, <2>2, <4>1, <4>2 DEF Frame
    <3> QED BY <2>2, <3>1, 1 \in DOMAIN frames DEF Behind
  <2>3. CASE i # 1
    BY <2>1, <2>3 DEF Behind
  <2> QED BY <2>2, <2>3
<1>3. /\ DOMAIN Behind(stale, frames) = 1..Len(frames)
      /\ Len(frames) \in Nat
      /\ Behind(stale, frames) = [i \in 1..Len(frames) |-> Behind(stale, frames)[i]]
  BY DEF Behind
<1> QED BY <1>2, <1>3

\* What receiving a frame does to the reader's variables.
LEMMA ReceiveType ==
    ASSUME TypeOK, NEW f \in Frame, Receive(f)
    PROVE  /\ ReaderType'
           /\ missed' \in [Markets -> {"no", "lost", "away"}]
           /\ drops' \in Nat
<1> USE ConstantsOK DEF TypeOK
<1>0. /\ queue \in Seq(Frame) /\ held = << >> /\ Len(queue) \in Nat
      /\ Len(queue) <= QueueMax /\ hole \in BOOLEAN /\ dropped \subseteq Markets
      /\ missed \in [Markets -> {"no", "lost", "away"}] /\ drops \in Nat
      /\ QueueMax \in Nat \ {0}
  BY DEF ReaderType, HistoryType, BoundType, Receive
<1>1. CASE Len(queue) < QueueMax
  <2>1. queue' = Append(queue, f) /\ UNCHANGED <<hole, held, dropped, missed, drops>>
    BY <1>1, <1>0 DEF Receive
  <2> QED BY <1>0, <1>1, <2>1 DEF ReaderType
<1>2. CASE ~(Len(queue) < QueueMax)
  <2> DEFINE stale  == Head(queue)
             frames == Behind(stale, Append(Tail(queue), f))
  <2>1. /\ queue # << >> /\ Len(queue) = QueueMax
        /\ stale \in Frame /\ Tail(queue) \in Seq(Frame)
        /\ Len(Tail(queue)) = QueueMax - 1
    BY <1>0, <1>2
  <2>2. /\ frames \in Seq(Frame) /\ Len(frames) = QueueMax
    <3>1. /\ Append(Tail(queue), f) \in Seq(Frame)
          /\ Len(Append(Tail(queue), f)) = QueueMax
      BY <2>1
    <3> QED BY <2>1, <3>1, BehindType
  <2>4. IsBook(stale) => stale.market \in Markets
    BY <2>1 DEF Frame, BookFrame, IsBook
  <2>5. missed' \in [Markets -> {"no", "lost", "away"}]
    <3>1. missed' = IF stale.type = "delta"
                      THEN Lost({stale.market}) ELSE missed
      BY <1>0, <1>2 DEF Receive
    <3>2. Lost({stale.market}) \in [Markets -> {"no", "lost", "away"}]
      BY <1>0 DEF Lost
    <3> QED BY <1>0, <3>1, <3>2
  <2>6. drops' \in Nat /\ hole' \in BOOLEAN
    <3>1. drops' = drops + 1 /\ hole' = (hole \/ IsBook(stale))
      BY <1>0, <1>2 DEF Receive
    <3>2. hole' \in BOOLEAN
      BY <3>1, Zenon
    <3> QED BY <1>0, <3>1, <3>2
  <2>7. CASE IsBook(stale) /\ stale.market \notin overflowMarkets
    <3>1. /\ queue' = SubSeq(frames, 1, Len(frames) - 1)
          /\ held' = <<frames[Len(frames)]>>
          /\ dropped' = {stale.market}
      BY <1>2, <2>7 DEF Receive
    <3> HIDE DEF frames
    <3>2. /\ SubSeq(frames, 1, Len(frames) - 1) \in Seq(Frame)
          /\ Len(SubSeq(frames, 1, Len(frames) - 1)) = QueueMax - 1
          /\ frames[Len(frames)] \in Frame
      BY <1>0, <2>2
    <3> QED BY <1>0, <2>4, <2>5, <2>6, <2>7, <3>1, <3>2 DEF ReaderType
  <2>8. CASE ~(IsBook(stale) /\ stale.market \notin overflowMarkets)
    <3>1. queue' = frames /\ UNCHANGED <<held, dropped>>
      BY <1>2, <2>8 DEF Receive
    <3> HIDE DEF frames
    <3> QED BY <1>0, <2>2, <2>5, <2>6, <3>1 DEF ReaderType
  <2> QED BY <2>7, <2>8
<1> QED BY <1>1, <1>2

\* What an orderbook_gap frame leaves: no named book is ok, all flags are Boolean.
LEMMA InvalidatedType ==
    ASSUME bookOk \in [Markets -> BOOLEAN], NEW ms
    PROVE  /\ Invalidated(ms) \in [Markets -> BOOLEAN]
           /\ \A m \in Markets : m \in ms => ~Invalidated(ms)[m]
           /\ \A m \in Markets : Invalidated(ms)[m] => bookOk[m]
BY DEF Invalidated

LEMMA AskType ==
    ASSUME asked \in [Markets -> Nat], NEW ms, Ask(ms)
    PROVE  asked' \in [Markets -> Nat]
BY DEF Ask

-----------------------------------------------------------------------------
\* The reader marks the holed markets and takes their books out of service in
\* one step.
LEMMA RecoverDroppedKeeps ==
    ASSUME Base, RecoverDroppedBooks
    PROVE  Base'
<1> DEFINE targets == IF subscribed = {} THEN dropped ELSE dropped \cap subscribed
<1>0. TypeOK /\ RecoveringBooksDoNotServe
  BY DEF Base
<1>1. /\ held # << >>
      /\ overflowMarkets' = overflowMarkets \cup dropped
      /\ recovering' = IF sid THEN recovering \cup targets ELSE recovering
      /\ bookOk' = Invalidated(targets)
      /\ IF sid THEN Ask(targets) ELSE UNCHANGED asked
      /\ queue' = Append(queue, held[1])
      /\ held' = << >> /\ dropped' = {}
      /\ UNCHANGED <<link, subscribed, sid, tracked, gapAt, hole, gapFound,
                     wanted, xsubs, ackOwed, opened, skipped, missed, bounds>>
  BY DEF RecoverDroppedBooks
<1>2. targets \subseteq Markets
  BY <1>0 DEF TypeOK, MarketsType, ReaderType
<1> HIDE DEF targets
<1>3. LinkType' /\ HistoryType' /\ BoundType'
  BY <1>0, <1>1 DEF TypeOK, LinkType, HistoryType, BoundType
<1>4. MarketsType'
  BY <1>0, <1>1, <1>2 DEF TypeOK, MarketsType, ReaderType
<1>5. ReaderType'
  <2>1. /\ queue \in Seq(Frame) /\ held \in Seq(Frame) /\ Len(held) <= 1
        /\ Len(queue) + Len(held) <= QueueMax /\ hole \in BOOLEAN
        /\ QueueMax \in Nat
    BY <1>0, ConstantsOK DEF TypeOK, ReaderType
  <2>2. Len(held) = 1 /\ held[1] \in Frame
    <3>1. held \in Seq(Frame) /\ held # << >>
      BY <1>1, <2>1
    <3>2. Len(held) \in Nat /\ Len(held) # 0
      BY <3>1
    <3>3. Len(held) <= 1
      BY <2>1
    <3>4. Len(held) = 1
      <4> DEFINE n == Len(held)
      <4>1. n \in Nat /\ n # 0 /\ n <= 1
        BY <3>2, <3>3
      <4> HIDE DEF n
      <4>2. n = 1
        BY <4>1
      <4> QED BY <4>2 DEF n
    <3> QED BY <3>1, <3>4
  <2>3. queue' \in Seq(Frame) /\ Len(queue') = Len(queue) + 1
    BY <1>1, <2>1, <2>2
  <2> QED BY <1>1, <2>1, <2>2, <2>3 DEF ReaderType
<1>6. ExchangeType'
  BY <1>0, <1>1, AskType DEF TypeOK, ExchangeType
<1>7. /\ bookOk' \in [Markets -> BOOLEAN]
      /\ \A m \in Markets : m \in targets => ~bookOk'[m]
      /\ \A m \in Markets : bookOk'[m] => bookOk[m]
  BY <1>0, <1>1, InvalidatedType DEF TypeOK
<1>8. RecoveringBooksDoNotServe'
  BY <1>0, <1>1, <1>4, <1>7 DEF RecoveringBooksDoNotServe, TypeOK, MarketsType
<1> QED BY <1>3, <1>4, <1>5, <1>6, <1>7, <1>8 DEF Base, TypeOK

\* The head of a queue that is not empty, and what remains.
LEMMA HeadOfQueue ==
    ASSUME ReaderType, queue # << >>
    PROVE  /\ Head(queue) \in Frame
           /\ Tail(queue) \in Seq(Frame)
           /\ Len(Tail(queue)) = Len(queue) - 1 /\ Len(queue) \in Nat
BY DEF ReaderType

\* A frame is consumed: the queue only gets shorter.
LEMMA ConsumedType ==
    ASSUME ReaderType, queue # << >>, queue' = Tail(queue), hole' \in BOOLEAN,
           UNCHANGED <<held, dropped>>
    PROVE  ReaderType'
<1>1. /\ Tail(queue) \in Seq(Frame) /\ Len(Tail(queue)) = Len(queue) - 1
      /\ Len(queue) \in Nat
  BY HeadOfQueue
<1>2. Len(held) \in Nat /\ QueueMax \in Nat
  BY ConstantsOK DEF ReaderType
<1> QED BY <1>1, <1>2 DEF ReaderType

\* Only a snapshot turns a book's flag on, and it ends the recovery of its
\* market in the same step.
LEMMA ConsumeKeeps ==
    ASSUME Base, Consume
    PROVE  Base'
<1>0. TypeOK /\ RecoveringBooksDoNotServe
  BY DEF Base
<1>1. CASE ConsumeAck \/ ConsumeUnwanted \/ ConsumeGap
  <2>1. /\ queue # << >> /\ queue' = Tail(queue)
        /\ UNCHANGED <<link, subscribed, recovery, held, dropped, wanted,
                       bookOk, exchange, bounds>>
    BY <1>1 DEF ConsumeAck, ConsumeUnwanted, ConsumeGap, ConsumerReady
  <2>2. /\ sid' \in BOOLEAN /\ tracked' \in BOOLEAN /\ hole' \in BOOLEAN
        /\ gapFound' \in BOOLEAN
    BY <1>0, <1>1 DEF ConsumeAck, ConsumeUnwanted, ConsumeGap, TypeOK, LinkType,
                     ReaderType
  <2>3. missed' \in [Markets -> {"no", "lost", "away"}]
    BY <1>0, <1>1, MissedType
       DEF ConsumeAck, ConsumeUnwanted, ConsumeGap, TypeOK, HistoryType
  <2>4. LinkType'
    BY <1>0, <2>1, <2>2 DEF TypeOK, LinkType
  <2>5. ReaderType'
    BY <1>0, <2>1, <2>2, ConsumedType DEF TypeOK
  <2>6. MarketsType' /\ ExchangeType' /\ BoundType' /\ HistoryType'
    BY <1>0, <2>1, <2>3 DEF TypeOK, MarketsType, ExchangeType, BoundType, HistoryType
  <2>7. bookOk' \in [Markets -> BOOLEAN] /\ RecoveringBooksDoNotServe'
    BY <1>0, <2>1 DEF TypeOK, RecoveringBooksDoNotServe
  <2> QED BY <2>4, <2>5, <2>6, <2>7 DEF Base, TypeOK
<1>2. CASE ConsumeSnapshot
  <2> DEFINE f == Head(queue)
             m == f.market
  <2>1. /\ queue # << >> /\ queue' = Tail(queue) /\ f.type = "snapshot"
        /\ tracked' = TRUE /\ hole' = FALSE
        /\ recovering' = recovering \ {m}
        /\ overflowMarkets' \subseteq overflowMarkets
        /\ gapAt' = IF recovering = {m} THEN "none" ELSE gapAt
        /\ bookOk' = [bookOk EXCEPT ![m] = TRUE]
        /\ missed' = [Lost(f.lost) EXCEPT ![m] = "no"]
        /\ UNCHANGED <<link, subscribed, sid, held, dropped, gapFound,
                       wanted, exchange, bounds>>
    BY <1>2 DEF ConsumeSnapshot, InSequence
  <2>2. Head(queue) \in Frame
    BY <1>0, <2>1, HeadOfQueue DEF TypeOK
  <2>3. m \in Markets
    BY <2>1, <2>2 DEF Frame, BookFrame
  <2> HIDE DEF m
  <2>4. LinkType' /\ MarketsType'
    BY <1>0, <2>1 DEF TypeOK, LinkType, MarketsType
  <2>5. ReaderType'
    BY <1>0, <2>1, ConsumedType DEF TypeOK
  <2>6. ExchangeType' /\ BoundType'
    BY <1>0, <2>1 DEF TypeOK, ExchangeType, BoundType
  <2>7. HistoryType'
    <3>1. Lost(f.lost) \in [Markets -> {"no", "lost", "away"}]
      BY <1>0, MissedType DEF TypeOK
    <3> QED BY <1>0, <2>1, <3>1 DEF TypeOK, HistoryType
  <2>8. bookOk' \in [Markets -> BOOLEAN] /\ RecoveringBooksDoNotServe'
    BY <1>0, <2>1, <2>3 DEF TypeOK, MarketsType, RecoveringBooksDoNotServe
  <2> QED BY <2>4, <2>5, <2>6, <2>7, <2>8 DEF Base, TypeOK
<1>3. CASE ConsumeDelta
  <2>1. /\ queue # << >> /\ queue' = Tail(queue)
        /\ tracked' = TRUE /\ hole' = FALSE
        /\ UNCHANGED <<link, subscribed, sid, recovery, held, dropped,
                       gapFound, wanted, bookOk, exchange, bounds>>
    BY <1>3 DEF ConsumeDelta, InSequence
  <2>2. HistoryType'
    <3>1. missed' \in [Markets -> {"no", "lost", "away"}]
      BY <1>0, <1>3, MissedType DEF ConsumeDelta, TypeOK
    <3> QED BY <3>1 DEF HistoryType
  <2>3. LinkType' /\ MarketsType' /\ ExchangeType' /\ BoundType'
    BY <1>0, <2>1 DEF TypeOK, LinkType, MarketsType, ExchangeType, BoundType
  <2>4. ReaderType'
    BY <1>0, <2>1, ConsumedType DEF TypeOK
  <2>5. bookOk' \in [Markets -> BOOLEAN] /\ RecoveringBooksDoNotServe'
    BY <1>0, <2>1 DEF TypeOK, RecoveringBooksDoNotServe
  <2> QED BY <2>2, <2>3, <2>4, <2>5 DEF Base, TypeOK
<1> QED BY <1>1, <1>2, <1>3 DEF Consume

\* A gap recovery waits for every subscribed market, and every one of them has
\* been taken out of service.
LEMMA RecoverOrderbookKeeps ==
    ASSUME Base, RecoverOrderbook
    PROVE  Base'
<1>0. TypeOK /\ RecoveringBooksDoNotServe
  BY DEF Base
<1>1. /\ gapFound' = FALSE
      /\ UNCHANGED <<link, subscribed, sid, tracked, overflowMarkets, reader,
                     wanted, xsubs, ackOwed, opened, skipped, missed, bounds>>
  BY DEF RecoverOrderbook
<1>2. \/ UNCHANGED <<recovering, gapAt, bookOk, asked>>
      \/ /\ gapAt' = "recent" /\ recovering' = subscribed
         /\ bookOk' = Invalidated(subscribed) /\ Ask(subscribed)
  BY DEF RecoverOrderbook
<1>3. LinkType' /\ MarketsType'
  BY <1>0, <1>1, <1>2 DEF TypeOK, LinkType, MarketsType
<1>4. ReaderType' /\ HistoryType' /\ BoundType'
  BY <1>0, <1>1 DEF TypeOK, ReaderType, HistoryType, BoundType
<1>5. ExchangeType'
  BY <1>0, <1>1, <1>2, AskType DEF TypeOK, ExchangeType
<1>6. bookOk' \in [Markets -> BOOLEAN] /\ RecoveringBooksDoNotServe'
  BY <1>0, <1>2, <1>3, InvalidatedType
     DEF TypeOK, MarketsType, RecoveringBooksDoNotServe
<1> QED BY <1>3, <1>4, <1>5, <1>6 DEF Base, TypeOK

\* A frame the exchange sends disturbs only the reader and what is owed.
LEMMA SendKeeps ==
    ASSUME Base,
           \/ SendAck
           \/ \E m \in Markets : SendSnapshot(m) \/ SendDelta(m)
    PROVE  Base'
<1>0. TypeOK /\ RecoveringBooksDoNotServe
  BY DEF Base
<1>1. ASSUME NEW f \in Frame, Receive(f), ExchangeType',
             UNCHANGED <<link, subscribed, sid, tracked, recovery, gapFound,
                         wanted, bookOk, faults, reconciles>>
      PROVE  Base'
  <2>1. /\ ReaderType' /\ drops' \in Nat
        /\ missed' \in [Markets -> {"no", "lost", "away"}]
    BY <1>0, <1>1, ReceiveType
  <2>2. LinkType' /\ MarketsType'
    BY <1>0, <1>1 DEF TypeOK, LinkType, MarketsType
  <2>3. HistoryType' /\ BoundType'
    BY <1>0, <1>1, <2>1 DEF TypeOK, HistoryType, BoundType
  <2>4. bookOk' \in [Markets -> BOOLEAN] /\ RecoveringBooksDoNotServe'
    BY <1>0, <1>1 DEF TypeOK, RecoveringBooksDoNotServe
  <2> QED BY <1>1, <2>1, <2>2, <2>3, <2>4 DEF Base, TypeOK
<1>2. CASE SendAck
  <2>1. Ack \in Frame
    BY DEF Ack, Frame
  <2>2. Receive(Ack) /\ ExchangeType'
    BY <1>0, <1>2 DEF SendAck, TypeOK, ExchangeType
  <2>3. UNCHANGED <<link, subscribed, sid, tracked, recovery, gapFound, wanted,
                    bookOk, faults, reconciles>>
    BY <1>2 DEF SendAck
  <2> QED BY <1>1, <2>1, <2>2, <2>3
<1>3. CASE \E m \in Markets : SendSnapshot(m) \/ SendDelta(m)
  <2>1. PICK m \in Markets : SendSnapshot(m) \/ SendDelta(m)
    BY <1>3
  <2>2. skipped \in SUBSET Markets
    BY <1>0 DEF TypeOK, ExchangeType
  <2>3. UNCHANGED <<link, subscribed, sid, tracked, recovery, gapFound, wanted,
                    bookOk, faults, reconciles>>
    BY <2>1 DEF SendSnapshot, SendDelta
  <2>4. CASE SendSnapshot(m)
    <3> DEFINE f == [type |-> "snapshot", market |-> m, lost |-> skipped]
    <3>1. f \in Frame
      BY <2>2 DEF Frame, BookFrame
    <3>2. Receive(f)
      BY <2>4 DEF SendSnapshot
    <3>3. ExchangeType'
      BY <1>0, <2>4 DEF SendSnapshot, TypeOK, ExchangeType
    <3> QED BY <1>1, <2>3, <3>1, <3>2, <3>3
  <2>5. CASE SendDelta(m)
    <3> DEFINE f == [type |-> "delta", market |-> m, lost |-> skipped]
    <3>1. f \in Frame
      BY <2>2 DEF Frame, BookFrame
    <3>2. Receive(f)
      BY <2>5 DEF SendDelta
    <3>3. ExchangeType'
      BY <1>0, <2>5 DEF SendDelta, TypeOK, ExchangeType
    <3> QED BY <1>1, <2>3, <3>1, <3>2, <3>3
  <2> QED BY <2>1, <2>4, <2>5
<1> QED BY <1>2, <1>3

\* set_markets can only shorten the list of recoveries, and never touches a book.
LEMMA SetMarketsKeeps ==
    ASSUME Base,
           \/ \E want \in SUBSET Markets : SetMarkets(want)
           \/ SetMarketsEnds
           \/ SetMarketsOffline
    PROVE  Base'
<1>0. TypeOK /\ RecoveringBooksDoNotServe
  BY DEF Base
<1>1. CASE \E want \in SUBSET Markets : SetMarkets(want)
  <2>1. PICK want \in SUBSET Markets : SetMarkets(want)
    BY <1>1
  <2>2. LinkType' /\ MarketsType'
    BY <1>0, <2>1 DEF SetMarkets, TypeOK, LinkType, MarketsType
  <2>3. ReaderType' /\ BoundType'
    BY <1>0, <2>1 DEF SetMarkets, TypeOK, ReaderType, BoundType
  <2>6. HistoryType'
    BY <1>0, <2>1, MissedType DEF SetMarkets, TypeOK, HistoryType
  <2>4. ExchangeType'
    <3>1. ackOwed' \in BOOLEAN
      BY <2>1 DEF SetMarkets
    <3>2. asked' \in [Markets -> Nat]
      BY <1>0, <2>1 DEF SetMarkets, TypeOK, ExchangeType
    <3> QED BY <1>0, <2>1, <3>1, <3>2 DEF SetMarkets, TypeOK, ExchangeType
  <2>5. bookOk' \in [Markets -> BOOLEAN] /\ RecoveringBooksDoNotServe'
    BY <1>0, <2>1 DEF SetMarkets, TypeOK, RecoveringBooksDoNotServe
  <2> QED BY <2>2, <2>3, <2>4, <2>5, <2>6 DEF Base, TypeOK
<1>2. CASE SetMarketsEnds
  <2>1. PICK want \in wanted :
          /\ subscribed' = want
          /\ recovering' = recovering \cap want
          /\ IF want = {}
               THEN /\ sid' = FALSE /\ tracked' = FALSE
                    /\ hole' = FALSE /\ gapAt' = "none"
               ELSE UNCHANGED <<sid, tracked, hole, gapAt>>
    BY <1>2 DEF SetMarketsEnds
  <2>2. /\ wanted' = {}
        /\ UNCHANGED <<link, overflowMarkets, queue, held, dropped, gapFound,
                       bookOk, exchange, bounds>>
    BY <1>2 DEF SetMarketsEnds
  <2>3. LinkType'
    BY <1>0, <2>1, <2>2 DEF TypeOK, LinkType
  <2>4. MarketsType'
    BY <1>0, <2>1, <2>2 DEF TypeOK, MarketsType
  <2>5. ReaderType'
    BY <1>0, <2>1, <2>2 DEF TypeOK, ReaderType
  <2>6. ExchangeType' /\ BoundType'
    BY <1>0, <2>2 DEF TypeOK, ExchangeType, BoundType
  <2>8. HistoryType'
    BY <1>0, <1>2, MissedType DEF SetMarketsEnds, TypeOK, HistoryType
  <2>7. bookOk' \in [Markets -> BOOLEAN] /\ RecoveringBooksDoNotServe'
    BY <1>0, <2>1, <2>2 DEF TypeOK, RecoveringBooksDoNotServe
  <2> QED BY <2>3, <2>4, <2>5, <2>6, <2>7, <2>8 DEF Base, TypeOK
<1>3. CASE SetMarketsOffline
  <2>1. LinkType' /\ MarketsType' /\ ReaderType'
    BY <1>0, <1>3 DEF SetMarketsOffline, TypeOK, LinkType, MarketsType, ReaderType
  <2>2. ExchangeType' /\ HistoryType' /\ BoundType'
    BY <1>0, <1>3 DEF SetMarketsOffline, TypeOK, ExchangeType, HistoryType, BoundType
  <2>3. bookOk' \in [Markets -> BOOLEAN] /\ RecoveringBooksDoNotServe'
    BY <1>0, <1>3 DEF SetMarketsOffline, TypeOK, RecoveringBooksDoNotServe
  <2> QED BY <2>1, <2>2, <2>3 DEF Base, TypeOK
<1> QED BY <1>1, <1>2, <1>3

\* Time, and what the exchange does without sending a frame.
LEMMA QuietKeeps ==
    ASSUME Base,
           \/ RetryIntervalPasses
           \/ \E m \in Markets : SkipDelta(m) \/ ChangeUnseen(m)
    PROVE  Base'
<1>0. TypeOK /\ RecoveringBooksDoNotServe
  BY DEF Base
<1>1. CASE RetryIntervalPasses
  <2>1. LinkType' /\ MarketsType' /\ ReaderType'
    BY <1>0, <1>1 DEF RetryIntervalPasses, TypeOK, LinkType, MarketsType, ReaderType
  <2>2. ExchangeType' /\ HistoryType' /\ BoundType'
    BY <1>0, <1>1 DEF RetryIntervalPasses, TypeOK, ExchangeType, HistoryType, BoundType
  <2>3. bookOk' \in [Markets -> BOOLEAN] /\ RecoveringBooksDoNotServe'
    BY <1>0, <1>1 DEF RetryIntervalPasses, TypeOK, RecoveringBooksDoNotServe
  <2> QED BY <2>1, <2>2, <2>3 DEF Base, TypeOK
<1>2. ASSUME NEW m \in Markets, SkipDelta(m) PROVE Base'
  <2>1. LinkType' /\ MarketsType' /\ ReaderType'
    BY <1>0, <1>2 DEF SkipDelta, TypeOK, LinkType, MarketsType, ReaderType
  <2>2. ExchangeType' /\ HistoryType' /\ BoundType'
    BY <1>0, <1>2 DEF SkipDelta, TypeOK, ExchangeType, HistoryType, BoundType
  <2>3. bookOk' \in [Markets -> BOOLEAN] /\ RecoveringBooksDoNotServe'
    BY <1>0, <1>2 DEF SkipDelta, TypeOK, RecoveringBooksDoNotServe
  <2> QED BY <2>1, <2>2, <2>3 DEF Base, TypeOK
<1>3. ASSUME NEW m \in Markets, ChangeUnseen(m) PROVE Base'
  <2>1. LinkType' /\ MarketsType' /\ ReaderType'
    BY <1>0, <1>3 DEF ChangeUnseen, TypeOK, LinkType, MarketsType, ReaderType
  <2>2. ExchangeType' /\ BoundType'
    BY <1>0, <1>3 DEF ChangeUnseen, TypeOK, ExchangeType, BoundType
  <2>3. HistoryType'
    BY <1>0, <1>3, MissedType DEF ChangeUnseen, TypeOK, HistoryType
  <2>4. bookOk' \in [Markets -> BOOLEAN] /\ RecoveringBooksDoNotServe'
    BY <1>0, <1>3 DEF ChangeUnseen, TypeOK, RecoveringBooksDoNotServe
  <2> QED BY <2>1, <2>2, <2>3, <2>4 DEF Base, TypeOK
<1> QED BY <1>1, <1>2, <1>3

\* A connection ends with everything but its recoveries; the next one starts
\* with none of them.
LEMMA ConnectionKeeps ==
    ASSUME Base, StallDrain \/ Disconnect \/ Connect
    PROVE  Base'
<1>0. TypeOK /\ RecoveringBooksDoNotServe
  BY DEF Base
<1>1. CASE StallDrain
  <2>1. LinkType' /\ MarketsType'
    BY <1>0, <1>1 DEF StallDrain, TypeOK, LinkType, MarketsType
  <2>2. ExchangeType' /\ BoundType'
    BY <1>0, <1>1 DEF StallDrain, TypeOK, ExchangeType, BoundType
  <2>3. HistoryType'
    BY <1>0, <1>1, MissedType DEF StallDrain, TypeOK, HistoryType
  <2>4. ReaderType'
    <3>1. /\ queue' = << >> /\ UNCHANGED <<held, dropped>>
          /\ hole' = (hole \/ \E i \in DOMAIN queue : IsBook(queue[i]))
      BY <1>1 DEF StallDrain
    <3>2. hole' \in BOOLEAN
      BY <3>1, Zenon
    <3>3. Len(queue') = 0 /\ Len(queue) \in Nat /\ QueueMax \in Nat
          /\ Len(held) \in Nat
      BY <1>0, <3>1, ConstantsOK DEF TypeOK, ReaderType
    <3> QED BY <1>0, <3>1, <3>2, <3>3 DEF TypeOK, ReaderType
  <2>5. bookOk' \in [Markets -> BOOLEAN] /\ RecoveringBooksDoNotServe'
    BY <1>0, <1>1 DEF StallDrain, TypeOK, RecoveringBooksDoNotServe
  <2> QED BY <2>1, <2>2, <2>3, <2>4, <2>5 DEF Base, TypeOK
<1>2. CASE Disconnect
  <2>1. LinkType' /\ MarketsType'
    BY <1>0, <1>2 DEF Disconnect, TypeOK, LinkType, MarketsType
  <2>2. ExchangeType' /\ BoundType'
    <3>1. asked' \in [Markets -> Nat]
      BY <1>2 DEF Disconnect
    <3>2. ExchangeType'
      BY <1>2, <3>1 DEF Disconnect, ExchangeType
    <3>3. faults' \in Nat
      BY <1>0, <1>2 DEF Disconnect, TypeOK, BoundType
    <3> QED BY <1>0, <1>2, <3>2, <3>3 DEF Disconnect, TypeOK, BoundType
  <2>3. HistoryType'
    BY <1>0, <1>2, MissedType DEF Disconnect, TypeOK, HistoryType
  <2>4. ReaderType'
    BY <1>0, <1>2, ConstantsOK DEF Disconnect, TypeOK, ReaderType
  <2>5. bookOk' \in [Markets -> BOOLEAN] /\ RecoveringBooksDoNotServe'
    BY <1>0, <1>2 DEF Disconnect, TypeOK, RecoveringBooksDoNotServe
  <2> QED BY <2>1, <2>2, <2>3, <2>4, <2>5 DEF Base, TypeOK
<1>3. CASE Connect
  <2>1. LinkType' /\ MarketsType'
    BY <1>0, <1>3 DEF Connect, TypeOK, LinkType, MarketsType
  <2>2. ReaderType' /\ HistoryType' /\ BoundType'
    BY <1>0, <1>3 DEF Connect, TypeOK, ReaderType, HistoryType, BoundType
  <2>3. ExchangeType'
    <3>1. ackOwed' \in BOOLEAN
      BY <1>3 DEF Connect
    <3>2. asked' \in [Markets -> Nat]
      BY <1>3 DEF Connect
    <3> QED BY <1>0, <1>3, <3>1, <3>2 DEF Connect, TypeOK, MarketsType, ExchangeType
  <2>4. bookOk' \in [Markets -> BOOLEAN] /\ RecoveringBooksDoNotServe'
    BY <1>0, <1>3 DEF Connect, TypeOK, RecoveringBooksDoNotServe
  <2> QED BY <2>1, <2>2, <2>3, <2>4 DEF Base, TypeOK
<1> QED BY <1>1, <1>2, <1>3

-----------------------------------------------------------------------------
LEMMA BaseHolds == Init => Base
<1> SUFFICES ASSUME Init PROVE Base
  OBVIOUS
<1>1. LinkType /\ MarketsType /\ ExchangeType /\ HistoryType /\ BoundType
  BY DEF Init, LinkType, MarketsType, ExchangeType, HistoryType, BoundType
<1>2. ReaderType
  <2>1. /\ queue = << >> /\ held = << >> /\ hole = FALSE /\ dropped = {}
        /\ QueueMax \in Nat
    BY ConstantsOK DEF Init
  <2>2. Len(queue) = 0 /\ Len(held) = 0
    BY <2>1
  <2>3. queue \in Seq(Frame) /\ held \in Seq(Frame)
    BY <2>1
  <2>4. Len(held) <= 1 /\ Len(queue) + Len(held) <= QueueMax
    BY <2>1, <2>2
  <2>5. hole \in BOOLEAN /\ dropped \subseteq Markets
    BY <2>1
  <2> QED BY <2>3, <2>4, <2>5 DEF ReaderType
<1>3. bookOk \in [Markets -> BOOLEAN] /\ RecoveringBooksDoNotServe
  BY DEF Init, RecoveringBooksDoNotServe
<1> QED BY <1>1, <1>2, <1>3 DEF Base, TypeOK

LEMMA StutterKeeps ==
    ASSUME Base, UNCHANGED vars
    PROVE  Base'
<1>0. TypeOK /\ RecoveringBooksDoNotServe
  BY DEF Base
<1>1. LinkType' /\ MarketsType' /\ ReaderType'
  BY <1>0 DEF vars, TypeOK, LinkType, MarketsType, ReaderType
<1>2. ExchangeType' /\ HistoryType' /\ BoundType'
  BY <1>0 DEF vars, TypeOK, ExchangeType, HistoryType, BoundType
<1>3. bookOk' \in [Markets -> BOOLEAN] /\ RecoveringBooksDoNotServe'
  BY <1>0 DEF vars, TypeOK, RecoveringBooksDoNotServe
<1> QED BY <1>1, <1>2, <1>3 DEF Base, TypeOK

LEMMA BaseKeeps == Base /\ [Next]_vars => Base'
<1> SUFFICES ASSUME Base, [Next]_vars PROVE Base'
  OBVIOUS
<1>1. CASE RecoverDroppedBooks \/ RecoverOrderbook
  BY <1>1, RecoverDroppedKeeps, RecoverOrderbookKeeps
<1>2. CASE Consume
  BY <1>2, ConsumeKeeps
<1>3. CASE \/ \E want \in SUBSET Markets : SetMarkets(want)
           \/ SetMarketsEnds
           \/ SetMarketsOffline
  BY <1>3, SetMarketsKeeps
<1>4. CASE \/ SendAck
           \/ \E m \in Markets : SendSnapshot(m) \/ SendDelta(m)
  BY <1>4, SendKeeps
<1>5. CASE \/ RetryIntervalPasses
           \/ \E m \in Markets : SkipDelta(m) \/ ChangeUnseen(m)
  BY <1>5, QuietKeeps
<1>6. CASE StallDrain \/ Disconnect \/ Connect
  BY <1>6, ConnectionKeeps
<1>7. CASE UNCHANGED vars
  BY <1>7, StutterKeeps
<1> QED BY <1>1, <1>2, <1>3, <1>4, <1>5, <1>6, <1>7 DEF Next

-----------------------------------------------------------------------------
(***************************************************************************)
(* Losses: one lemma for each group of actions.  They assume Base on both  *)
(* sides of the step and show the rest of Accounted after it.                   *)
(***************************************************************************)

\* The step touches neither what is tracked of the stream nor the books.
LEMMA LossesRest ==
    ASSUME Accounted, Base', UNCHANGED <<bookOk, hole, held, dropped, gapFound, tracked,
                                    recovering, overflowMarkets>>,
           Current' \subseteq Current,
           \A m \in Markets : missed'[m] = missed[m] \/ missed'[m] = "away"
    PROVE  Accounted'
<1>1. Current \subseteq Markets
  BY DEF Accounted, Base, TypeOK, MarketsType, Current
<1>2. LossesAreKnown'
  BY <1>1 DEF Accounted, LossesAreKnown, LeftToTheSequence
<1>3. UntrackedIsAway' /\ DroppedIsHeld'
  BY DEF Accounted, UntrackedIsAway, DroppedIsHeld
<1> QED BY <1>2, <1>3 DEF Accounted

\* A frame arrives.  One that pushes out a delta of a market that is not marked
\* is disclosed; of a marked one, the hole stays for the sequence to show.
LEMMA ReceiveLosses ==
    ASSUME Accounted, Base', NEW f, Receive(f),
           UNCHANGED <<subscribed, wanted, bookOk, gapFound, tracked, recovering,
                       overflowMarkets>>
    PROVE  Accounted'
<1> DEFINE stale == Head(queue)
<1>0. /\ TypeOK /\ RecoveringBooksDoNotServe /\ LossesAreKnown /\ UntrackedIsAway
      /\ Current' = Current /\ Current \subseteq Markets
  BY DEF Accounted, Base, TypeOK, MarketsType, Current
<1>1. held = << >> /\ dropped = {}
  BY DEF Receive, Accounted, DroppedIsHeld
<1>2. CASE Len(queue) < QueueMax
  <2>1. ~(Len(queue) >= QueueMax)
    BY <1>0, <1>2, ConstantsOK DEF TypeOK, ReaderType
  <2>2. UNCHANGED <<hole, held, dropped, missed>>
    BY <2>1 DEF Receive
  <2> QED BY <1>0, <2>2, LossesRest
<1>3. CASE Len(queue) >= QueueMax
  <2> DEFINE frames == Behind(stale, Append(Tail(queue), f))
             disclose == IsBook(stale) /\ stale.market \notin overflowMarkets
  <2>0. /\ hole' = (hole \/ IsBook(stale))
        /\ missed' = IF stale.type = "delta" THEN Lost({stale.market}) ELSE missed
        /\ IF disclose
             THEN /\ held' = <<frames[Len(frames)]>>
                  /\ dropped' = {stale.market}
             ELSE UNCHANGED <<held, dropped>>
    <3>1. ~(Len(queue) < QueueMax)
      BY <1>0, <1>3, ConstantsOK DEF TypeOK, ReaderType
    <3> QED BY <3>1 DEF Receive
  <2> HIDE DEF frames
  <2>1. /\ hole' = (hole \/ IsBook(stale))
        /\ missed' = IF stale.type = "delta" THEN Lost({stale.market}) ELSE missed
        /\ \/ IsBook(stale) /\ dropped' = {stale.market} /\ held' # << >>
           \/ /\ ~(IsBook(stale) /\ stale.market \notin overflowMarkets)
              /\ UNCHANGED <<held, dropped>>
    <3>1. CASE disclose
      <4>1. held' # << >>
        BY <2>0, <3>1
      <4> QED BY <2>0, <3>1, <4>1
    <3>2. CASE ~disclose
      BY <2>0, <3>2
    <3> QED BY <3>1, <3>2
  <2>2. ASSUME NEW m \in Current, missed'[m] = "lost", bookOk[m]
        PROVE  m \in dropped' \/ gapFound \/ LeftToTheSequence(m)'
    <3>1. CASE missed[m] = "lost"
      BY <1>0, <1>1, <2>1, <2>2, <3>1 DEF LossesAreKnown, LeftToTheSequence
    <3>2. CASE missed[m] # "lost"
      <4>1. stale.type = "delta" /\ m = stale.market /\ IsBook(stale)
        BY <1>0, <2>1, <2>2, <3>2 DEF Lost, IsBook
      <4>2. m \notin recovering
        BY <1>0, <2>2 DEF RecoveringBooksDoNotServe
      <4> QED BY <2>1, <4>1, <4>2 DEF LeftToTheSequence
    <3> QED BY <3>1, <3>2
  <2>3. LossesAreKnown'
    BY <1>0, <2>2 DEF LossesAreKnown
  <2>4. UntrackedIsAway'
    BY <1>0, <2>1 DEF UntrackedIsAway, Lost
  <2>5. DroppedIsHeld'
    BY <1>1, <2>1 DEF DroppedIsHeld
  <2> QED BY <2>3, <2>4, <2>5 DEF Accounted
<1>4. Len(queue) < QueueMax \/ Len(queue) >= QueueMax
  BY DEF Receive
<1> QED BY <1>2, <1>3, <1>4

\* The frame the reader held is queued; the books it discloses are out of
\* service, whether the markets it names are subscribed or not.
LEMMA RecoverDroppedLosses ==
    ASSUME Accounted, Base', RecoverDroppedBooks
    PROVE  Accounted'
<1> DEFINE targets == IF subscribed = {} THEN dropped ELSE dropped \cap subscribed
<1>0. /\ TypeOK /\ LossesAreKnown /\ UntrackedIsAway /\ RecoveringBooksDoNotServe'
      /\ Current = subscribed /\ Current' = subscribed /\ subscribed \subseteq Markets
  BY DEF Accounted, Base, TypeOK, MarketsType, Current, RecoverDroppedBooks, locked
<1>1. /\ overflowMarkets' = overflowMarkets \cup dropped
      /\ recovering' = IF sid THEN recovering \cup targets ELSE recovering
      /\ bookOk' = Invalidated(targets)
      /\ held' = << >> /\ dropped' = {}
      /\ UNCHANGED <<tracked, hole, gapFound, missed>>
  BY DEF RecoverDroppedBooks
<1>2. ASSUME NEW m \in subscribed, missed[m] = "lost", bookOk'[m]
      PROVE  gapFound \/ LeftToTheSequence(m)'
  <2>1. bookOk[m] /\ m \notin targets
    BY <1>0, <1>1, <1>2 DEF Invalidated
  <2>2. m \notin dropped
    BY <2>1
  <2> HIDE DEF targets
  <2>3. gapFound \/ LeftToTheSequence(m)
    BY <1>0, <1>2, <2>1, <2>2 DEF LossesAreKnown
  <2>4. m \notin recovering'
    BY <1>0, <1>2 DEF RecoveringBooksDoNotServe
  <2> QED BY <1>1, <2>3, <2>4 DEF LeftToTheSequence
<1> HIDE DEF targets
<1>3. LossesAreKnown'
  BY <1>0, <1>1, <1>2 DEF LossesAreKnown
<1>4. UntrackedIsAway' /\ DroppedIsHeld'
  BY <1>0, <1>1 DEF UntrackedIsAway, DroppedIsHeld
<1> QED BY <1>3, <1>4 DEF Accounted

\* A frame in sequence behind a tracked one reveals no loss; one that is the
\* first of its stream finds no book of that stream.
LEMMA InSequenceLosses ==
    ASSUME UntrackedIsAway, NEW f, InSequence(f)
    PROVE  /\ tracked => ~hole /\ f.lost = {}
           /\ ~tracked => \A m \in Markets : missed[m] = "away"
BY DEF InSequence, IsGap, UntrackedIsAway

LEMMA ConsumeLosses ==
    ASSUME Accounted, Base', Consume
    PROVE  Accounted'
<1>0. /\ TypeOK /\ RecoveringBooksDoNotServe /\ LossesAreKnown
      /\ UntrackedIsAway /\ DroppedIsHeld
      /\ Current \subseteq Markets
  BY DEF Accounted, Base, TypeOK, MarketsType, Current
<1>1. /\ UNCHANGED <<subscribed, wanted, held, dropped>> /\ Current' = Current
      /\ ~gapFound
  BY DEF Consume, ConsumeAck, ConsumeUnwanted, ConsumeGap, ConsumeSnapshot,
         ConsumeDelta, InSequence, ConsumerReady, Current
<1>2. DroppedIsHeld'
  BY <1>0, <1>1 DEF DroppedIsHeld
<1>3. CASE ConsumeAck
  <2>1. \A m \in Markets : missed'[m] = "away"
    BY <1>3 DEF ConsumeAck, Away
  <2> QED BY <1>0, <1>1, <1>2, <2>1 DEF Accounted, LossesAreKnown, UntrackedIsAway
<1>4. CASE ConsumeUnwanted
  <2>1. /\ UNCHANGED <<bookOk, hole, held, dropped, gapFound, tracked, recovering,
                       overflowMarkets>>
        /\ \A m \in Markets : missed'[m] = missed[m] \/ missed'[m] = "away"
    BY <1>4 DEF ConsumeUnwanted, Away
  <2> QED BY <1>1, <2>1, LossesRest
<1>5. CASE ConsumeGap
  <2>1. gapFound' /\ tracked' = tracked /\ missed' = Lost(LostWith(Head(queue)))
    BY <1>5 DEF ConsumeGap
  <2>2. tracked
    BY <1>5 DEF ConsumeGap, IsGap
  <2> QED BY <1>0, <1>2, <2>1, <2>2 DEF Accounted, LossesAreKnown, UntrackedIsAway
<1>6. CASE ConsumeSnapshot
  <2> DEFINE f == Head(queue)
             n == f.market
  <2>1. /\ InSequence(f) /\ tracked' /\ gapFound' = gapFound
        /\ missed' = [Lost(f.lost) EXCEPT ![n] = "no"]
        /\ bookOk' = [bookOk EXCEPT ![n] = TRUE]
    BY <1>6 DEF ConsumeSnapshot, InSequence
  <2>2. /\ tracked => ~hole /\ f.lost = {}
        /\ ~tracked => \A m \in Markets : missed[m] = "away"
    BY <1>0, <2>1, InSequenceLosses
  <2> HIDE DEF f, n
  <2>3. ASSUME NEW m \in Current, missed'[m] = "lost", bookOk'[m]
        PROVE  m \in dropped
    <3>1. m # n /\ bookOk[m] /\ Lost(f.lost)[m] = "lost"
      BY <1>0, <2>1, <2>3 DEF TypeOK, Lost
    <3>2. tracked /\ missed[m] = "lost"
      BY <1>0, <2>2, <3>1 DEF Lost
    <3> QED BY <1>0, <1>1, <2>2, <3>1, <3>2 DEF LossesAreKnown, LeftToTheSequence
  <2>4. LossesAreKnown'
    BY <1>1, <2>3 DEF LossesAreKnown
  <2> QED BY <1>2, <2>1, <2>4 DEF Accounted, UntrackedIsAway
<1>7. CASE ConsumeDelta
  <2> DEFINE f == Head(queue)
             n == f.market
  <2>1. /\ InSequence(f) /\ tracked' /\ UNCHANGED <<bookOk, gapFound>>
        /\ missed' = Lost(IF n \in recovering THEN LostWith(f) ELSE f.lost)
        /\ f.type = "delta"
    BY <1>7 DEF ConsumeDelta, InSequence
  <2>2. /\ tracked => ~hole /\ f.lost = {}
        /\ ~tracked => \A m \in Markets : missed[m] = "away"
    BY <1>0, <2>1, InSequenceLosses
  <2>3. LostWith(f) = f.lost \cup {n}
    BY <2>1 DEF LostWith
  <2> HIDE DEF f, n
  <2>4. ASSUME NEW m \in Current, missed'[m] = "lost", bookOk[m]
        PROVE  m \in dropped
    <3>1. tracked
      BY <1>0, <2>1, <2>2, <2>4 DEF Lost
    <3>2. m \notin recovering
      BY <1>0, <2>4 DEF RecoveringBooksDoNotServe
    <3>3. missed[m] = "lost"
      BY <1>0, <2>1, <2>2, <2>3, <2>4, <3>1, <3>2 DEF Lost
    <3> QED BY <1>0, <1>1, <2>2, <2>4, <3>1, <3>3 DEF LossesAreKnown, LeftToTheSequence
  <2>5. LossesAreKnown'
    BY <1>1, <2>1, <2>4 DEF LossesAreKnown
  <2> QED BY <1>2, <2>1, <2>5 DEF Accounted, UntrackedIsAway
<1> QED BY <1>3, <1>4, <1>5, <1>6, <1>7 DEF Consume

\* The gap is disclosed, or every subscribed market waits for a snapshot already.
LEMMA RecoverOrderbookLosses ==
    ASSUME Accounted, Base', RecoverOrderbook
    PROVE  Accounted'
<1>0. /\ TypeOK /\ RecoveringBooksDoNotServe /\ UntrackedIsAway /\ DroppedIsHeld
      /\ Current' = subscribed /\ subscribed \subseteq Markets
  BY DEF Accounted, Base, TypeOK, MarketsType, Current, RecoverOrderbook, locked
<1>1. UNCHANGED <<tracked, missed, held, dropped>>
  BY DEF RecoverOrderbook
<1>2. ASSUME NEW m \in subscribed
      PROVE  ~bookOk'[m]
  <2>1. CASE AlreadyInFlight
    <3>1. m \in recovering /\ bookOk' = bookOk
      BY <2>1 DEF RecoverOrderbook, AlreadyInFlight
    <3> QED BY <1>0, <3>1 DEF RecoveringBooksDoNotServe
  <2>2. CASE ~AlreadyInFlight
    <3>1. bookOk' = Invalidated(subscribed)
      BY <2>2 DEF RecoverOrderbook
    <3> QED BY <1>0, <3>1 DEF Invalidated
  <2> QED BY <2>1, <2>2
<1>3. LossesAreKnown'
  BY <1>0, <1>2 DEF LossesAreKnown
<1>4. UntrackedIsAway' /\ DroppedIsHeld'
  BY <1>0, <1>1 DEF UntrackedIsAway, DroppedIsHeld
<1> QED BY <1>3, <1>4 DEF Accounted

\* Markets that join are away until their first snapshot; those that leave are
\* no longer current.
LEMMA SetMarketsLosses ==
    ASSUME Accounted, Base',
           \/ \E want \in SUBSET Markets : SetMarkets(want)
           \/ SetMarketsEnds
           \/ SetMarketsOffline
    PROVE  Accounted'
<1>0. /\ LossesAreKnown /\ UntrackedIsAway /\ DroppedIsHeld
      /\ Current \subseteq Markets
  BY DEF Accounted, Base, TypeOK, MarketsType, Current
<1>1. ASSUME NEW want \in SUBSET Markets, SetMarkets(want)
      PROVE  Accounted'
  <2>1. /\ Current = subscribed /\ Current' = subscribed \cup want
        /\ missed' = Away(want \ subscribed)
        /\ UNCHANGED <<bookOk, hole, held, dropped, gapFound, tracked,
                       recovering, overflowMarkets>>
    BY <1>1 DEF SetMarkets, Current, locked
  <2>2. ASSUME NEW m \in Current', missed'[m] = "lost"
        PROVE  m \in subscribed /\ missed[m] = "lost"
    BY <1>0, <2>1, <2>2 DEF Away
  <2>3. LossesAreKnown'
    BY <1>0, <2>1, <2>2 DEF LossesAreKnown, LeftToTheSequence
  <2>4. UntrackedIsAway' /\ DroppedIsHeld'
    BY <1>0, <2>1 DEF UntrackedIsAway, DroppedIsHeld, Away
  <2> QED BY <2>3, <2>4 DEF Accounted
<1>2. CASE SetMarketsEnds
  <2>1. PICK want \in wanted :
          /\ subscribed' = want
          /\ recovering' = recovering \cap want
          /\ missed' = Away(Markets \ want)
          /\ IF want = {}
               THEN sid' = FALSE /\ tracked' = FALSE /\ hole' = FALSE /\ gapAt' = "none"
               ELSE UNCHANGED <<sid, tracked, hole, gapAt>>
    BY <1>2 DEF SetMarketsEnds
  <2>2. /\ wanted' = {} /\ Current' = want /\ want \subseteq Current
        /\ UNCHANGED <<bookOk, held, dropped, gapFound, overflowMarkets>>
    BY <1>2, <2>1 DEF SetMarketsEnds, Current
  <2>3. ASSUME NEW m \in want
        PROVE  /\ missed'[m] = missed[m]
               /\ LeftToTheSequence(m) => LeftToTheSequence(m)'
    BY <1>0, <2>1, <2>2 DEF Away, LeftToTheSequence
  <2>4. LossesAreKnown'
    BY <1>0, <2>2, <2>3 DEF LossesAreKnown
  <2>5. UntrackedIsAway' /\ DroppedIsHeld'
    BY <1>0, <2>1, <2>2 DEF UntrackedIsAway, DroppedIsHeld, Away
  <2> QED BY <2>4, <2>5 DEF Accounted
<1>3. CASE SetMarketsOffline
  <2>1. /\ Current' = {}
        /\ UNCHANGED <<bookOk, hole, held, dropped, gapFound, tracked,
                       recovering, overflowMarkets, missed>>
    BY <1>3 DEF SetMarketsOffline, Current, locked
  <2> QED BY <2>1, LossesRest
<1> QED BY <1>1, <1>2, <1>3

LEMMA SendLosses ==
    ASSUME Accounted, Base',
           \/ SendAck
           \/ \E m \in Markets : SendSnapshot(m) \/ SendDelta(m)
    PROVE  Accounted'
<1>1. CASE SendAck
  <2>1. /\ Receive(Ack)
        /\ UNCHANGED <<subscribed, wanted, bookOk, gapFound, tracked, recovering,
                       overflowMarkets>>
    BY <1>1 DEF SendAck
  <2> QED BY <2>1, ReceiveLosses
<1>2. ASSUME NEW m \in Markets, SendSnapshot(m)
      PROVE  Accounted'
  <2>1. /\ Receive([type |-> "snapshot", market |-> m, lost |-> skipped])
        /\ UNCHANGED <<subscribed, wanted, bookOk, gapFound, tracked, recovering,
                       overflowMarkets>>
    BY <1>2 DEF SendSnapshot
  <2> QED BY <2>1, ReceiveLosses
<1>3. ASSUME NEW m \in Markets, SendDelta(m)
      PROVE  Accounted'
  <2>1. /\ Receive([type |-> "delta", market |-> m, lost |-> skipped])
        /\ UNCHANGED <<subscribed, wanted, bookOk, gapFound, tracked, recovering,
                       overflowMarkets>>
    BY <1>3 DEF SendDelta
  <2> QED BY <2>1, ReceiveLosses
<1> QED BY <1>1, <1>2, <1>3

LEMMA QuietLosses ==
    ASSUME Accounted, Base',
           \/ RetryIntervalPasses
           \/ \E m \in Markets : SkipDelta(m) \/ ChangeUnseen(m)
           \/ UNCHANGED vars
    PROVE  Accounted'
<1>1. /\ UNCHANGED <<bookOk, hole, held, dropped, gapFound, tracked, recovering,
                     overflowMarkets>>
      /\ Current' = Current
  BY DEF RetryIntervalPasses, SkipDelta, ChangeUnseen, vars, Current
<1>2. \A m \in Markets : missed'[m] = missed[m] \/ missed'[m] = "away"
  <2>1. ASSUME NEW n \in Markets, ChangeUnseen(n)
        PROVE  \A m \in Markets : missed'[m] = missed[m] \/ missed'[m] = "away"
    BY <2>1 DEF ChangeUnseen, Away
  <2>2. CASE ~(\E n \in Markets : ChangeUnseen(n))
    <3>1. missed' = missed
      BY <2>2 DEF RetryIntervalPasses, SkipDelta, vars
    <3> QED BY <3>1
  <2> QED BY <2>1, <2>2
<1> QED BY <1>1, <1>2, LossesRest

\* A connection that ends, or begins, leaves no book of a running stream.
LEMMA ConnectionLosses ==
    ASSUME Accounted, OfflineIsAway, Base', StallDrain \/ Disconnect \/ Connect
    PROVE  Accounted'
<1>0. /\ LossesAreKnown /\ UntrackedIsAway /\ DroppedIsHeld
      /\ Current \subseteq Markets /\ Current' \subseteq Markets
  BY DEF Accounted, Base, TypeOK, MarketsType, Current
<1>1. CASE StallDrain
  <2>1. /\ bookOk' = bookOk /\ dropped' = dropped /\ held' = held
        /\ gapFound' = gapFound /\ tracked' = tracked
        /\ recovering' = recovering /\ overflowMarkets' = overflowMarkets
        /\ Current' = Current /\ (hole => hole')
        /\ \A m \in Markets : missed'[m] = missed[m] \/ missed'[m] = "away"
    BY <1>1 DEF StallDrain, Current, Away
  <2>2. ASSUME NEW m \in Current, missed'[m] = "lost", bookOk[m]
        PROVE  m \in dropped \/ gapFound \/ LeftToTheSequence(m)'
    <3>1. missed[m] = "lost"
      BY <1>0, <2>1, <2>2
    <3>2. m \in dropped \/ gapFound \/ LeftToTheSequence(m)
      BY <1>0, <2>2, <3>1 DEF LossesAreKnown
    <3>3. LeftToTheSequence(m) => LeftToTheSequence(m)'
      BY <2>1, Zenon DEF LeftToTheSequence
    <3> QED BY <3>2, <3>3
  <2>3. LossesAreKnown'
    BY <2>1, <2>2, Zenon DEF LossesAreKnown
  <2>4. UntrackedIsAway' /\ DroppedIsHeld'
    BY <1>0, <2>1 DEF UntrackedIsAway, DroppedIsHeld
  <2> QED BY <2>3, <2>4 DEF Accounted
<1>2. CASE Disconnect \/ Connect
  <2>1. \A m \in Markets : missed'[m] = "away"
    BY <1>2 DEF Disconnect, Connect, Away, OfflineIsAway
  <2>2. LossesAreKnown' /\ UntrackedIsAway'
    BY <1>0, <2>1 DEF LossesAreKnown, UntrackedIsAway
  <2>3. DroppedIsHeld'
    BY <1>0, <1>2 DEF DroppedIsHeld, Disconnect, Connect
  <2> QED BY <2>2, <2>3 DEF Accounted
<1> QED BY <1>1, <1>2

-----------------------------------------------------------------------------
LEMMA InitHolds == Init => IInv
<1> SUFFICES ASSUME Init PROVE IInv
  OBVIOUS
<1>1. Base
  BY BaseHolds
<1>2. LossesAreKnown
  BY DEF Init, LossesAreKnown, Current
<1>3. UntrackedIsAway /\ DroppedIsHeld /\ OfflineIsAway
  BY DEF Init, UntrackedIsAway, DroppedIsHeld, OfflineIsAway
<1> QED BY <1>1, <1>2, <1>3 DEF IInv, Accounted

\* Only a connected consumer applies a frame, and nothing else finds a book.
LEMMA OfflineKeeps ==
    ASSUME OfflineIsAway, [Next]_vars
    PROVE  OfflineIsAway'
<1> SUFFICES ASSUME ~connected', NEW m \in Markets
             PROVE  missed'[m] = "away"
  BY DEF OfflineIsAway
<1>1. CASE Disconnect
  BY <1>1 DEF Disconnect, Away
<1>2. CASE ~Disconnect
  <2>1. connected' = connected \/ Connect
    BY <1>2 DEF Next, vars, RecoverDroppedBooks, Consume, ConsumeAck,
       ConsumeUnwanted, ConsumeGap, ConsumeSnapshot, ConsumeDelta, RecoverOrderbook,
       RetryIntervalPasses, SetMarkets, SetMarketsEnds, SetMarketsOffline, SendAck,
       SendSnapshot, SendDelta, SkipDelta, ChangeUnseen, StallDrain
  <2>2. ~connected /\ missed[m] = "away"
    BY <2>1 DEF Connect, OfflineIsAway
  <2>3. missed'[m] = missed[m] \/ missed'[m] = "away"
    BY <1>2, <2>2 DEF Next, vars, RecoverDroppedBooks, Consume, ConsumeAck,
       ConsumeUnwanted, ConsumeGap, ConsumeSnapshot, ConsumeDelta, InSequence,
       ConsumerReady, RecoverOrderbook, RetryIntervalPasses, SetMarkets,
       SetMarketsEnds, SetMarketsOffline, SendAck, SendSnapshot, SendDelta,
       Receive, SkipDelta, ChangeUnseen, StallDrain, Connect, Away
  <2> QED BY <2>2, <2>3
<1> QED BY <1>1, <1>2

LEMMA NextKeeps == IInv /\ [Next]_vars => IInv'
<1> SUFFICES ASSUME IInv, [Next]_vars PROVE IInv'
  OBVIOUS
<1>0. Accounted /\ OfflineIsAway /\ Base'
  BY BaseKeeps DEF IInv, Accounted
<1>1. CASE RecoverDroppedBooks \/ RecoverOrderbook
  BY <1>0, <1>1, RecoverDroppedLosses, RecoverOrderbookLosses, OfflineKeeps DEF IInv
<1>2. CASE Consume
  BY <1>0, <1>2, ConsumeLosses, OfflineKeeps DEF IInv
<1>3. CASE \/ \E want \in SUBSET Markets : SetMarkets(want)
           \/ SetMarketsEnds
           \/ SetMarketsOffline
  BY <1>0, <1>3, SetMarketsLosses, OfflineKeeps DEF IInv
<1>4. CASE \/ SendAck
           \/ \E m \in Markets : SendSnapshot(m) \/ SendDelta(m)
  BY <1>0, <1>4, SendLosses, OfflineKeeps DEF IInv
<1>5. CASE \/ RetryIntervalPasses
           \/ \E m \in Markets : SkipDelta(m) \/ ChangeUnseen(m)
           \/ UNCHANGED vars
  BY <1>0, <1>5, QuietLosses, OfflineKeeps DEF IInv
<1>6. CASE StallDrain \/ Disconnect \/ Connect
  BY <1>0, <1>6, ConnectionLosses, OfflineKeeps DEF IInv
<1> QED BY <1>1, <1>2, <1>3, <1>4, <1>5, <1>6 DEF Next

-----------------------------------------------------------------------------
\* The inductive invariant holds in every reachable state: the types, a
\* recovering market's book out of service, and what is known of every loss
\* (KalshiWS with the engine's handle_ws).
THEOREM Invariance == Spec => []IInv
BY InitHolds, NextKeeps, PTL DEF Spec

\* Every variable keeps its type; the arrival queue and the frame the reader
\* holds never exceed WS_QUEUE_MAX (the reader's _read and _note_dropped).
THEOREM TypeCorrect == Spec => []TypeOK
<1>1. IInv => TypeOK
  BY DEF IInv, Accounted, Base
<1> QED BY <1>1, Invariance, PTL

\* No market that waits for a recovery snapshot has a book that serves fills:
\* the gap frame overtakes the backlog (_recover_orderbook, _recover_dropped_books).
THEOREM RecoveryGatesFills == Spec => []RecoveringBooksDoNotServe
<1>1. IInv => RecoveringBooksDoNotServe
  BY DEF IInv, Accounted, Base
<1> QED BY <1>1, Invariance, PTL

\* A subscribed book that lost a delta of the running stream stops serving fills,
\* unless a task waits to say so or the next frame's number will show the loss
\* (_note_dropped, _flush_overflow, _recover_orderbook, set_markets).
THEOREM LossesAreDisclosed == Spec => []LossesStopFills
<1>1. IInv => LossesStopFills
  BY DEF IInv, Accounted, LossesAreKnown, LossesStopFills, Current
<1> QED BY <1>1, Invariance, PTL
=============================================================================
