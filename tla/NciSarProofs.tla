---------------------------- MODULE NciSarProofs ----------------------------
(***************************************************************************)
(* Proofs about NciSar.                                                    *)
(***************************************************************************)
EXTENDS NciSar, WellFoundedInduction, TLAPS

\* The two kinds of queues: the command queue and one per connection, told apart
\* by their index as sar->cmd and sar->conn are.
LEMMA ChannelFacts == /\ CommandChannel \in Channels
                      /\ CommandChannel \notin Cids
                      /\ \A c \in Channels : c # CommandChannel => c \in Cids
                      /\ Cids \subseteq Channels
                      /\ 0 \in Cids /\ 0 \in PacketIds
                      /\ EmptyQueue \in Queue
                      /\ NewConnection \in Connection
  BY SarAssumption DEF Channels, CommandChannel, Cids, PacketIds, NullPacket,
     Packet, EmptyQueue, Queue, NewConnection, Connection

\* sar->writing names at most one packet; it is NULL or a packet.
LEMMA WritingFacts ==
  ASSUME NEW s \in SarState
  PROVE  /\ s.writing \in Packet \cup {NullPacket}
         /\ IsWriting(s) <=> s.writing \in Packet
         /\ ~IsWriting(s) <=> s.writing = NullPacket
         /\ s.writing.cid \in Channels /\ s.writing.id \in PacketIds
         /\ s.writing.len \in Nat /\ s.writing.pos \in Nat
  BY ChannelFacts DEF SarState, Packet, IsWriting, NullPacket

\* The queue of a channel is a queue.
LEMMA QueueOfType ==
  ASSUME NEW s \in SarState, NEW ch \in Channels
  PROVE  QueueOf(s, ch) \in Queue
  BY ChannelFacts DEF QueueOf, SarState, Connection

\* Replacing one queue keeps the rest of the state well typed.
LEMMA SetQueueType ==
  ASSUME NEW s \in SarState, NEW ch \in Channels, NEW q \in Queue
  PROVE  SetQueue(s, ch, q) \in SarState
  BY ChannelFacts DEF SetQueue, SarState, Connection

\* Appending at queue->last (the end of nci_sar_send) makes a queue.
LEMMA EnqueueType ==
  ASSUME NEW q \in Queue, NEW p \in Packet
  PROVE  Enqueue(q, p) \in Queue /\ PutBack(q, p) \in Queue
  BY DEF Enqueue, PutBack, Queue

\* Removing queue->first (nci_sar_attempt_write) makes a queue.
LEMMA DequeueType ==
  ASSUME NEW q \in Queue, q.chain # << >>
  PROVE  Head(q.chain) \in Packet /\ Dequeue(q) \in Queue
  BY DEF Dequeue, Queue

\* Unlinking a packet (nci_sar_cancel_queue) makes a queue.
LEMMA UnlinkType ==
  ASSUME NEW q \in Queue, NEW i \in DOMAIN q.chain
  PROVE  Unlink(q, i) \in Queue
  BY DEF Unlink, Queue

\* Storing a credit count of a connection keeps the state well typed.
LEMMA SetCreditsType ==
  ASSUME NEW s \in SarState, NEW c \in Cids, NEW n \in 0 .. Unlimited
  PROVE  [s EXCEPT !.conn[c].credits = n] \in SarState
  <1> DEFINE conn == [s.conn EXCEPT ![c].credits = n]
  <1>1. conn \in [Cids -> Connection]
    BY DEF SarState, Connection
  <1>2. [s EXCEPT !.conn[c].credits = n] = [s EXCEPT !.conn = conn]
    BY DEF SarState
  <1> HIDE DEF conn
  <1> QED BY <1>1, <1>2 DEF SarState

\* nci_sar_write_queue never takes a credit count below zero.
LEMMA SpendCreditType ==
  ASSUME NEW s \in SarState, NEW c \in Cids, s.conn[c].credits > 0
  PROVE  SpendCredit(s, c) \in SarState
  <1>1. s.conn[c].credits \in 0 .. Unlimited
    BY DEF SarState, Connection
  <1>2. Spent(s.conn[c].credits) \in 0 .. Unlimited
    BY <1>1, SarAssumption DEF Spent
  <1> QED BY <1>2, SetCreditsType DEF SpendCredit

\* nci_sar_schedule_write keeps the state well typed.
LEMMA ScheduleType ==
  ASSUME NEW s \in SarState
  PROVE  ScheduleWrite(s) \in SarState
  BY DEF ScheduleWrite, SarState, CanWrite

\* nci_sar_packet_out_free keeps the state well typed.
LEMMA FreeType ==
  ASSUME NEW s \in SarState, NEW ids
  PROVE  Free(s, ids) \in SarState
  BY DEF Free, SarState

\* A set of natural numbers has a least element.
LEMMA LeastNatural ==
  ASSUME NEW T, T \subseteq Nat, T # {}
  PROVE  \E n \in T : \A m \in T : n <= m
  <1> DEFINE R == OpToRel(<, Nat)
  <1>1. IsWellFoundedOn(R, Nat)
    BY NatLessThanWellFounded
  <1>2. \A m, n \in Nat : m < n => <<m, n>> \in R
    BY DEF OpToRel
  <1> HIDE DEF R
  <1>3. \E n \in T : \A m \in T : ~ (<<m, n>> \in R)
    BY <1>1, WFMin
  <1>4. \A m, n \in Nat : ~ (m < n) => n <= m
    OBVIOUS
  <1>5. \E n \in T : \A m \in T : ~ (m < n)
    BY <1>2, <1>3
  <1> QED BY <1>4, <1>5

\* The id that nci_sar_send picks is in the range of ids and never zero.
LEMMA NextPacketIdType ==
  ASSUME NEW s \in SarState
  PROVE  NextPacketId(s) \in PacketIds /\ NextPacketId(s) # 0
  <1> DEFINE After(n) == (s.last_packet_id + n) % IdSpace
             free == {n \in 1 .. IdSpace : After(n) \notin s.live \cup {0}}
             next == CHOOSE n \in free : \A m \in free : n <= m
  <1>1. s.last_packet_id \in Nat /\ IdSpace \in Nat /\ IdSpace > 2
    BY SarAssumption DEF SarState, PacketIds
  <1>2. CASE free = {}
    <2>1. NextPacketId(s) = 1
      BY <1>2 DEF NextPacketId
    <2> QED BY <1>1, <2>1 DEF PacketIds
  <1>3. CASE free # {}
    <2>1. NextPacketId(s) = After(next)
      BY <1>3 DEF NextPacketId
    <2>2. free \subseteq Nat
      BY <1>1
    <2>3. next \in free
      <3> HIDE DEF free
      <3>1. \E n \in free : \A m \in free : n <= m
        BY <1>3, <2>2, LeastNatural
      <3> QED BY <3>1
    <2>4. next \in 1 .. IdSpace /\ After(next) # 0
      <3> HIDE DEF next
      <3> QED BY <2>3
    <2> HIDE DEF next
    <2>5. After(next) \in 0 .. IdSpace - 1
      <3> DEFINE k == s.last_packet_id + next
      <3>1. k \in Nat
        BY <1>1, <2>4
      <3> HIDE DEF k
      <3>2. k % IdSpace \in 0 .. IdSpace - 1
        BY <1>1, <3>1
      <3> QED BY <3>2 DEF k
    <2> QED BY <2>1, <2>4, <2>5 DEF PacketIds
  <1> QED BY <1>2, <1>3

\* nci_sar_send keeps the state well typed.
LEMMA SendType ==
  ASSUME NEW s \in SarState, NEW ch \in Channels, NEW len \in Nat
  PROVE  Send(s, ch, len) \in SarState
  <1> DEFINE id == NextPacketId(s)
             out == [id |-> id, cid |-> ch, len |-> len, pos |-> 0,
                     complete |-> TRUE, dangling |-> FALSE]
             t == [s EXCEPT !.last_packet_id = id, !.live = @ \cup {id}]
  <1>1. id \in PacketIds
    BY NextPacketIdType
  <1>2. out \in Packet
    BY <1>1, NextPacketIdType DEF Packet
  <1>3. t \in SarState
    BY <1>1 DEF SarState
  <1>4. Enqueue(QueueOf(s, ch), out) \in Queue
    BY <1>2, EnqueueType, QueueOfType
  <1>5. SetQueue(t, ch, Enqueue(QueueOf(s, ch), out)) \in SarState
    BY <1>3, <1>4, SetQueueType
  <1> QED BY <1>5, ScheduleType DEF Send

\* nci_sar_reset up to its callbacks keeps the state well typed.
LEMMA ClearedType ==
  ASSUME NEW s \in SarState
  PROVE  Cleared(s) \in SarState
  <1>1. /\ [c \in Cids |-> NewConnection] \in [Cids -> Connection]
        /\ [c \in Channels |-> 0] \in [Channels -> PacketIds]
        /\ [c \in Cids |-> 0] \in [Cids -> Int]
    BY ChannelFacts
  <1>2. s.live \ Reachable(s) \in SUBSET PacketIds
    BY DEF SarState
  <1>3. EmptyQueue \in Queue
    BY ChannelFacts
  <1> HIDE DEF Reachable
  <1> QED BY <1>1, <1>2, <1>3 DEF Cleared, SarState

\* What a client callback may do is one of a few calls into nci_sar.c.
LEMMA ReactionFacts ==
  ASSUME NEW r \in Reactions, r.call = "send"
  PROVE  r.ch \in Channels /\ r.len \in Nat
  <1>1. r # Ignore /\ r # StartOver
    BY DEF Ignore, StartOver
  <1>2. r \in Sends
    BY <1>1 DEF Reactions
  <1> QED BY <1>2, ChannelFacts, SarAssumption DEF Sends

\* A client callback keeps the state well typed, whatever it calls.
LEMMA ReactType ==
  ASSUME NEW s \in SarState, NEW r \in Reactions
  PROVE  React(s, r) \in SarState
  BY ClearedType, SendType, ReactionFacts DEF React

\* Reporting the completion of a packet keeps the state well typed.
LEMMA CompleteType ==
  ASSUME NEW s \in SarState, NEW out, NEW r \in Reactions
  PROVE  Complete(s, out, r) \in SarState
  BY ReactType, FreeType DEF Complete

\* Reporting an error to the client keeps the state well typed.
LEMMA ErrorType ==
  ASSUME NEW s \in SarState, NEW r \in Reactions
  PROVE  Error(s, r) \in SarState
  <1>1. [s EXCEPT !.failed = TRUE] \in SarState
    BY DEF SarState
  <1> QED BY <1>1, ReactType DEF Error

\* Moving the head of a queue to sar->writing keeps the state well typed.
LEMMA TakeType ==
  ASSUME NEW s \in SarState, NEW ch \in Channels, QueueOf(s, ch).chain # << >>
  PROVE  Take(s, ch) \in SarState
  <1>1. QueueOf(s, ch) \in Queue
    BY QueueOfType
  <1>2. /\ Head(QueueOf(s, ch).chain) \in Packet
        /\ Dequeue(QueueOf(s, ch)) \in Queue
    BY <1>1, DequeueType
  <1>3. [s EXCEPT !.writing = Head(QueueOf(s, ch).chain)] \in SarState
    BY <1>2 DEF SarState
  <1> QED BY <1>2, <1>3, SetQueueType DEF Take

\* The connections nci_sar_can_write finds ready have a packet and a credit.
LEMMA ReadyFacts ==
  ASSUME NEW s \in SarState
  PROVE  \A c \in Ready(s) : /\ c \in Cids
                             /\ s.conn[c].credits > 0
                             /\ s.conn[c].out.chain # << >>
  BY SarAssumption DEF Ready, ActiveCids, SarState, Cids

\* The loop of nci_sar_attempt_write over the connections finds a first ready
\* one whenever there is one.
LEMMA LowestReady ==
  ASSUME NEW s \in SarState, Ready(s) # {}
  PROVE  (CHOOSE c \in Ready(s) : \A d \in Ready(s) : c <= d) \in Ready(s)
  <1>1. Ready(s) \subseteq Nat
    BY ReadyFacts DEF Cids
  <1>2. \E c \in Ready(s) : \A d \in Ready(s) : ~(<<d, c>> \in OpToRel(<, Nat))
    BY <1>1, WFMin, NatLessThanWellFounded
  <1>3. PICK c \in Ready(s) : \A d \in Ready(s) : ~(<<d, c>> \in OpToRel(<, Nat))
    BY <1>2
  <1>4. ASSUME NEW d \in Ready(s) PROVE c <= d
    <2>1. c \in Nat /\ d \in Nat
      BY <1>1
    <2>2. ~(<<d, c>> \in OpToRel(<, Nat))
      BY <1>3
    <2>3. ~(d < c)
      BY <2>1, <2>2 DEF OpToRel
    <2> QED BY <2>1, <2>3
  <1> QED BY <1>4

\* Going on with a packet that was written in part keeps the state well typed.
LEMMA ContinueType ==
  ASSUME NEW s \in SarState, NEW garbage
  PROVE  Continue(s, garbage) \in SarState
  <1> DEFINE c == s.writing.cid
             released == [s EXCEPT !.writing = NullPacket]
  <1>1. released \in SarState /\ c \in Channels
    BY WritingFacts DEF SarState
  <1>2. CASE c = CommandChannel \/ ~IsWriting(s)
    BY <1>2 DEF Continue
  <1>3. CASE c # CommandChannel /\ IsWriting(s)
    <2>0. s.writing \in Packet
      BY <1>3, WritingFacts
    <2>1. c \in Cids
      BY <1>1, <1>3, ChannelFacts
    <2>2. s.conn[c].credits > 0 => SpendCredit(s, c) \in SarState
      BY <2>1, SpendCreditType
    <2>3. s.conn[c].out \in Queue
      BY <2>1 DEF SarState, Connection
    <2>4. SetQueue(released, c, PutBack(s.conn[c].out, s.writing)) \in SarState
      BY <1>1, <2>0, <2>1, <2>3, EnqueueType, SetQueueType
    <2> QED BY <1>1, <2>2, <2>4 DEF Continue
  <1> QED BY <1>2, <1>3

\* Choosing the next packet to write keeps the state well typed.
LEMMA PickType ==
  ASSUME NEW s \in SarState
  PROVE  Pick(s) \in SarState
  <1> DEFINE lowest == CHOOSE c \in Ready(s) : \A d \in Ready(s) : c <= d
  <1>1. s.cmd.chain # << >> => Take(s, CommandChannel) \in SarState
    BY TakeType, ChannelFacts DEF QueueOf
  <1>2. ASSUME Ready(s) # {}
        PROVE  Take(SpendCredit(s, lowest), lowest) \in SarState
    <2>1. lowest \in Ready(s)
      BY <1>2, LowestReady
    <2> HIDE DEF lowest
    <2>2. /\ lowest \in Cids /\ lowest # CommandChannel
          /\ s.conn[lowest].credits > 0
          /\ s.conn[lowest].out.chain # << >>
      BY <2>1, ReadyFacts, ChannelFacts
    <2>3. SpendCredit(s, lowest) \in SarState
      BY <2>2, SpendCreditType
    <2>4. SpendCredit(s, lowest).conn[lowest].out = s.conn[lowest].out
      BY <2>2 DEF SpendCredit, SarState, Connection
    <2> QED BY <2>2, <2>3, <2>4, TakeType, ChannelFacts DEF QueueOf
  <1> QED BY <1>1, <1>2 DEF Pick

\* The answers of the HAL to a write.
LEMMA HalOutcomeFacts ==
  ASSUME NEW hal \in HalOutcomes
  PROVE  /\ hal.accepts \in BOOLEAN /\ hal.starts \in BOOLEAN
         /\ hal.r \in Reactions /\ hal.e \in Reactions
  <1>1. {Ignore, StartOver} \subseteq Reactions /\ Ignore \in Reactions
    BY DEF Reactions
  <1>2. CASE hal = [accepts |-> TRUE, starts |-> TRUE, r |-> Ignore, e |-> Ignore]
    BY <1>1, <1>2
  <1>3. CASE hal \in [accepts : {FALSE}, starts : BOOLEAN,
                      r : {Ignore, StartOver}, e : {Ignore, StartOver}]
    BY <1>1, <1>3
  <1> QED BY <1>2, <1>3 DEF HalOutcomes

\* Handing a segment to the HAL keeps the state well typed.
LEMMA OnWireType ==
  ASSUME NEW s \in SarState, IsWriting(s)
  PROVE  OnWire(s) \in SarState
  <1> DEFINE out == s.writing
             ch == out.cid
             sent == [out EXCEPT !.pos = IF LastSegment(s) THEN out.len
                                         ELSE out.pos + PayloadLimit(s)]
             open == [s.open EXCEPT ![ch] = IF LastSegment(s) THEN 0 ELSE out.id]
             torn == s.torn \/ s.open[ch] # (IF out.pos = 0 THEN 0 ELSE out.id)
             due == IF ch = CommandChannel \/ s.due[ch] = Unlimited THEN s.due
                    ELSE [s.due EXCEPT ![ch] = Spent(s.due[ch])]
  <1>1. /\ out \in Packet /\ ch \in Channels /\ out.id \in PacketIds
        /\ out.len \in Nat /\ out.pos \in Nat
        /\ s.due \in [Cids -> Int] /\ s.torn \in BOOLEAN
        /\ s.open \in [Channels -> PacketIds]
        /\ PayloadLimit(s) \in Nat
    BY WritingFacts DEF SarState, PayloadLimit
  <1>2. sent \in Packet
    BY <1>1 DEF Packet
  <1>3. open \in [Channels -> PacketIds]
    BY <1>1, ChannelFacts
  <1>4. torn \in BOOLEAN
    BY <1>1
  <1>5. due \in [Cids -> Int]
    BY <1>1, ChannelFacts, SarAssumption DEF Spent
  <1>6. OnWire(s) = [s EXCEPT !.writing = sent, !.write_pending = TRUE,
                              !.open = open, !.torn = torn, !.due = due]
    BY DEF OnWire
  <1> HIDE DEF sent, open, torn, due
  <1> DEFINE t == [s EXCEPT !.writing = sent, !.write_pending = TRUE]
             u == [t EXCEPT !.open = open, !.torn = torn]
             v == [u EXCEPT !.due = due]
  <1>7. t \in SarState
    BY <1>2 DEF SarState
  <1>8. OnWire(s) = v
    BY <1>6 DEF SarState
  <1> HIDE DEF t
  <1>9. u \in SarState
    BY <1>3, <1>4, <1>7 DEF SarState
  <1> HIDE DEF u
  <1>10. v \in SarState
    BY <1>5, <1>9 DEF SarState
  <1> QED BY <1>8, <1>10

\* Dropping a packet that the HAL refused keeps the state well typed.
LEMMA DroppedType ==
  ASSUME NEW s \in SarState
  PROVE  Dropped(s) \in SarState
  BY ChannelFacts, WritingFacts DEF Dropped, SarState

\* The second half of nci_sar_attempt_write keeps the state well typed.
LEMMA SubmitType ==
  ASSUME NEW s \in SarState, NEW hal \in HalOutcomes
  PROVE  Submit(s, hal) \in SarState
  <1> DEFINE up == [s EXCEPT !.started = @ \/ hal.starts]
  <1>1. up \in SarState
    BY HalOutcomeFacts DEF SarState
  <1>2. IsWriting(s) => IsWriting(up)
    BY DEF SarState, IsWriting
  <1> HIDE DEF up
  <1>3. /\ IsWriting(s) => OnWire(up) \in SarState
        /\ Dropped(up) \in SarState
    BY <1>1, <1>2, OnWireType, DroppedType
  <1>4. ScheduleWrite(Error(Complete(Dropped(up), s.writing, hal.r), hal.e))
          \in SarState
    BY <1>3, HalOutcomeFacts, CompleteType, ErrorType, ScheduleType
  <1> QED BY <1>3, <1>4 DEF Submit, up

\* nci_sar_attempt_write keeps the state well typed.
LEMMA AttemptWriteType ==
  ASSUME NEW s \in SarState, NEW hal \in HalOutcomes, NEW garbage
  PROVE  AttemptWrite(s, hal, garbage) \in SarState
  BY ContinueType, PickType, SubmitType DEF AttemptWrite

\* Storing the credits of a connection and what the NFCC is owed for it keeps
\* the state well typed.
LEMMA SetAccountType ==
  ASSUME NEW s \in SarState, NEW c \in Cids, NEW n \in 0 .. Unlimited, NEW d \in Int
  PROVE  [s EXCEPT !.conn[c].credits = n, !.due[c] = d] \in SarState
  <1> DEFINE conn == [s.conn EXCEPT ![c].credits = n]
             due == [s.due EXCEPT ![c] = d]
  <1>1. s.conn \in [Cids -> Connection] /\ s.due \in [Cids -> Int]
    BY DEF SarState
  <1>2. conn \in [Cids -> Connection]
    BY <1>1 DEF Connection
  <1>3. due \in [Cids -> Int]
    BY <1>1
  <1>4. [s EXCEPT !.conn[c].credits = n, !.due[c] = d]
          = [s EXCEPT !.conn = conn, !.due = due]
    BY <1>1 DEF SarState
  <1> HIDE DEF conn, due
  <1> QED BY <1>2, <1>3, <1>4 DEF SarState

\* The sum that nci_sar_take_credits stores is a credit count: it saturates.
LEMMA CreditedType ==
  ASSUME NEW s \in SarState, NEW c \in Cids, NEW n \in 0 .. Unlimited
  PROVE  [s EXCEPT !.conn[c].credits = Sum(@, n), !.due[c] = Sum(@, n)] \in SarState
  <1>1. s.conn[c].credits \in 0 .. Unlimited /\ s.due[c] \in Int
    BY DEF SarState, Connection
  <1>2. Sum(s.conn[c].credits, n) \in 0 .. Unlimited /\ Sum(s.due[c], n) \in Int
    BY <1>1, SarAssumption DEF Sum
  <1> QED BY <1>2, SetAccountType

\* nci_sar_take_credits keeps the state well typed.
LEMMA TakeCreditsType ==
  ASSUME NEW s \in SarState, NEW c \in Cids, NEW n \in 0 .. Unlimited
  PROVE  TakeCredits(s, c, n) \in SarState
  BY CreditedType, ScheduleType DEF TakeCredits

\* Moving the connections to another array keeps every queue a queue.
LEMMA RepointType ==
  ASSUME NEW p \in Packet, NEW n \in Nat, NEW moved \in BOOLEAN
  PROVE  Repoint(p, n, moved) \in Packet
  BY ChannelFacts DEF Repoint, Packet, Channels, Cids, CommandChannel

\* nci_sar_set_max_logical_connections keeps the state well typed.
LEMMA ResizedType ==
  ASSUME NEW s \in SarState, NEW n \in 1 .. MaxConns, NEW moved \in BOOLEAN
  PROVE  Resized(s, n, moved) \in SarState
  <1> DEFINE chain(c) == [i \in 1 .. Len(s.conn[c].out.chain) |->
                             Repoint(s.conn[c].out.chain[i], n, moved)]
             entry(c) == IF c >= n THEN NewConnection
                         ELSE [credits |-> s.conn[c].credits,
                               out |-> [chain |-> chain(c),
                                        last |-> s.conn[c].out.last]]
             conn == [c \in Cids |-> entry(c)]
             lost == UNION {IdsOf(s.conn[c].out) : c \in {d \in Cids : d >= n}}
             due == [c \in Cids |-> IF c >= n THEN 0 ELSE s.due[c]]
  <1>1. ASSUME NEW c \in Cids PROVE entry(c) \in Connection
    <2>1. /\ s.conn[c].out.chain \in Seq(Packet) /\ s.conn[c].out.last \in BOOLEAN
          /\ s.conn[c].credits \in 0 .. Unlimited
      BY DEF SarState, Connection, Queue
    <2>2. chain(c) \in Seq(Packet)
      <3>1. \A i \in 1 .. Len(s.conn[c].out.chain) :
               Repoint(s.conn[c].out.chain[i], n, moved) \in Packet
        <4>1. \A i \in 1 .. Len(s.conn[c].out.chain) : s.conn[c].out.chain[i] \in Packet
          BY <2>1
        <4>2. n \in Nat
          OBVIOUS
        <4> QED BY <4>1, <4>2, RepointType
      <3> QED BY <2>1, <3>1
    <2> HIDE DEF chain
    <2> QED BY <2>1, <2>2, ChannelFacts DEF Connection, Queue
  <1>2. conn \in [Cids -> Connection]
    BY <1>1
  <1>3. due \in [Cids -> Int]
    BY DEF SarState
  <1>4. s.live \ lost \in SUBSET PacketIds
    BY DEF SarState
  <1>5. Repoint(s.writing, n, moved) \in Packet \cup {NullPacket}
    <2>1. CASE s.writing \in Packet
      BY <2>1, RepointType
    <2>2. CASE s.writing = NullPacket
      BY <2>2 DEF Repoint, NullPacket
    <2> QED BY <2>1, <2>2, WritingFacts
  <1>6. Resized(s, n, moved) =
           [s EXCEPT !.max_logical_conns = n,
                     !.writing = Repoint(s.writing, n, moved),
                     !.conn = conn, !.live = s.live \ lost, !.due = due]
    BY DEF Resized
  <1> DEFINE w == Repoint(s.writing, n, moved)
             live == s.live \ lost
  <1> HIDE DEF conn, lost, due, w, live
  <1> DEFINE t == [s EXCEPT !.max_logical_conns = n, !.writing = w]
             u == [t EXCEPT !.conn = conn, !.live = live]
             v == [u EXCEPT !.due = due]
  <1>7. t \in SarState
    BY <1>5 DEF SarState, w
  <1>8. Resized(s, n, moved) = v
    BY <1>6 DEF SarState, w, live
  <1> HIDE DEF t
  <1>9. u \in SarState
    BY <1>2, <1>4, <1>7 DEF SarState, live
  <1> HIDE DEF u
  <1>10. v \in SarState
    BY <1>3, <1>9 DEF SarState
  <1> QED BY <1>8, <1>10

(***************************************************************************)
(* Type correctness: struct nci_sar holds values of its types in every     *)
(* state, whatever the client's callbacks call; the 8 bit credit counters  *)
(* in particular neither wrap below zero nor above SAR_UNLIMITED_CREDITS.  *)
(***************************************************************************)
THEOREM TypeCorrect == Spec => []TypeOK
  <1>1. Init => TypeOK
    BY ChannelFacts, SarAssumption DEF Init, TypeOK, SarState
  <1>2. TypeOK /\ [Next]_sar => TypeOK'
    <2> SUFFICES ASSUME TypeOK, [Next]_sar PROVE TypeOK'
      OBVIOUS
    <2>1. ASSUME NEW p \in Sends, SendPacket(p.ch, p.len) PROVE TypeOK'
      <3>1. p.ch \in Channels /\ p.len \in Nat
        BY ChannelFacts, SarAssumption DEF Sends
      <3> QED BY <2>1, <3>1, SendType DEF SendPacket, TypeOK
    <2>2. ASSUME NEW id \in sar.live, Cancel(id) PROVE TypeOK'
      <3>1. IsWriting(sar) => [sar EXCEPT !.writing.complete = FALSE] \in SarState
        <4>1. ASSUME IsWriting(sar)
              PROVE  [sar.writing EXCEPT !.complete = FALSE] \in Packet
          BY <4>1, WritingFacts DEF TypeOK, Packet
        <4> QED BY <4>1 DEF TypeOK, SarState
      <3>2. ASSUME NEW ch \in Channels, NEW i \in DOMAIN QueueOf(sar, ch).chain
            PROVE  Free(SetQueue(sar, ch, Unlink(QueueOf(sar, ch), i)), {id})
                      \in SarState
        BY QueueOfType, UnlinkType, SetQueueType, FreeType DEF TypeOK
      <3> QED BY <2>2, <3>1, <3>2 DEF Cancel, TypeOK
    <2>3. CASE Start
      BY <2>3 DEF Start, TypeOK, SarState
    <2>4. ASSUME NEW r \in Reactions, Reset(r) PROVE TypeOK'
      BY <2>4, ClearedType, ReactType DEF Reset, TypeOK
    <2>5. ASSUME NEW max \in 0 .. MaxConns, NEW moved \in BOOLEAN,
                 SetMaxLogicalConns(max, moved)
          PROVE  TypeOK'
      <3>1. (IF max = 0 THEN 1 ELSE max) \in 1 .. MaxConns
        BY SarAssumption
      <3> QED BY <2>5, <3>1, ResizedType DEF SetMaxLogicalConns, TypeOK
    <2>6. ASSUME NEW max \in Limits,
                 SetMaxControlPayloadSize(max) \/ SetMaxDataPayloadSize(max)
          PROVE  TypeOK'
      <3>1. /\ (IF max < MinControlLimit THEN MinControlLimit ELSE max) \in Nat \ {0}
            /\ (IF max < 1 THEN 1 ELSE max) \in Nat \ {0}
        BY SarAssumption
      <3> QED BY <2>6, <3>1
              DEF SetMaxControlPayloadSize, SetMaxDataPayloadSize, TypeOK, SarState
    <2>7. ASSUME NEW c \in Cids, NEW n \in Grants,
                 SetInitialCredits(c, n) \/ AddCredits(c, n)
          PROVE  TypeOK'
      <3>1. n \in 0 .. Unlimited /\ n \in Int
        BY SarAssumption
      <3>2. [sar EXCEPT !.conn[c].credits = n, !.due[c] = n] \in SarState
        BY <3>1, SetAccountType DEF TypeOK
      <3> QED BY <2>7, <3>1, <3>2, TakeCreditsType
              DEF SetInitialCredits, AddCredits, TypeOK
    <2>8. ASSUME NEW hal \in HalOutcomes, StartWrite(hal) PROVE TypeOK'
      <3>1. [sar EXCEPT !.start_write = FALSE] \in SarState
        BY DEF TypeOK, SarState
      <3> QED BY <2>8, <3>1, AttemptWriteType DEF StartWrite, TypeOK
    <2>9. ASSUME NEW hal \in HalOutcomes, NEW garbage \in BOOLEAN,
                 NEW r \in Reactions, WriteCompleted(hal, garbage, r)
          PROVE  TypeOK'
      <3> DEFINE s == [sar EXCEPT !.write_pending = FALSE]
      <3>1. s \in SarState /\ [s EXCEPT !.writing = NullPacket] \in SarState
        BY ChannelFacts DEF TypeOK, SarState
      <3> QED BY <2>9, <3>1, CompleteType, AttemptWriteType
              DEF WriteCompleted, TypeOK
    <2>10. ASSUME NEW r \in Reactions, NEW e \in {Ignore, StartOver},
                  WriteFailed(r, e) \/ HalError(e)
           PROVE  TypeOK'
      <3>1. e \in Reactions
        BY DEF Reactions
      <3> QED BY <2>10, <3>1, DroppedType, CompleteType, ErrorType
              DEF WriteFailed, HalError, TypeOK
    <2>11. CASE UNCHANGED sar
      BY <2>11 DEF TypeOK
    <2>12. Reactions # {}
      BY DEF Reactions
    <2> QED BY <2>1, <2>2, <2>3, <2>4, <2>5, <2>6, <2>7, <2>8, <2>9, <2>10,
               <2>11, <2>12 DEF Next, Client, Idle, Hal
  <1> QED BY <1>1, <1>2, PTL DEF Spec

-----------------------------------------------------------------------------
(***************************************************************************)
(* One write in flight, and no lost wakeup. The client's callbacks run in  *)
(* states where nothing is being written and perhaps nothing is scheduled  *)
(* (Quiet); attempt_write and schedule_write establish the two invariants. *)
(***************************************************************************)
Steady(s) == IsWriting(s) <=> s.write_pending
Quiet(s) == ~IsWriting(s) /\ ~s.write_pending
Woken(s) == CanWrite(s) => s.start_write \/ s.failed

\* nci_sar_schedule_write never loses a wakeup that is already there.
LEMMA ScheduleKeeps ==
  ASSUME NEW s \in SarState
  PROVE  /\ ScheduleWrite(s).writing = s.writing
         /\ ScheduleWrite(s).write_pending = s.write_pending
         /\ Woken(ScheduleWrite(s))
  <1>1. /\ ScheduleWrite(s).writing = s.writing
        /\ ScheduleWrite(s).write_pending = s.write_pending
        /\ ScheduleWrite(s).cmd = s.cmd /\ ScheduleWrite(s).conn = s.conn
        /\ ScheduleWrite(s).max_logical_conns = s.max_logical_conns
        /\ ScheduleWrite(s).start_write = (s.start_write \/ CanWrite(s))
    BY DEF ScheduleWrite, SarState
  <1>2. CanWrite(ScheduleWrite(s)) = CanWrite(s)
    BY <1>1 DEF CanWrite, Ready, ActiveCids, IsWriting
  <1> QED BY <1>1, <1>2 DEF Woken

\* The write in progress does not depend on the contents of the queues.
LEMMA SetQueueKeeps ==
  ASSUME NEW s \in SarState, NEW ch, NEW q
  PROVE  /\ SetQueue(s, ch, q).writing = s.writing
         /\ SetQueue(s, ch, q).write_pending = s.write_pending
         /\ SetQueue(s, ch, q).start_write = s.start_write
         /\ SetQueue(s, ch, q).failed = s.failed
         /\ SetQueue(s, ch, q).max_logical_conns = s.max_logical_conns
  BY DEF SetQueue, SarState

\* nci_sar_send schedules a write for what it queues, or one is under way.
LEMMA SendKeeps ==
  ASSUME NEW s \in SarState, NEW ch \in Channels, NEW len \in Nat
  PROVE  /\ Send(s, ch, len).writing = s.writing
         /\ Send(s, ch, len).write_pending = s.write_pending
         /\ Woken(Send(s, ch, len))
  <1> DEFINE id == NextPacketId(s)
             out == [id |-> id, cid |-> ch, len |-> len, pos |-> 0,
                     complete |-> TRUE, dangling |-> FALSE]
             t == [s EXCEPT !.last_packet_id = id, !.live = @ \cup {id}]
             q == Enqueue(QueueOf(s, ch), out)
  <1>1. id \in PacketIds /\ id # 0
    BY NextPacketIdType
  <1>2. out \in Packet
    BY <1>1 DEF Packet
  <1>3. t \in SarState /\ t.writing = s.writing /\ t.write_pending = s.write_pending
    BY <1>1 DEF SarState
  <1>4. q \in Queue
    BY <1>2, EnqueueType, QueueOfType
  <1>5. Send(s, ch, len) = ScheduleWrite(SetQueue(t, ch, q))
    BY DEF Send
  <1> HIDE DEF t, q
  <1>6. SetQueue(t, ch, q) \in SarState
    BY <1>3, <1>4, SetQueueType
  <1> QED BY <1>3, <1>5, <1>6, ScheduleKeeps, SetQueueKeeps

\* Nothing is queued, scheduled or being written after nci_sar_reset.
LEMMA ClearedIsQuiet ==
  ASSUME NEW s \in SarState
  PROVE  Quiet(Cleared(s)) /\ Woken(Cleared(s))
  <1>1. /\ Cleared(s).writing = NullPacket /\ ~Cleared(s).write_pending
        /\ Cleared(s).cmd = EmptyQueue
        /\ Cleared(s).conn = [c \in Cids |-> NewConnection]
        /\ Cleared(s).max_logical_conns = s.max_logical_conns
    BY DEF Cleared, SarState
  <1>2. Ready(Cleared(s)) = {}
    <2>1. \A c \in ActiveCids(Cleared(s)) : c \in Cids
      BY <1>1, SarAssumption DEF ActiveCids, Cids, SarState
    <2> QED BY <1>1, <2>1 DEF Ready, NewConnection
  <1> QED BY <1>1, <1>2 DEF Quiet, Woken, CanWrite, IsWriting, NullPacket, EmptyQueue

\* A client callback keeps the writing side consistent, whatever it calls.
LEMMA ReactKeeps ==
  ASSUME NEW s \in SarState, NEW r \in Reactions
  PROVE  /\ Steady(s) => Steady(React(s, r))
         /\ Quiet(s) => Quiet(React(s, r))
         /\ Woken(s) => Woken(React(s, r))
         /\ s.failed => Woken(React(s, r))
  <1>1. CASE r.call = "reset"
    BY <1>1, ClearedIsQuiet DEF React, Steady, Quiet
  <1>2. CASE r.call = "send" /\ r.ch < s.max_logical_conns /\ HasRoom(s)
    <2>1. React(s, r) = Send(s, r.ch, r.len)
      BY <1>2 DEF React
    <2>2. r.ch \in Channels /\ r.len \in Nat
      BY <1>2, ReactionFacts
    <2> QED BY <2>1, <2>2, SendKeeps DEF Steady, Quiet, IsWriting
  <1>3. CASE /\ r.call # "reset"
             /\ ~(r.call = "send" /\ r.ch < s.max_logical_conns /\ HasRoom(s))
    BY <1>3 DEF React, Woken
  <1> QED BY <1>1, <1>2, <1>3

\* Freeing a packet does not disturb the write in progress.
LEMMA FreeKeeps ==
  ASSUME NEW s \in SarState, NEW ids
  PROVE  /\ Free(s, ids).writing = s.writing
         /\ Free(s, ids).write_pending = s.write_pending
         /\ Free(s, ids).cmd = s.cmd /\ Free(s, ids).conn = s.conn
         /\ Free(s, ids).start_write = s.start_write
         /\ Free(s, ids).failed = s.failed
         /\ Free(s, ids).max_logical_conns = s.max_logical_conns
         /\ CanWrite(Free(s, ids)) = CanWrite(s)
  BY DEF Free, SarState, CanWrite, Ready, ActiveCids, IsWriting

\* The completion callback runs with no write in progress and may start one.
LEMMA CompleteKeeps ==
  ASSUME NEW s \in SarState, NEW out, NEW r \in Reactions, Quiet(s)
  PROVE  Quiet(Complete(s, out, r))
  BY ReactKeeps, ReactType, FreeKeeps DEF Complete, Quiet, IsWriting

\* The error callback keeps the writing side consistent.
LEMMA ErrorKeeps ==
  ASSUME NEW s \in SarState, NEW r \in Reactions
  PROVE  /\ Steady(s) => Steady(Error(s, r))
         /\ Woken(Error(s, r))
  <1> DEFINE t == [s EXCEPT !.failed = TRUE]
  <1>1. t \in SarState /\ t.failed /\ t.writing = s.writing
          /\ t.write_pending = s.write_pending
    BY DEF SarState
  <1>2. Error(s, r) = React(t, r)
    BY DEF Error
  <1> HIDE DEF t
  <1> QED BY <1>1, <1>2, ReactKeeps DEF Steady, IsWriting

\* Going on with a packet leaves nothing queued without a wakeup.
LEMMA ContinueKeeps ==
  ASSUME NEW s \in SarState, NEW garbage
  PROVE  Continue(s, garbage).write_pending = s.write_pending
  BY DEF Continue, SpendCredit, SetQueue, SarState

\* Taking a packet off its queue makes it the one being written.
LEMMA TakeWrites ==
  ASSUME NEW s \in SarState, NEW ch \in Channels, QueueOf(s, ch).chain # << >>
  PROVE  /\ IsWriting(Take(s, ch))
         /\ Take(s, ch).write_pending = s.write_pending
  <1> DEFINE out == Head(QueueOf(s, ch).chain)
             t == [s EXCEPT !.writing = out]
  <1>1. out \in Packet
    BY QueueOfType, DequeueType
  <1>2. t \in SarState /\ t.writing = out /\ t.write_pending = s.write_pending
    BY <1>1 DEF SarState
  <1>3. out.id # 0
    BY <1>1 DEF Packet
  <1>4. Take(s, ch) = SetQueue(t, ch, Dequeue(QueueOf(s, ch)))
    BY DEF Take
  <1> HIDE DEF t, out
  <1> QED BY <1>2, <1>3, <1>4, SetQueueKeeps DEF IsWriting

\* When nci_sar_can_write says yes, a packet is chosen.
LEMMA PickWrites ==
  ASSUME NEW s \in SarState
  PROVE  /\ Pick(s).write_pending = s.write_pending
         /\ IsWriting(Pick(s)) \/ ~CanWrite(Pick(s))
  <1> DEFINE lowest == CHOOSE c \in Ready(s) : \A d \in Ready(s) : c <= d
  <1>1. CASE IsWriting(s)
    BY <1>1 DEF Pick
  <1>2. CASE ~IsWriting(s) /\ s.cmd.chain # << >>
    <2>1. Pick(s) = Take(s, CommandChannel)
      BY <1>2 DEF Pick
    <2> QED BY <1>2, <2>1, TakeWrites, ChannelFacts DEF QueueOf
  <1>3. CASE ~IsWriting(s) /\ s.cmd.chain = << >> /\ Ready(s) # {}
    <2>1. lowest \in Ready(s)
      BY <1>3, LowestReady
    <2>2. Pick(s) = Take(SpendCredit(s, lowest), lowest)
      BY <1>3 DEF Pick
    <2> HIDE DEF lowest
    <2>3. /\ lowest \in Cids /\ lowest # CommandChannel
          /\ s.conn[lowest].credits > 0
          /\ s.conn[lowest].out.chain # << >>
      BY <2>1, ReadyFacts, ChannelFacts
    <2>4. SpendCredit(s, lowest) \in SarState
      BY <2>3, SpendCreditType
    <2>5. /\ SpendCredit(s, lowest).conn[lowest].out = s.conn[lowest].out
          /\ SpendCredit(s, lowest).write_pending = s.write_pending
      BY <2>3 DEF SpendCredit, SarState, Connection
    <2> QED BY <2>2, <2>3, <2>4, <2>5, TakeWrites, ChannelFacts DEF QueueOf
  <1>4. CASE ~IsWriting(s) /\ s.cmd.chain = << >> /\ Ready(s) = {}
    BY <1>4 DEF Pick, CanWrite
  <1> QED BY <1>1, <1>2, <1>3, <1>4

\* After handing a segment to the HAL either the completion will come or the
\* error was reported.
LEMMA SubmitKeeps ==
  ASSUME NEW s \in SarState, NEW hal \in HalOutcomes, ~s.write_pending,
         IsWriting(s) \/ ~CanWrite(s)
  PROVE  Steady(Submit(s, hal)) /\ Woken(Submit(s, hal))
  <1> DEFINE up == [s EXCEPT !.started = @ \/ hal.starts]
             failure == Error(Complete(Dropped(up), s.writing, hal.r), hal.e)
  <1>1. up \in SarState /\ up.writing = s.writing
    BY HalOutcomeFacts DEF SarState
  <1>2. Submit(s, hal) = IF ~IsWriting(s) THEN s ELSE IF hal.accepts THEN OnWire(up)
                         ELSE ScheduleWrite(failure)
    BY DEF Submit
  <1> HIDE DEF up
  <1>3. CASE ~IsWriting(s)
    BY <1>2, <1>3 DEF Steady, Woken
  <1>4. CASE IsWriting(s) /\ hal.accepts
    <2>1. OnWire(up).write_pending /\ OnWire(up).writing.id = up.writing.id
      <3>1. up.writing \in Packet
        BY <1>1, <1>4, WritingFacts DEF IsWriting
      <3> QED BY <1>1, <3>1 DEF OnWire, SarState, Packet
    <2> QED BY <1>1, <1>2, <1>4, <2>1 DEF Steady, Woken, CanWrite, IsWriting
  <1>5. CASE IsWriting(s) /\ ~hal.accepts
    <2>1. Dropped(up) \in SarState
      BY <1>1, DroppedType
    <2>2. Quiet(Dropped(up))
      BY <1>1 DEF Dropped, Quiet, IsWriting, NullPacket, SarState
    <2>3. /\ Complete(Dropped(up), s.writing, hal.r) \in SarState
          /\ Quiet(Complete(Dropped(up), s.writing, hal.r))
      BY <2>1, <2>2, CompleteType, CompleteKeeps, HalOutcomeFacts
    <2>4. failure \in SarState /\ Steady(failure)
      BY <2>3, ErrorType, ErrorKeeps, HalOutcomeFacts DEF Steady, Quiet
    <2> HIDE DEF failure
    <2> QED BY <1>2, <1>5, <2>4, ScheduleKeeps DEF Steady, IsWriting
  <1> QED BY <1>3, <1>4, <1>5, HalOutcomeFacts

\* nci_sar_attempt_write keeps the writing side consistent.
LEMMA AttemptWriteKeeps ==
  ASSUME NEW s \in SarState, NEW hal \in HalOutcomes, NEW garbage,
         ~s.write_pending
  PROVE  /\ Steady(AttemptWrite(s, hal, garbage))
         /\ Woken(AttemptWrite(s, hal, garbage))
  <1> DEFINE t == Pick(Continue(s, garbage))
  <1>1. t \in SarState /\ ~t.write_pending
    BY ContinueType, PickType, ContinueKeeps, PickWrites
  <1>2. IsWriting(t) \/ ~CanWrite(t)
    BY ContinueType, PickWrites
  <1>3. AttemptWrite(s, hal, garbage) = Submit(t, hal)
    BY DEF AttemptWrite
  <1> HIDE DEF t
  <1> QED BY <1>1, <1>2, <1>3, SubmitKeeps

(***************************************************************************)
(* Whatever the client does, between two events a packet is being written  *)
(* exactly while a HAL write is in flight. Nothing is asked of the caller: *)
(* this one survives the misuses that break the credits.                   *)
(***************************************************************************)
THEOREM OneWrite == Spec => []OneWriteInFlight
  <1>1. Init => Steady(sar)
    BY DEF Init, Steady, IsWriting, NullPacket
  <1>2. TypeOK /\ Steady(sar) /\ [Next]_sar => Steady(sar)'
    <2> SUFFICES ASSUME sar \in SarState, Steady(sar), [Next]_sar
                 PROVE  Steady(sar')
      BY DEF TypeOK, Steady, IsWriting
    <2>1. ASSUME NEW p \in Sends, SendPacket(p.ch, p.len) PROVE Steady(sar')
      <3>1. p.ch \in Channels /\ p.len \in Nat
        BY ChannelFacts, SarAssumption DEF Sends
      <3> QED BY <2>1, <3>1, SendKeeps DEF SendPacket, Steady, IsWriting
    <2>2. ASSUME NEW id \in sar.live, Cancel(id) PROVE Steady(sar')
      <3>1. CASE IsWriting(sar) /\ sar' = [sar EXCEPT !.writing.complete = FALSE]
        <4>1. /\ sar'.writing.id = sar.writing.id
              /\ sar'.write_pending = sar.write_pending
          BY <3>1, WritingFacts DEF Packet, SarState
        <4> QED BY <4>1 DEF Steady, IsWriting
      <3>2. ASSUME NEW ch \in Channels, NEW i \in DOMAIN QueueOf(sar, ch).chain,
                   sar' = Free(SetQueue(sar, ch, Unlink(QueueOf(sar, ch), i)), {id})
            PROVE  Steady(sar')
        <4> DEFINE t == SetQueue(sar, ch, Unlink(QueueOf(sar, ch), i))
        <4>1. t \in SarState
          BY QueueOfType, UnlinkType, SetQueueType
        <4>2. t.writing = sar.writing /\ t.write_pending = sar.write_pending
          BY SetQueueKeeps
        <4>3. sar' = Free(t, {id})
          BY <3>2
        <4> HIDE DEF t
        <4> QED BY <4>1, <4>2, <4>3, FreeKeeps DEF Steady, IsWriting
      <3> QED BY <2>2, <3>1, <3>2 DEF Cancel
    <2>3. CASE Start
      BY <2>3 DEF Start, SarState, Steady, IsWriting
    <2>4. ASSUME NEW r \in Reactions, Reset(r) PROVE Steady(sar')
      BY <2>4, ClearedType, ClearedIsQuiet, ReactKeeps DEF Reset, Steady, Quiet
    <2>5. ASSUME NEW max \in 0 .. MaxConns, NEW moved \in BOOLEAN,
                 SetMaxLogicalConns(max, moved)
          PROVE  Steady(sar')
      <3> DEFINE n == IF max = 0 THEN 1 ELSE max
      <3>1. sar' = Resized(sar, n, moved)
        BY <2>5 DEF SetMaxLogicalConns
      <3> HIDE DEF n
      <3>2. /\ sar'.writing = Repoint(sar.writing, n, moved)
            /\ sar'.write_pending = sar.write_pending
        BY <3>1 DEF Resized, SarState
      <3>3. Repoint(sar.writing, n, moved).id = sar.writing.id
        BY WritingFacts DEF Repoint, Packet, NullPacket
      <3> QED BY <3>2, <3>3 DEF Steady, IsWriting
    <2>6. ASSUME NEW max \in Limits,
                 SetMaxControlPayloadSize(max) \/ SetMaxDataPayloadSize(max)
          PROVE  Steady(sar')
      BY <2>6 DEF SetMaxControlPayloadSize, SetMaxDataPayloadSize, SarState,
         Steady, IsWriting
    <2>7. ASSUME NEW c \in Cids, NEW n \in Grants,
                 SetInitialCredits(c, n) \/ AddCredits(c, n)
          PROVE  Steady(sar')
      <3>1. CASE SetInitialCredits(c, n)
        BY <3>1 DEF SetInitialCredits, SarState, Steady, IsWriting
      <3>2. CASE AddCredits(c, n)
        <4> DEFINE t == [sar EXCEPT !.conn[c].credits = Sum(@, n),
                                    !.due[c] = Sum(@, n)]
        <4>1. n \in 0 .. Unlimited
          BY SarAssumption
        <4>2. t \in SarState
          BY <4>1, CreditedType
        <4>3. t.writing = sar.writing /\ t.write_pending = sar.write_pending
          BY DEF SarState
        <4>4. sar' \in {sar, t, ScheduleWrite(t)}
          BY <3>2 DEF AddCredits, TakeCredits
        <4> HIDE DEF t
        <4> QED BY <4>2, <4>3, <4>4, ScheduleKeeps DEF Steady, IsWriting
      <3> QED BY <2>7, <3>1, <3>2
    <2>8. ASSUME NEW hal \in HalOutcomes, StartWrite(hal) PROVE Steady(sar')
      <3> DEFINE t == [sar EXCEPT !.start_write = FALSE]
      <3>1. /\ t \in SarState /\ t.writing = sar.writing
            /\ t.write_pending = sar.write_pending
        BY DEF SarState
      <3>2. sar' = AttemptWrite(t, hal, FALSE)
        BY <2>8 DEF StartWrite
      <3> HIDE DEF t
      <3>3. CASE t.write_pending
        BY <3>1, <3>2, <3>3 DEF AttemptWrite, Steady, IsWriting
      <3>4. CASE ~t.write_pending
        BY <3>1, <3>2, <3>4, AttemptWriteKeeps
      <3> QED BY <3>3, <3>4
    <2>9. ASSUME NEW hal \in HalOutcomes, NEW garbage \in BOOLEAN,
                 NEW r \in Reactions, WriteCompleted(hal, garbage, r)
          PROVE  Steady(sar')
      <3> DEFINE s == [sar EXCEPT !.write_pending = FALSE]
                 idle == [s EXCEPT !.writing = NullPacket]
                 done == Complete(idle, sar.writing, r)
      <3>1. s \in SarState /\ ~s.write_pending
        BY DEF SarState
      <3>2. idle \in SarState /\ Quiet(idle)
        BY DEF SarState, Quiet, IsWriting, NullPacket
      <3>3. \/ sar' = AttemptWrite(done, hal, garbage)
            \/ sar' = AttemptWrite(s, hal, garbage)
        BY <2>9 DEF WriteCompleted
      <3> HIDE DEF s, idle
      <3>4. done \in SarState /\ ~done.write_pending
        BY <3>2, CompleteType, CompleteKeeps DEF Quiet
      <3> HIDE DEF done
      <3> QED BY <3>1, <3>3, <3>4, AttemptWriteKeeps
    <2>10. ASSUME NEW r \in Reactions, NEW e \in {Ignore, StartOver}, WriteFailed(r, e)
           PROVE  Steady(sar')
      <3>1. e \in Reactions
        BY DEF Reactions
      <3>2. Dropped(sar) \in SarState /\ Quiet(Dropped(sar))
        BY DroppedType DEF Dropped, Quiet, IsWriting, NullPacket, SarState
      <3>3. /\ Complete(Dropped(sar), sar.writing, r) \in SarState
            /\ Quiet(Complete(Dropped(sar), sar.writing, r))
        BY <3>2, CompleteType, CompleteKeeps
      <3> QED BY <2>10, <3>1, <3>3, ErrorKeeps DEF WriteFailed, Steady, Quiet
    <2>11. ASSUME NEW e \in {Ignore, StartOver}, HalError(e) PROVE Steady(sar')
      <3>1. e \in Reactions
        BY DEF Reactions
      <3> QED BY <2>11, <3>1, ErrorKeeps DEF HalError
    <2>12. CASE UNCHANGED sar
      BY <2>12
    <2> QED BY <2>1, <2>2, <2>3, <2>4, <2>5, <2>6, <2>7, <2>8, <2>9, <2>10,
               <2>11, <2>12 DEF Next, Client, Idle, Hal
  <1>3. Steady(sar) => OneWriteInFlight
    BY DEF Steady, OneWriteInFlight
  <1> QED BY <1>1, <1>2, <1>3, TypeCorrect, PTL DEF Spec

(***************************************************************************)
(* Under a caller that keeps to the asserted preconditions, in every state *)
(* between two events at most one packet is being written, exactly while a *)
(* HAL write is in flight, and whatever nci_sar_can_write() allows to be   *)
(* written has the idle callback scheduled unless the HAL has failed.      *)
(***************************************************************************)
THEOREM WriteProgress ==
  ASSUME StrictCaller
  PROVE  Spec => [](OneWriteInFlight /\ NoLostWakeup)
  <1>1. Init => Steady(sar) /\ Woken(sar)
    <2> SUFFICES ASSUME Init PROVE Steady(sar) /\ Woken(sar)
      OBVIOUS
    <2>1. Ready(sar) = {}
      BY SarAssumption DEF Init, Ready, ActiveCids, Cids, NewConnection
    <2>2. sar.writing.id = 0 /\ ~sar.write_pending /\ sar.cmd.chain = << >>
      BY DEF Init, NullPacket, EmptyQueue
    <2> QED BY <2>1, <2>2 DEF Steady, Woken, CanWrite, IsWriting
  <1>2. TypeOK /\ Steady(sar) /\ Woken(sar) /\ [Next]_sar
           => Steady(sar)' /\ Woken(sar)'
    <2> SUFFICES ASSUME sar \in SarState, Steady(sar), Woken(sar), [Next]_sar
                 PROVE  Steady(sar') /\ Woken(sar')
      BY DEF TypeOK, Steady, Woken, IsWriting, CanWrite, Ready, ActiveCids
    <2>1. ASSUME NEW p \in Sends, SendPacket(p.ch, p.len)
          PROVE  Steady(sar') /\ Woken(sar')
      <3>1. p.ch \in Channels /\ p.len \in Nat
        BY ChannelFacts, SarAssumption DEF Sends
      <3> QED BY <2>1, <3>1, SendKeeps DEF SendPacket, Steady, IsWriting
    <2>2. ASSUME NEW id \in sar.live, Cancel(id) PROVE Steady(sar') /\ Woken(sar')
      <3>1. CASE IsWriting(sar) /\ sar' = [sar EXCEPT !.writing.complete = FALSE]
        <4>1. /\ sar'.writing.id = sar.writing.id
              /\ sar'.write_pending = sar.write_pending
          BY <3>1, WritingFacts DEF Packet, SarState
        <4> QED BY <3>1, <4>1 DEF Steady, Woken, CanWrite, IsWriting
      <3>2. ASSUME NEW ch \in Channels, NEW i \in DOMAIN QueueOf(sar, ch).chain,
                   sar' = Free(SetQueue(sar, ch, Unlink(QueueOf(sar, ch), i)), {id})
            PROVE  Steady(sar') /\ Woken(sar')
        <4> DEFINE t == SetQueue(sar, ch, Unlink(QueueOf(sar, ch), i))
        <4>1. t \in SarState
          BY QueueOfType, UnlinkType, SetQueueType
        <4>2. QueueOf(sar, ch).chain # << >>
          OBVIOUS
        <4>3. CanWrite(t) => CanWrite(sar)
          <5>1. t.writing = sar.writing /\ t.max_logical_conns = sar.max_logical_conns
            BY SetQueueKeeps
          <5>2. ch = CommandChannel => t.conn = sar.conn /\ sar.cmd.chain # << >>
            BY <4>2 DEF SetQueue, QueueOf, SarState
          <5>3. ASSUME ch # CommandChannel, NEW c \in Cids,
                       t.conn[c].out.chain # << >>, t.conn[c].credits > 0
                PROVE  sar.conn[c].out.chain # << >> /\ sar.conn[c].credits > 0
            BY <4>2, <5>3, ChannelFacts DEF SetQueue, QueueOf, SarState, Connection
          <5>4. ch # CommandChannel => t.cmd = sar.cmd
            BY DEF SetQueue, SarState
          <5>5. ActiveCids(t) = ActiveCids(sar) /\ ActiveCids(t) \subseteq Cids
            BY <5>1, SarAssumption DEF ActiveCids, Cids, SarState
          <5>6. CASE ch = CommandChannel
            BY <5>1, <5>2, <5>6 DEF CanWrite, IsWriting
          <5>7. CASE ch # CommandChannel
            <6>1. Ready(t) \subseteq Ready(sar)
              BY <5>3, <5>5, <5>7 DEF Ready
            <6> QED BY <5>1, <5>4, <5>7, <6>1 DEF CanWrite, IsWriting
          <5> QED BY <5>6, <5>7
        <4>4. /\ t.writing = sar.writing /\ t.write_pending = sar.write_pending
              /\ t.start_write = sar.start_write /\ t.failed = sar.failed
          BY SetQueueKeeps
        <4> HIDE DEF t
        <4>5. sar' = Free(t, {id})
          BY <3>2 DEF t
        <4> QED BY <4>1, <4>3, <4>4, <4>5, FreeKeeps DEF Steady, Woken, IsWriting
      <3> QED BY <2>2, <3>1, <3>2 DEF Cancel
    <2>3. CASE Start
      BY <2>3 DEF Start, SarState, Steady, Woken, CanWrite, Ready, ActiveCids, IsWriting
    <2>4. ASSUME NEW r \in Reactions, Reset(r) PROVE Steady(sar') /\ Woken(sar')
      BY <2>4, ClearedType, ClearedIsQuiet, ReactKeeps DEF Reset, Steady, Quiet
    <2>5. ASSUME NEW max \in 0 .. MaxConns, NEW moved \in BOOLEAN,
                 SetMaxLogicalConns(max, moved)
          PROVE  Steady(sar') /\ Woken(sar')
      <3> DEFINE n == IF max = 0 THEN 1 ELSE max
      <3>1. /\ \A c \in Cids : sar.conn[c].out.chain = << >>
            /\ sar.writing.cid = CommandChannel
            /\ sar' = Resized(sar, n, moved)
        BY <2>5 DEF SetMaxLogicalConns
      <3>2. n \in 1 .. MaxConns
        BY SarAssumption
      <3> HIDE DEF n
      <3>3. /\ sar'.writing = sar.writing /\ sar'.write_pending = sar.write_pending
            /\ sar'.cmd = sar.cmd /\ sar'.start_write = sar.start_write
            /\ sar'.failed = sar.failed
            /\ \A c \in Cids : sar'.conn[c].out.chain = << >>
        <4>1. /\ sar'.writing = Repoint(sar.writing, n, moved)
              /\ sar'.write_pending = sar.write_pending
              /\ sar'.cmd = sar.cmd /\ sar'.start_write = sar.start_write
              /\ sar'.failed = sar.failed
          BY <3>1 DEF Resized, SarState
        <4>2. ASSUME NEW c \in Cids PROVE sar'.conn[c].out.chain = << >>
          <5>1. sar'.conn[c] =
                  IF c >= n THEN NewConnection
                  ELSE [credits |-> sar.conn[c].credits,
                        out |-> [chain |-> [i \in 1 .. Len(sar.conn[c].out.chain) |->
                                     Repoint(sar.conn[c].out.chain[i], n, moved)],
                                 last |-> sar.conn[c].out.last]]
            BY <3>1 DEF Resized, SarState
          <5>2. Len(sar.conn[c].out.chain) = 0
            BY <3>1
          <5> QED BY <5>1, <5>2 DEF NewConnection, EmptyQueue
        <4> QED BY <3>1, <4>1, <4>2 DEF Repoint
      <3>4. sar' \in SarState
        BY <3>1, <3>2, ResizedType
      <3>5. Ready(sar') = {} 
        BY <3>3, <3>4, ReadyFacts
      <3> QED BY <3>3, <3>5 DEF Steady, Woken, CanWrite, IsWriting
    <2>6. ASSUME NEW max \in Limits,
                 SetMaxControlPayloadSize(max) \/ SetMaxDataPayloadSize(max)
          PROVE  Steady(sar') /\ Woken(sar')
      BY <2>6 DEF SetMaxControlPayloadSize, SetMaxDataPayloadSize, SarState,
         Steady, Woken, CanWrite, Ready, ActiveCids, IsWriting
    <2>7. ASSUME NEW c \in Cids, NEW n \in Grants, SetInitialCredits(c, n)
          PROVE  Steady(sar') /\ Woken(sar')
      <3>1. /\ sar'.writing = sar.writing /\ sar'.write_pending = sar.write_pending
            /\ sar'.cmd = sar.cmd /\ sar'.start_write = sar.start_write
            /\ sar'.failed = sar.failed
            /\ sar'.max_logical_conns = sar.max_logical_conns
            /\ \A d \in Cids : d # c => sar'.conn[d] = sar.conn[d]
            /\ sar'.conn[c].out.chain = << >>
        BY <2>7 DEF SetInitialCredits, SarState, Connection
      <3>2. ActiveCids(sar') = ActiveCids(sar) /\ ActiveCids(sar) \subseteq Cids
        BY <3>1, SarAssumption DEF ActiveCids, Cids, SarState
      <3>3. Ready(sar') \subseteq Ready(sar)
        BY <3>1, <3>2 DEF Ready
      <3> QED BY <3>1, <3>3 DEF Steady, Woken, CanWrite, IsWriting
    <2>8. ASSUME NEW c \in Cids, NEW n \in Grants, AddCredits(c, n)
          PROVE  Steady(sar') /\ Woken(sar')
      <3> DEFINE t == [sar EXCEPT !.conn[c].credits = Sum(@, n), !.due[c] = Sum(@, n)]
      <3>1. n \in 0 .. Unlimited
        BY SarAssumption
      <3>2. t \in SarState
        BY <3>1, CreditedType
      <3>3. /\ t.writing = sar.writing /\ t.write_pending = sar.write_pending
            /\ t.cmd = sar.cmd /\ t.start_write = sar.start_write
            /\ t.failed = sar.failed
            /\ t.max_logical_conns = sar.max_logical_conns
            /\ \A d \in Cids : d # c => t.conn[d] = sar.conn[d]
            /\ t.conn[c].out = sar.conn[c].out
        BY DEF SarState, Connection
      <3>4. sar' = IF n = 0 THEN sar
                   ELSE IF t.conn[c].out.chain # << >> THEN ScheduleWrite(t) ELSE t
        BY <2>8 DEF AddCredits, TakeCredits
      <3> HIDE DEF t
      <3>5. ActiveCids(t) = ActiveCids(sar) /\ ActiveCids(sar) \subseteq Cids
        <4>1. sar.max_logical_conns \in 1 .. MaxConns
          BY DEF SarState
        <4> QED BY <3>3, <4>1, SarAssumption DEF ActiveCids, Cids
      <3>6. CASE n = 0
        BY <3>4, <3>6
      <3>7. CASE n # 0 /\ t.conn[c].out.chain # << >>
        BY <3>2, <3>3, <3>4, <3>7, ScheduleKeeps DEF Steady, IsWriting
      <3>8. CASE n # 0 /\ t.conn[c].out.chain = << >>
        <4>1. Ready(t) \subseteq Ready(sar)
          BY <3>3, <3>5, <3>8 DEF Ready
        <4> QED BY <3>3, <3>4, <3>8, <4>1 DEF Steady, Woken, CanWrite, IsWriting
      <3> QED BY <3>6, <3>7, <3>8
    <2>9. ASSUME NEW hal \in HalOutcomes, StartWrite(hal)
          PROVE  Steady(sar') /\ Woken(sar')
      <3> DEFINE t == [sar EXCEPT !.start_write = FALSE]
      <3>1. /\ t \in SarState /\ t.writing = sar.writing
            /\ t.write_pending = sar.write_pending
        BY DEF SarState
      <3>2. sar' = AttemptWrite(t, hal, FALSE)
        BY <2>9 DEF StartWrite
      <3> HIDE DEF t
      <3>3. CASE t.write_pending
        BY <3>1, <3>2, <3>3 DEF AttemptWrite, Steady, Woken, CanWrite, IsWriting
      <3>4. CASE ~t.write_pending
        BY <3>1, <3>2, <3>4, AttemptWriteKeeps
      <3> QED BY <3>3, <3>4
    <2>10. ASSUME NEW hal \in HalOutcomes, NEW garbage \in BOOLEAN,
                  NEW r \in Reactions, WriteCompleted(hal, garbage, r)
           PROVE  Steady(sar') /\ Woken(sar')
      <3> DEFINE s == [sar EXCEPT !.write_pending = FALSE]
                 idle == [s EXCEPT !.writing = NullPacket]
                 done == Complete(idle, sar.writing, r)
      <3>1. s \in SarState /\ ~s.write_pending
        BY DEF SarState
      <3>2. idle \in SarState /\ Quiet(idle)
        BY DEF SarState, Quiet, IsWriting, NullPacket
      <3>3. \/ sar' = AttemptWrite(done, hal, garbage)
            \/ sar' = AttemptWrite(s, hal, garbage)
        BY <2>10 DEF WriteCompleted
      <3> HIDE DEF s, idle
      <3>4. done \in SarState /\ ~done.write_pending
        BY <3>2, CompleteType, CompleteKeeps DEF Quiet
      <3> HIDE DEF done
      <3> QED BY <3>1, <3>3, <3>4, AttemptWriteKeeps
    <2>11. ASSUME NEW r \in Reactions, NEW e \in {Ignore, StartOver}, WriteFailed(r, e)
           PROVE  Steady(sar') /\ Woken(sar')
      <3>1. e \in Reactions
        BY DEF Reactions
      <3>2. Dropped(sar) \in SarState /\ Quiet(Dropped(sar))
        BY DroppedType DEF Dropped, Quiet, IsWriting, NullPacket, SarState
      <3>3. /\ Complete(Dropped(sar), sar.writing, r) \in SarState
            /\ Quiet(Complete(Dropped(sar), sar.writing, r))
        BY <3>2, CompleteType, CompleteKeeps
      <3> QED BY <2>11, <3>1, <3>3, ErrorKeeps DEF WriteFailed, Steady, Quiet
    <2>12. ASSUME NEW e \in {Ignore, StartOver}, HalError(e)
           PROVE  Steady(sar') /\ Woken(sar')
      <3>1. e \in Reactions
        BY DEF Reactions
      <3> QED BY <2>12, <3>1, ErrorKeeps DEF HalError
    <2>13. CASE UNCHANGED sar
      BY <2>13
    <2> QED BY <2>1, <2>2, <2>3, <2>4, <2>5, <2>6, <2>7, <2>8, <2>9, <2>10,
               <2>11, <2>12, <2>13 DEF Next, Client, Idle, Hal
  <1>3. Steady(sar) /\ Woken(sar) => OneWriteInFlight /\ NoLostWakeup
    BY DEF Steady, Woken, OneWriteInFlight, NoLostWakeup
  <1> QED BY <1>1, <1>2, <1>3, TypeCorrect, PTL DEF Spec
=============================================================================
