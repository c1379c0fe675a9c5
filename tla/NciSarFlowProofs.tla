-------------------------- MODULE NciSarFlowProofs --------------------------
(***************************************************************************)
(* Proof of credit based flow control (NciSar!FlowControl), for any number *)
(* of logical connections and any credit limit. It holds because a packet  *)
(* is always charged to the connection whose queue it came from (Owned),   *)
(* and because a connection never holds more credits than it is due        *)
(* (Funded); between the choice of a packet and its segment on the wire    *)
(* that segment is paid for already (Prepaid).                             *)
(***************************************************************************)
EXTENDS NciSarProofs

\* The packets whose conn pointer is the connection of channel ch.
Mine(ch) == {p \in Packet : p.cid = ch /\ ~p.dangling}

Owned(s) == /\ \A ch \in Channels : QueueOf(s, ch).chain \in Seq(Mine(ch))
            /\ ~s.writing.dangling

Funded(s) == \A c \in Cids : /\ s.conn[c].credits <= s.due[c]
                             /\ s.due[c] <= Unlimited

Prepaid(s) ==
    IsWriting(s) /\ s.writing.cid # CommandChannel =>
        \/ s.due[s.writing.cid] = Unlimited
        \/ s.conn[s.writing.cid].credits < s.due[s.writing.cid]

-----------------------------------------------------------------------------
\* The numbers of credits are small non-negative integers.
LEMMA CreditsType ==
  ASSUME NEW s \in SarState, NEW c \in Cids
  PROVE  /\ s.conn[c].credits \in 0 .. Unlimited
         /\ s.due[c] \in Int
         /\ s.conn[c].out \in Queue
  BY DEF SarState, Connection

\* Replacing one queue leaves the other queues and all the credits alone.
LEMMA QueuesAfter ==
  ASSUME NEW s \in SarState, NEW ch \in Channels, NEW q \in Queue
  PROVE  /\ \A dh \in Channels :
               QueueOf(SetQueue(s, ch, q), dh) = IF dh = ch THEN q ELSE QueueOf(s, dh)
         /\ \A c \in Cids : SetQueue(s, ch, q).conn[c].credits = s.conn[c].credits
         /\ SetQueue(s, ch, q).due = s.due
         /\ SetQueue(s, ch, q).writing = s.writing
         /\ SetQueue(s, ch, q).live = s.live
         /\ SetQueue(s, ch, q).open = s.open
         /\ SetQueue(s, ch, q).torn = s.torn
         /\ SetQueue(s, ch, q).max_logical_conns = s.max_logical_conns
  <1>1. CASE ch = CommandChannel
    BY <1>1, ChannelFacts DEF SetQueue, QueueOf, SarState
  <1>2. CASE ch # CommandChannel
    <2>1. ch \in Cids
      BY <1>2, ChannelFacts
    <2> DEFINE conn == [s.conn EXCEPT ![ch].out = q]
    <2>2. SetQueue(s, ch, q) = [s EXCEPT !.conn = conn]
      BY <1>2 DEF SetQueue, SarState
    <2>3. \A c \in Cids : /\ conn[c].credits = s.conn[c].credits
                          /\ conn[c].out = IF c = ch THEN q ELSE s.conn[c].out
      BY <2>1 DEF SarState, Connection
    <2> HIDE DEF conn
    <2>4. /\ SetQueue(s, ch, q).conn = conn /\ SetQueue(s, ch, q).cmd = s.cmd
          /\ SetQueue(s, ch, q).due = s.due
          /\ SetQueue(s, ch, q).writing = s.writing
          /\ SetQueue(s, ch, q).live = s.live
          /\ SetQueue(s, ch, q).open = s.open
          /\ SetQueue(s, ch, q).torn = s.torn
          /\ SetQueue(s, ch, q).max_logical_conns = s.max_logical_conns
      BY <2>2 DEF SarState
    <2> QED BY <1>2, <2>1, <2>3, <2>4, ChannelFacts DEF QueueOf
  <1> QED BY <1>1, <1>2

\* What happens outside the queues and the credits keeps both in order.
LEMMA SameAccounts ==
  ASSUME NEW s \in SarState, NEW t, t.cmd = s.cmd, t.conn = s.conn,
         t.due = s.due, ~t.writing.dangling, Owned(s), Funded(s)
  PROVE  Owned(t) /\ Funded(t)
  BY DEF Owned, Funded, QueueOf

\* A queue that holds packets of its own channel only may replace the old one.
LEMMA SetQueueOwned ==
  ASSUME NEW s \in SarState, NEW ch \in Channels, NEW q \in Queue,
         q.chain \in Seq(Mine(ch)), Owned(s), Funded(s)
  PROVE  Owned(SetQueue(s, ch, q)) /\ Funded(SetQueue(s, ch, q))
  BY QueuesAfter DEF Owned, Funded

\* The queue operations add packets of the channel only.
LEMMA EnqueueOwned ==
  ASSUME NEW ch, NEW q \in Queue, q.chain \in Seq(Mine(ch)), NEW p \in Mine(ch)
  PROVE  /\ Enqueue(q, p).chain \in Seq(Mine(ch))
         /\ PutBack(q, p).chain \in Seq(Mine(ch))
  BY DEF Enqueue, PutBack

\* The queue operations that remove a packet keep the others.
LEMMA DequeueOwned ==
  ASSUME NEW ch, NEW q \in Queue, q.chain \in Seq(Mine(ch)), q.chain # << >>
  PROVE  /\ Head(q.chain) \in Mine(ch)
         /\ Dequeue(q).chain \in Seq(Mine(ch))
  BY DEF Dequeue

LEMMA UnlinkOwned ==
  ASSUME NEW ch, NEW q \in Queue, q.chain \in Seq(Mine(ch)),
         NEW i \in DOMAIN q.chain
  PROVE  Unlink(q, i).chain \in Seq(Mine(ch))
  BY DEF Unlink

\* nci_sar_schedule_write touches neither the queues nor the credits.
LEMMA ScheduleOwned ==
  ASSUME NEW s \in SarState, Owned(s), Funded(s)
  PROVE  Owned(ScheduleWrite(s)) /\ Funded(ScheduleWrite(s))
  <1>1. /\ ScheduleWrite(s).cmd = s.cmd /\ ScheduleWrite(s).conn = s.conn
        /\ ScheduleWrite(s).due = s.due /\ ScheduleWrite(s).writing = s.writing
    BY DEF ScheduleWrite, SarState
  <1> QED BY <1>1, SameAccounts DEF Owned

\* nci_sar_packet_out_free touches neither the queues nor the credits.
LEMMA FreeOwned ==
  ASSUME NEW s \in SarState, NEW ids, Owned(s), Funded(s)
  PROVE  Owned(Free(s, ids)) /\ Funded(Free(s, ids))
  <1>1. Free(s, ids).due = s.due
    BY DEF Free, SarState
  <1> QED BY <1>1, FreeKeeps, SameAccounts DEF Owned

\* nci_sar_send queues the packet on the channel that it belongs to.
LEMMA SendOwned ==
  ASSUME NEW s \in SarState, NEW ch \in Channels, NEW len \in Nat,
         Owned(s), Funded(s)
  PROVE  Owned(Send(s, ch, len)) /\ Funded(Send(s, ch, len))
  <1> DEFINE id == NextPacketId(s)
             out == [id |-> id, cid |-> ch, len |-> len, pos |-> 0,
                     complete |-> TRUE, dangling |-> FALSE]
             t == [s EXCEPT !.last_packet_id = id, !.live = @ \cup {id}]
             q == Enqueue(QueueOf(s, ch), out)
  <1>1. id \in PacketIds /\ id # 0
    BY NextPacketIdType
  <1>2. out \in Packet /\ out \in Mine(ch)
    BY <1>1 DEF Packet, Mine
  <1>3. /\ t \in SarState /\ t.cmd = s.cmd /\ t.conn = s.conn /\ t.due = s.due
        /\ t.writing = s.writing
    BY <1>1 DEF SarState
  <1>4. QueueOf(s, ch) \in Queue /\ QueueOf(s, ch).chain \in Seq(Mine(ch))
    BY QueueOfType DEF Owned
  <1>5. q \in Queue /\ q.chain \in Seq(Mine(ch))
    BY <1>2, <1>4, EnqueueType, EnqueueOwned
  <1>6. Send(s, ch, len) = ScheduleWrite(SetQueue(t, ch, q))
    BY DEF Send
  <1> HIDE DEF t, q
  <1>7. Owned(t) /\ Funded(t)
    BY <1>3, SameAccounts DEF Owned
  <1>8. SetQueue(t, ch, q) \in SarState
    BY <1>3, <1>5, SetQueueType
  <1>9. Owned(SetQueue(t, ch, q)) /\ Funded(SetQueue(t, ch, q))
    BY <1>3, <1>5, <1>7, SetQueueOwned
  <1> QED BY <1>6, <1>8, <1>9, ScheduleOwned

\* nci_sar_reset empties the queues and takes all the credits back.
LEMMA ClearedOwned ==
  ASSUME NEW s \in SarState
  PROVE  Owned(Cleared(s)) /\ Funded(Cleared(s))
  <1>1. /\ Cleared(s).cmd = EmptyQueue /\ Cleared(s).writing = NullPacket
        /\ Cleared(s).conn = [c \in Cids |-> NewConnection]
        /\ Cleared(s).due = [c \in Cids |-> 0]
    BY DEF Cleared, SarState
  <1>2. \A ch : << >> \in Seq(Mine(ch))
    OBVIOUS
  <1>3. \A ch \in Channels : QueueOf(Cleared(s), ch).chain = << >>
    BY <1>1, ChannelFacts DEF QueueOf, NewConnection, EmptyQueue
  <1>4. Owned(Cleared(s))
    <2>1. \A ch \in Channels : QueueOf(Cleared(s), ch).chain \in Seq(Mine(ch))
      BY <1>2, <1>3, Zenon
    <2>2. ~Cleared(s).writing.dangling
      BY <1>1 DEF NullPacket
    <2> QED BY <2>1, <2>2 DEF Owned
  <1>5. Funded(Cleared(s))
    BY <1>1, SarAssumption DEF Funded, NewConnection
  <1> QED BY <1>4, <1>5

\* A client callback keeps queues and credits in order, whatever it calls.
LEMMA ReactOwned ==
  ASSUME NEW s \in SarState, NEW r \in Reactions, Owned(s), Funded(s)
  PROVE  Owned(React(s, r)) /\ Funded(React(s, r))
  BY ClearedOwned, SendOwned, ReactionFacts DEF React

LEMMA CompleteOwned ==
  ASSUME NEW s \in SarState, NEW out, NEW r \in Reactions, Owned(s), Funded(s)
  PROVE  Owned(Complete(s, out, r)) /\ Funded(Complete(s, out, r))
  BY ReactOwned, ReactType, FreeOwned DEF Complete

LEMMA ErrorOwned ==
  ASSUME NEW s \in SarState, NEW r \in Reactions, Owned(s), Funded(s)
  PROVE  Owned(Error(s, r)) /\ Funded(Error(s, r))
  <1> DEFINE t == [s EXCEPT !.failed = TRUE]
  <1>1. /\ t \in SarState /\ t.cmd = s.cmd /\ t.conn = s.conn /\ t.due = s.due
        /\ t.writing = s.writing
    BY DEF SarState
  <1>2. Error(s, r) = React(t, r)
    BY DEF Error
  <1> HIDE DEF t
  <1>3. Owned(t) /\ Funded(t)
    BY <1>1, SameAccounts DEF Owned
  <1> QED BY <1>1, <1>2, <1>3, ReactOwned

-----------------------------------------------------------------------------
\* nci_sar_write_queue takes a credit for the segment that it will write.
LEMMA SpendOwned ==
  ASSUME NEW s \in SarState, NEW c \in Cids, s.conn[c].credits > 0,
         Owned(s), Funded(s)
  PROVE  /\ Owned(SpendCredit(s, c)) /\ Funded(SpendCredit(s, c))
         /\ \/ SpendCredit(s, c).due[c] = Unlimited
            \/ SpendCredit(s, c).conn[c].credits < SpendCredit(s, c).due[c]
  <1> DEFINE t == SpendCredit(s, c)
  <1>1. /\ t.cmd = s.cmd /\ t.due = s.due /\ t.writing = s.writing
        /\ t.conn[c].credits = Spent(s.conn[c].credits)
        /\ \A d \in Cids : t.conn[d].out = s.conn[d].out
        /\ \A d \in Cids : d # c => t.conn[d].credits = s.conn[d].credits
    BY DEF SpendCredit, SarState, Connection
  <1> HIDE DEF t
  <1>2. /\ s.conn[c].credits \in 0 .. Unlimited /\ s.due[c] \in Int
        /\ s.conn[c].credits <= s.due[c] /\ s.due[c] <= Unlimited
    BY CreditsType DEF Funded
  <1>3. /\ t.conn[c].credits <= t.due[c]
        /\ t.due[c] = Unlimited \/ t.conn[c].credits < t.due[c]
    BY <1>1, <1>2, SarAssumption DEF Spent
  <1>4. Funded(t)
    BY <1>1, <1>3 DEF Funded
  <1>5. \A ch \in Channels : QueueOf(t, ch) = QueueOf(s, ch)
    BY <1>1, ChannelFacts DEF QueueOf
  <1>6. Owned(t)
    BY <1>1, <1>5 DEF Owned
  <1> QED BY <1>3, <1>4, <1>6 DEF t

\* Taking a packet off its queue: it is charged to that queue's connection.
LEMMA TakeOwned ==
  ASSUME NEW s \in SarState, NEW ch \in Channels, QueueOf(s, ch).chain # << >>,
         Owned(s), Funded(s)
  PROVE  /\ Owned(Take(s, ch)) /\ Funded(Take(s, ch))
         /\ Take(s, ch).writing.cid = ch
         /\ Take(s, ch).due = s.due
         /\ \A c \in Cids : Take(s, ch).conn[c].credits = s.conn[c].credits
  <1> DEFINE out == Head(QueueOf(s, ch).chain)
             t == [s EXCEPT !.writing = out]
             q == Dequeue(QueueOf(s, ch))
  <1>1. QueueOf(s, ch) \in Queue /\ QueueOf(s, ch).chain \in Seq(Mine(ch))
    BY QueueOfType DEF Owned
  <1>2. out \in Packet /\ out \in Mine(ch) /\ q \in Queue
        /\ q.chain \in Seq(Mine(ch))
    BY <1>1, DequeueType, DequeueOwned
  <1>3. /\ t \in SarState /\ t.cmd = s.cmd /\ t.conn = s.conn /\ t.due = s.due
        /\ t.writing = out
    BY <1>2 DEF SarState
  <1>4. Take(s, ch) = SetQueue(t, ch, q)
    BY DEF Take
  <1>5. out.cid = ch /\ ~out.dangling
    BY <1>2 DEF Mine
  <1> HIDE DEF t, q, out
  <1>6. Owned(t) /\ Funded(t)
    BY <1>3, <1>5, SameAccounts
  <1>7. Owned(SetQueue(t, ch, q)) /\ Funded(SetQueue(t, ch, q))
    BY <1>2, <1>3, <1>6, SetQueueOwned
  <1> QED BY <1>2, <1>3, <1>4, <1>5, <1>7, QueuesAfter

\* The next segment of a packet is paid for, or the packet goes back to its
\* queue.
LEMMA ContinueOwned ==
  ASSUME NEW s \in SarState, NEW garbage, Owned(s), Funded(s)
  PROVE  /\ Owned(Continue(s, garbage)) /\ Funded(Continue(s, garbage))
         /\ Prepaid(Continue(s, garbage))
  <1> DEFINE c == s.writing.cid
             released == [s EXCEPT !.writing = NullPacket]
  <1>1. CASE ~IsWriting(s) \/ c = CommandChannel
    BY <1>1 DEF Continue, Prepaid
  <1>2. CASE IsWriting(s) /\ c # CommandChannel
    <2>1. s.writing \in Packet /\ c \in Cids /\ c \in Channels /\ ~s.writing.dangling
      BY <1>2, WritingFacts, ChannelFacts DEF Owned
    <2>2. CASE s.conn[c].credits > 0
      <3>1. Continue(s, garbage) = SpendCredit(s, c)
        BY <1>2, <2>1, <2>2 DEF Continue
      <3>2. SpendCredit(s, c).writing = s.writing
        BY DEF SpendCredit, SarState
      <3> QED BY <2>1, <2>2, <3>1, <3>2, SpendOwned DEF Prepaid
    <2>3. CASE ~(s.conn[c].credits > 0)
      <3> DEFINE q == PutBack(s.conn[c].out, s.writing)
      <3>1. Continue(s, garbage) = SetQueue(released, c, q)
        BY <1>2, <2>1, <2>3 DEF Continue
      <3>2. /\ released \in SarState /\ released.cmd = s.cmd
            /\ released.conn = s.conn /\ released.due = s.due
            /\ released.writing = NullPacket
        BY DEF SarState
      <3>3. s.conn[c].out \in Queue /\ s.conn[c].out.chain \in Seq(Mine(c))
        <4>1. QueueOf(s, c) = s.conn[c].out
          BY <1>2 DEF QueueOf
        <4> QED BY <2>1, <4>1, QueueOfType DEF Owned
      <3>4. s.writing \in Mine(c)
        BY <2>1 DEF Mine
      <3>5. q \in Queue /\ q.chain \in Seq(Mine(c))
        BY <2>1, <3>3, <3>4, EnqueueType, EnqueueOwned
      <3> HIDE DEF released, q
      <3>6. Owned(released) /\ Funded(released)
        BY <3>2, SameAccounts DEF NullPacket
      <3>7. /\ Owned(SetQueue(released, c, q)) /\ Funded(SetQueue(released, c, q))
            /\ SetQueue(released, c, q).writing = NullPacket
        BY <2>1, <3>2, <3>5, <3>6, SetQueueOwned, QueuesAfter
      <3> QED BY <3>1, <3>7 DEF Prepaid, IsWriting, NullPacket
    <2> QED BY <2>2, <2>3
  <1> QED BY <1>1, <1>2

\* Whatever nci_sar_attempt_write chooses to write next is paid for.
LEMMA PickOwned ==
  ASSUME NEW s \in SarState, Owned(s), Funded(s), Prepaid(s)
  PROVE  Owned(Pick(s)) /\ Funded(Pick(s)) /\ Prepaid(Pick(s))
  <1> DEFINE lowest == CHOOSE c \in Ready(s) : \A d \in Ready(s) : c <= d
  <1>1. CASE IsWriting(s) \/ (s.cmd.chain = << >> /\ Ready(s) = {})
    BY <1>1 DEF Pick
  <1>2. CASE ~IsWriting(s) /\ s.cmd.chain # << >>
    <2>1. Pick(s) = Take(s, CommandChannel)
      BY <1>2 DEF Pick
    <2>2. QueueOf(s, CommandChannel).chain # << >>
      BY <1>2 DEF QueueOf
    <2> QED BY <2>1, <2>2, TakeOwned, ChannelFacts DEF Prepaid
  <1>3. CASE ~IsWriting(s) /\ s.cmd.chain = << >> /\ Ready(s) # {}
    <2>1. lowest \in Ready(s)
      BY <1>3, LowestReady
    <2>2. Pick(s) = Take(SpendCredit(s, lowest), lowest)
      BY <1>3 DEF Pick
    <2> HIDE DEF lowest
    <2>3. /\ lowest \in Cids /\ lowest \in Channels /\ lowest # CommandChannel
          /\ s.conn[lowest].credits > 0
          /\ s.conn[lowest].out.chain # << >>
      BY <2>1, ReadyFacts, ChannelFacts
    <2> DEFINE t == SpendCredit(s, lowest)
    <2>4. t \in SarState
      BY <2>3, SpendCreditType
    <2>5. /\ Owned(t) /\ Funded(t)
          /\ t.due[lowest] = Unlimited \/ t.conn[lowest].credits < t.due[lowest]
      BY <2>3, SpendOwned
    <2>6. QueueOf(t, lowest).chain # << >>
      <3>1. t.conn[lowest].out = s.conn[lowest].out
        BY <2>3 DEF SpendCredit, SarState, Connection
      <3> QED BY <2>3, <3>1 DEF QueueOf
    <2> HIDE DEF t
    <2> DEFINE u == Take(t, lowest)
    <2>7. /\ Owned(u) /\ Funded(u) /\ u.writing.cid = lowest
          /\ u.due = t.due /\ u.conn[lowest].credits = t.conn[lowest].credits
      BY <2>3, <2>4, <2>5, <2>6, TakeOwned
    <2>8. Pick(s) = u
      BY <2>2 DEF t
    <2> HIDE DEF u
    <2> QED BY <2>5, <2>7, <2>8 DEF Prepaid
  <1> QED BY <1>1, <1>2, <1>3

\* A segment that the HAL accepted uses up one of the credits that were due.
LEMMA OnWireOwned ==
  ASSUME NEW s \in SarState, IsWriting(s), Owned(s), Funded(s), Prepaid(s)
  PROVE  Owned(OnWire(s)) /\ Funded(OnWire(s))
  <1> DEFINE ch == s.writing.cid
             t == OnWire(s)
  <1>1. s.writing \in Packet /\ ch \in Channels /\ ~s.writing.dangling
    BY WritingFacts DEF Owned
  <1>2. /\ t.cmd = s.cmd /\ t.conn = s.conn
        /\ t.due = IF ch = CommandChannel \/ s.due[ch] = Unlimited THEN s.due
                   ELSE [s.due EXCEPT ![ch] = Spent(s.due[ch])]
    BY DEF OnWire, SarState
  <1>3. ~t.writing.dangling
    BY <1>1 DEF OnWire, SarState, Packet
  <1> HIDE DEF t
  <1>4. Owned(t)
    BY <1>2, <1>3 DEF Owned, QueueOf
  <1>5. CASE ch = CommandChannel \/ s.due[ch] = Unlimited
    BY <1>2, <1>4, <1>5 DEF Funded, t
  <1>6. CASE ch # CommandChannel /\ s.due[ch] # Unlimited
    <2>1. ch \in Cids
      BY <1>1, <1>6, ChannelFacts
    <2>2. /\ s.conn[ch].credits \in 0 .. Unlimited /\ s.due[ch] \in Int
          /\ s.due[ch] <= Unlimited
      BY <2>1, CreditsType DEF Funded
    <2>3. s.conn[ch].credits < s.due[ch]
      BY <1>6 DEF Prepaid
    <2>4. t.due = [s.due EXCEPT ![ch] = s.due[ch] - 1]
      BY <1>2, <1>6 DEF Spent
    <2>5. s.due \in [Cids -> Int]
      BY DEF SarState
    <2>6. t.due[ch] = s.due[ch] - 1 /\ \A c \in Cids : c # ch => t.due[c] = s.due[c]
      BY <2>1, <2>4, <2>5
    <2>7. ASSUME NEW c \in Cids
          PROVE  t.conn[c].credits <= t.due[c] /\ t.due[c] <= Unlimited
      <3>1. CASE c = ch
        BY <1>2, <2>2, <2>3, <2>6, <3>1, SarAssumption
      <3>2. CASE c # ch
        BY <1>2, <2>6, <3>2 DEF Funded
      <3> QED BY <3>1, <3>2
    <2> QED BY <1>4, <2>7 DEF Funded, t
  <1> QED BY <1>5, <1>6

\* A packet that the HAL refused is gone.
LEMMA DroppedOwned ==
  ASSUME NEW s \in SarState, Owned(s), Funded(s)
  PROVE  Owned(Dropped(s)) /\ Funded(Dropped(s))
  <1>1. /\ Dropped(s).cmd = s.cmd /\ Dropped(s).conn = s.conn
        /\ Dropped(s).due = s.due /\ Dropped(s).writing = NullPacket
    BY DEF Dropped, SarState
  <1> QED BY <1>1, SameAccounts DEF NullPacket

\* The second half of nci_sar_attempt_write, whatever the HAL answers.
LEMMA SubmitOwned ==
  ASSUME NEW s \in SarState, NEW hal \in HalOutcomes,
         Owned(s), Funded(s), Prepaid(s)
  PROVE  Owned(Submit(s, hal)) /\ Funded(Submit(s, hal))
  <1> DEFINE up == [s EXCEPT !.started = @ \/ hal.starts]
             done == Complete(Dropped(up), s.writing, hal.r)
  <1>1. /\ up \in SarState /\ up.writing = s.writing /\ up.cmd = s.cmd
        /\ up.conn = s.conn /\ up.due = s.due
    BY HalOutcomeFacts DEF SarState
  <1>2. Submit(s, hal) = IF ~IsWriting(s) THEN s ELSE IF hal.accepts THEN OnWire(up)
                         ELSE ScheduleWrite(Error(done, hal.e))
    BY DEF Submit
  <1> HIDE DEF up
  <1>3. Owned(up) /\ Funded(up) /\ Prepaid(up)
    BY <1>1, SameAccounts DEF Owned, Prepaid, IsWriting
  <1>4. IsWriting(s) => Owned(OnWire(up)) /\ Funded(OnWire(up))
    BY <1>1, <1>3, OnWireOwned DEF IsWriting
  <1>5. done \in SarState /\ Owned(done) /\ Funded(done)
    BY <1>1, <1>3, DroppedOwned, DroppedType, CompleteOwned, CompleteType,
       HalOutcomeFacts
  <1> HIDE DEF done
  <1>6. /\ Owned(ScheduleWrite(Error(done, hal.e)))
        /\ Funded(ScheduleWrite(Error(done, hal.e)))
    BY <1>5, ErrorOwned, ErrorType, ScheduleOwned, HalOutcomeFacts
  <1> QED BY <1>2, <1>4, <1>6

LEMMA AttemptWriteOwned ==
  ASSUME NEW s \in SarState, NEW hal \in HalOutcomes, NEW garbage,
         Owned(s), Funded(s)
  PROVE  /\ Owned(AttemptWrite(s, hal, garbage))
         /\ Funded(AttemptWrite(s, hal, garbage))
  <1> DEFINE t == Continue(s, garbage)
  <1>1. t \in SarState /\ Owned(t) /\ Funded(t) /\ Prepaid(t)
    BY ContinueType, ContinueOwned
  <1>2. AttemptWrite(s, hal, garbage) = IF s.write_pending THEN s
                                        ELSE Submit(Pick(t), hal)
    BY DEF AttemptWrite
  <1> HIDE DEF t
  <1>3. Pick(t) \in SarState /\ Owned(Pick(t)) /\ Funded(Pick(t)) /\ Prepaid(Pick(t))
    BY <1>1, PickType, PickOwned
  <1> QED BY <1>2, <1>3, SubmitOwned

-----------------------------------------------------------------------------
\* Setting what a connection holds and what it is due, within the limit.
LEMMA AccountOwned ==
  ASSUME NEW s \in SarState, NEW c \in Cids, NEW n \in 0 .. Unlimited,
         NEW d \in Int, n <= d, d <= Unlimited, Owned(s), Funded(s)
  PROVE  /\ Owned([s EXCEPT !.conn[c].credits = n, !.due[c] = d])
         /\ Funded([s EXCEPT !.conn[c].credits = n, !.due[c] = d])
  <1> DEFINE t == [s EXCEPT !.conn[c].credits = n, !.due[c] = d]
  <1>1. /\ t.cmd = s.cmd /\ t.writing = s.writing
        /\ t.conn[c].credits = n /\ t.due[c] = d
        /\ \A b \in Cids : t.conn[b].out = s.conn[b].out
        /\ \A b \in Cids : b # c => /\ t.conn[b].credits = s.conn[b].credits
                                    /\ t.due[b] = s.due[b]
    BY DEF SarState, Connection
  <1> HIDE DEF t
  <1>2. Funded(t)
    BY <1>1 DEF Funded
  <1>3. \A ch \in Channels : QueueOf(t, ch) = QueueOf(s, ch)
    BY <1>1, ChannelFacts DEF QueueOf
  <1>4. Owned(t)
    BY <1>1, <1>3 DEF Owned
  <1> QED BY <1>2, <1>4 DEF t

\* nci_sar_take_credits adds as much to both sides, up to the limit.
LEMMA TakeCreditsOwned ==
  ASSUME NEW s \in SarState, NEW c \in Cids, NEW n \in 0 .. Unlimited,
         Owned(s), Funded(s)
  PROVE  Owned(TakeCredits(s, c, n)) /\ Funded(TakeCredits(s, c, n))
  <1> DEFINE t == [s EXCEPT !.conn[c].credits = Sum(@, n), !.due[c] = Sum(@, n)]
             x == s.conn[c].credits
             y == s.due[c]
  <1>1. x \in 0 .. Unlimited /\ y \in Int /\ x <= y /\ y <= Unlimited
    BY CreditsType DEF Funded
  <1> HIDE DEF x, y
  <1>2. /\ Sum(x, n) \in 0 .. Unlimited /\ Sum(y, n) \in Int
        /\ Sum(x, n) <= Sum(y, n) /\ Sum(y, n) <= Unlimited
    BY <1>1, SarAssumption DEF Sum
  <1>3. t \in SarState
    BY CreditedType
  <1>4. Owned(t) /\ Funded(t)
    BY <1>2, AccountOwned DEF x, y
  <1>5. TakeCredits(s, c, n) = IF n = 0 THEN s
           ELSE IF t.conn[c].out.chain # << >> THEN ScheduleWrite(t) ELSE t
    BY DEF TakeCredits
  <1> HIDE DEF t
  <1> QED BY <1>3, <1>4, <1>5, ScheduleOwned

\* nci_sar_set_max_logical_connections called as its callers have to.
LEMMA ResizedOwned ==
  ASSUME NEW s \in SarState, NEW n \in 1 .. MaxConns, NEW moved \in BOOLEAN,
         \A c \in Cids : s.conn[c].out.chain = << >>,
         s.writing.cid = CommandChannel, Owned(s), Funded(s)
  PROVE  Owned(Resized(s, n, moved)) /\ Funded(Resized(s, n, moved))
  <1> DEFINE t == Resized(s, n, moved)
  <1>1. /\ t.writing = Repoint(s.writing, n, moved) /\ t.cmd = s.cmd
        /\ t.due = [c \in Cids |-> IF c >= n THEN 0 ELSE s.due[c]]
    BY DEF Resized, SarState
  <1>2. ASSUME NEW c \in Cids
        PROVE  /\ t.conn[c].out.chain = << >>
               /\ t.conn[c].credits = IF c >= n THEN 0 ELSE s.conn[c].credits
    <2> DEFINE chain == [i \in 1 .. Len(s.conn[c].out.chain) |->
                            Repoint(s.conn[c].out.chain[i], n, moved)]
    <2>1. t.conn[c] = IF c >= n THEN NewConnection
                      ELSE [credits |-> s.conn[c].credits,
                            out |-> [chain |-> chain,
                                     last |-> s.conn[c].out.last]]
      BY DEF Resized, SarState
    <2>2. Len(s.conn[c].out.chain) = 0
      OBVIOUS
    <2>3. chain = << >>
      BY <2>2
    <2> HIDE DEF t, chain
    <2> QED BY <2>1, <2>3 DEF NewConnection, EmptyQueue
  <1> HIDE DEF t
  <1>3. \A c \in Cids : t.conn[c].out.chain = << >>
    BY <1>2
  <1>4. \A ch : << >> \in Seq(Mine(ch))
    OBVIOUS
  <1>5. Owned(t)
    <2>1. \A ch \in Channels : QueueOf(t, ch).chain \in Seq(Mine(ch))
      <3>1. ASSUME NEW ch \in Channels PROVE QueueOf(t, ch).chain \in Seq(Mine(ch))
        <4>1. CASE ch = CommandChannel
          BY <1>1, <4>1 DEF Owned, QueueOf
        <4>2. CASE ch # CommandChannel
          <5>1. QueueOf(t, ch).chain = << >>
            BY <1>3, <4>2, ChannelFacts DEF QueueOf
          <5> QED BY <1>4, <5>1, Zenon
        <4> QED BY <4>1, <4>2
      <3> QED BY <3>1
    <2>2. ~t.writing.dangling
      BY <1>1 DEF Owned, Repoint
    <2> QED BY <2>1, <2>2 DEF Owned
  <1>6. Funded(t)
    <2>1. ASSUME NEW c \in Cids
          PROVE  t.conn[c].credits <= t.due[c] /\ t.due[c] <= Unlimited
      <3>1. t.due[c] = IF c >= n THEN 0 ELSE s.due[c]
        BY <1>1
      <3>2. s.conn[c].credits <= s.due[c] /\ s.due[c] <= Unlimited
        BY DEF Funded
      <3> QED BY <1>2, <3>1, <3>2, SarAssumption
    <2> QED BY <2>1 DEF Funded
  <1> QED BY <1>5, <1>6 DEF t

(***************************************************************************)
(* Flow control: under a caller that keeps to the preconditions of the     *)
(* initial credits and of the resize, every data segment that the HAL got  *)
(* was covered by a credit of its connection that the NFCC had granted and *)
(* no earlier segment had used: what is due never becomes negative.        *)
(***************************************************************************)
THEOREM FlowControlled ==
  ASSUME StrictCaller
  PROVE  Spec => []FlowControl
  <1>1. Init => Owned(sar) /\ Funded(sar)
    <2> SUFFICES ASSUME Init PROVE Owned(sar) /\ Funded(sar)
      OBVIOUS
    <2>1. /\ sar.cmd = EmptyQueue /\ sar.writing = NullPacket
          /\ sar.conn = [c \in Cids |-> NewConnection]
          /\ sar.due = [c \in Cids |-> 0]
      BY DEF Init
    <2>2. \A ch : << >> \in Seq(Mine(ch))
      OBVIOUS
    <2>3. \A ch \in Channels : QueueOf(sar, ch).chain = << >>
      BY <2>1, ChannelFacts DEF QueueOf, NewConnection, EmptyQueue
    <2>4. \A ch \in Channels : QueueOf(sar, ch).chain \in Seq(Mine(ch))
      BY <2>2, <2>3, Zenon
    <2>5. ~sar.writing.dangling
      BY <2>1 DEF NullPacket
    <2>6. Funded(sar)
      BY <2>1, SarAssumption DEF Funded, NewConnection
    <2> QED BY <2>4, <2>5, <2>6 DEF Owned
  <1>2. TypeOK /\ Owned(sar) /\ Funded(sar) /\ [Next]_sar
           => Owned(sar)' /\ Funded(sar)'
    <2> SUFFICES ASSUME sar \in SarState, Owned(sar), Funded(sar), [Next]_sar
                 PROVE  Owned(sar') /\ Funded(sar')
      BY DEF TypeOK, Owned, Funded, QueueOf
    <2>1. ASSUME NEW p \in Sends, SendPacket(p.ch, p.len)
          PROVE  Owned(sar') /\ Funded(sar')
      <3>1. p.ch \in Channels /\ p.len \in Nat
        BY ChannelFacts, SarAssumption DEF Sends
      <3> QED BY <2>1, <3>1, SendOwned DEF SendPacket
    <2>2. ASSUME NEW id \in sar.live, Cancel(id) PROVE Owned(sar') /\ Funded(sar')
      <3>1. CASE IsWriting(sar) /\ sar' = [sar EXCEPT !.writing.complete = FALSE]
        <4>1. /\ sar'.cmd = sar.cmd /\ sar'.conn = sar.conn /\ sar'.due = sar.due
              /\ sar'.writing = [sar.writing EXCEPT !.complete = FALSE]
          BY <3>1 DEF SarState
        <4>2. sar'.writing.dangling = sar.writing.dangling
          BY <4>1, WritingFacts, <3>1 DEF Packet
        <4> QED BY <4>1, <4>2, SameAccounts DEF Owned
      <3>2. ASSUME NEW ch \in Channels, NEW i \in DOMAIN QueueOf(sar, ch).chain,
                   sar' = Free(SetQueue(sar, ch, Unlink(QueueOf(sar, ch), i)), {id})
            PROVE  Owned(sar') /\ Funded(sar')
        <4> DEFINE q == Unlink(QueueOf(sar, ch), i)
                   t == SetQueue(sar, ch, q)
        <4>1. QueueOf(sar, ch) \in Queue /\ QueueOf(sar, ch).chain \in Seq(Mine(ch))
          BY QueueOfType DEF Owned
        <4>2. q \in Queue /\ q.chain \in Seq(Mine(ch))
          BY <4>1, UnlinkType, UnlinkOwned
        <4> HIDE DEF q
        <4>3. t \in SarState /\ Owned(t) /\ Funded(t)
          BY <4>2, SetQueueType, SetQueueOwned
        <4> QED BY <3>2, <4>3, FreeOwned DEF q
      <3> QED BY <2>2, <3>1, <3>2 DEF Cancel
    <2>3. CASE Start
      <3>1. /\ sar'.cmd = sar.cmd /\ sar'.conn = sar.conn /\ sar'.due = sar.due
            /\ sar'.writing = sar.writing
        BY <2>3 DEF Start, SarState
      <3> QED BY <3>1, SameAccounts DEF Owned
    <2>4. ASSUME NEW r \in Reactions, Reset(r) PROVE Owned(sar') /\ Funded(sar')
      BY <2>4, ClearedType, ClearedOwned, ReactOwned DEF Reset
    <2>5. ASSUME NEW max \in 0 .. MaxConns, NEW moved \in BOOLEAN,
                 SetMaxLogicalConns(max, moved)
          PROVE  Owned(sar') /\ Funded(sar')
      <3>1. (IF max = 0 THEN 1 ELSE max) \in 1 .. MaxConns
        BY SarAssumption
      <3> QED BY <2>5, <3>1, ResizedOwned DEF SetMaxLogicalConns
    <2>6. ASSUME NEW max \in Limits,
                 SetMaxControlPayloadSize(max) \/ SetMaxDataPayloadSize(max)
          PROVE  Owned(sar') /\ Funded(sar')
      <3>1. /\ sar'.cmd = sar.cmd /\ sar'.conn = sar.conn /\ sar'.due = sar.due
            /\ sar'.writing = sar.writing
        BY <2>6 DEF SetMaxControlPayloadSize, SetMaxDataPayloadSize, SarState
      <3> QED BY <3>1, SameAccounts DEF Owned
    <2>7. ASSUME NEW c \in Cids, NEW n \in Grants,
                 SetInitialCredits(c, n) \/ AddCredits(c, n)
          PROVE  Owned(sar') /\ Funded(sar')
      <3>1. n \in 0 .. Unlimited /\ n \in Int /\ n <= n /\ n <= Unlimited
        BY SarAssumption
      <3>2. CASE SetInitialCredits(c, n)
        <4>1. sar' = [sar EXCEPT !.conn[c].credits = n, !.due[c] = n]
          BY <3>2 DEF SetInitialCredits
        <4>2. /\ Owned([sar EXCEPT !.conn[c].credits = n, !.due[c] = n])
              /\ Funded([sar EXCEPT !.conn[c].credits = n, !.due[c] = n])
          BY <3>1, AccountOwned
        <4> QED BY <4>1, <4>2
      <3>3. CASE AddCredits(c, n)
        <4>1. sar' = TakeCredits(sar, c, n)
          BY <3>3 DEF AddCredits
        <4> QED BY <3>1, <4>1, TakeCreditsOwned
      <3> QED BY <2>7, <3>2, <3>3
    <2>8. ASSUME NEW hal \in HalOutcomes, StartWrite(hal)
          PROVE  Owned(sar') /\ Funded(sar')
      <3> DEFINE t == [sar EXCEPT !.start_write = FALSE]
      <3>1. /\ t \in SarState /\ t.cmd = sar.cmd /\ t.conn = sar.conn
            /\ t.due = sar.due /\ t.writing = sar.writing
        BY DEF SarState
      <3>2. sar' = AttemptWrite(t, hal, FALSE)
        BY <2>8 DEF StartWrite
      <3> HIDE DEF t
      <3>3. Owned(t) /\ Funded(t)
        BY <3>1, SameAccounts DEF Owned
      <3> QED BY <3>1, <3>2, <3>3, AttemptWriteOwned
    <2>9. ASSUME NEW hal \in HalOutcomes, NEW garbage \in BOOLEAN,
                 NEW r \in Reactions, WriteCompleted(hal, garbage, r)
          PROVE  Owned(sar') /\ Funded(sar')
      <3> DEFINE s == [sar EXCEPT !.write_pending = FALSE]
                 idle == [s EXCEPT !.writing = NullPacket]
                 done == Complete(idle, sar.writing, r)
      <3>1. /\ s \in SarState /\ s.cmd = sar.cmd /\ s.conn = sar.conn
            /\ s.due = sar.due /\ s.writing = sar.writing
        BY DEF SarState
      <3>2. /\ idle \in SarState /\ idle.cmd = sar.cmd /\ idle.conn = sar.conn
            /\ idle.due = sar.due /\ idle.writing = NullPacket
        BY DEF SarState
      <3>3. \/ sar' = AttemptWrite(done, hal, garbage)
            \/ sar' = AttemptWrite(s, hal, garbage)
        BY <2>9 DEF WriteCompleted
      <3> HIDE DEF s, idle
      <3>4. Owned(s) /\ Funded(s)
        BY <3>1, SameAccounts DEF Owned
      <3>5. Owned(idle) /\ Funded(idle)
        BY <3>2, SameAccounts DEF NullPacket
      <3>6. done \in SarState /\ Owned(done) /\ Funded(done)
        BY <3>2, <3>5, CompleteType, CompleteOwned
      <3> HIDE DEF done
      <3> QED BY <3>1, <3>3, <3>4, <3>6, AttemptWriteOwned
    <2>10. ASSUME NEW r \in Reactions, NEW e \in {Ignore, StartOver},
                  WriteFailed(r, e) \/ HalError(e)
           PROVE  Owned(sar') /\ Funded(sar')
      <3>1. e \in Reactions
        BY DEF Reactions
      <3> QED BY <2>10, <3>1, DroppedType, DroppedOwned, CompleteType, CompleteOwned,
                 ErrorOwned DEF WriteFailed, HalError
    <2>11. CASE UNCHANGED sar
      BY <2>11
    <2>12. Reactions # {}
      BY DEF Reactions
    <2> QED BY <2>1, <2>2, <2>3, <2>4, <2>5, <2>6, <2>7, <2>8, <2>9, <2>10,
               <2>11, <2>12 DEF Next, Client, Idle, Hal
  <1>3. TypeOK /\ Funded(sar) => FlowControl
    <2> SUFFICES ASSUME sar \in SarState, Funded(sar), NEW c \in Cids
                 PROVE  sar.due[c] >= 0
      BY DEF TypeOK, FlowControl
    <2>1. sar.conn[c].credits \in 0 .. Unlimited /\ sar.due[c] \in Int
      BY CreditsType
    <2> QED BY <2>1, SarAssumption DEF Funded
  <1> QED BY <1>1, <1>2, <1>3, TypeCorrect, PTL DEF Spec

=============================================================================
