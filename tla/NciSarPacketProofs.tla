------------------------- MODULE NciSarPacketProofs -------------------------
(***************************************************************************)
(* Proofs of NciSar!NoTornMessage, NoPacketLost and QueueEndsAgree for     *)
(* connections without flow control: every grant is zero or unlimited, so  *)
(* attempt_write never puts an unfinished packet back. (With flow control  *)
(* the packet that was put back can be overwritten: QueueEndsAgree is then *)
(* false, and the other two with it.) Under the same assumptions NciSar    *)
(* implements NciPacketQueues (SentAsPromised).                            *)
(*                                                                         *)
(* The inductive invariant is Whole(sar, {}). While a completion callback  *)
(* runs, the finished packet is in no queue and not freed yet: `held` is   *)
(* the set with its id.                                                    *)
(***************************************************************************)
EXTENDS NciSarFlowProofs, SequenceTheorems

\* The packets of channel ch that wait for their first segment to be written.
Unsent(ch) == {p \in Packet : p.cid = ch /\ ~p.dangling /\ p.pos = 0}

\* A queue of such packets: no packet twice, `last` set exactly if `first` is.
Neat(q, ch) ==
    /\ q.chain \in Seq(Unsent(ch))
    /\ q.last <=> q.chain # << >>
    /\ \A i, j \in DOMAIN q.chain : q.chain[i].id = q.chain[j].id => i = j

Sorted(s) ==
    /\ \A ch \in Channels : Neat(QueueOf(s, ch), ch)
    /\ \A ch, dh \in Channels :
          ch # dh => IdsOf(QueueOf(s, ch)) \cap IdsOf(QueueOf(s, dh)) = {}

Queued(s) == UNION {IdsOf(QueueOf(s, ch)) : ch \in Channels}

\* The packets alive are those struct nci_sar points to, and the held ones.
Kept(s, held) ==
    /\ s.live = Reachable(s) \cup held
    /\ Reachable(s) \cap held = {}
    /\ s.writing.id \notin Queued(s)

\* No flow control: a connection has no credits at all or no limit.
Level(s) ==
    /\ \A c \in Cids : s.conn[c].credits \in {0, Unlimited}
    /\ IsWriting(s) /\ s.writing.cid # CommandChannel =>
          s.conn[s.writing.cid].credits = Unlimited
    /\ ~s.writing.dangling

\* What the NFCC has seen of a channel is what was written of the packet.
Framed(s) ==
    /\ ~s.torn
    /\ s.writing.pos <= s.writing.len
    /\ \A ch \in Channels : s.open[ch] =
          IF s.writing.cid = ch /\ 0 < s.writing.pos /\ s.writing.pos < s.writing.len
          THEN s.writing.id ELSE 0

Whole(s, held) == Sorted(s) /\ Kept(s, held) /\ Level(s) /\ Framed(s)

-----------------------------------------------------------------------------
(***************************************************************************)
(* One queue                                                               *)
(***************************************************************************)
LEMMA NeatFacts ==
  ASSUME NEW ch, NEW q \in Queue, Neat(q, ch)
  PROVE  /\ q.chain \in Seq(Packet) /\ Len(q.chain) \in Nat
         /\ \A i \in DOMAIN q.chain : q.chain[i] \in Unsent(ch)
         /\ \A i \in DOMAIN q.chain : q.chain[i].id # 0
         /\ 0 \notin IdsOf(q)
         /\ q.last \in BOOLEAN
  BY DEF Neat, Unsent, Packet, Queue, IdsOf

\* The end of nci_sar_send: the new packet joins the others.
LEMMA EnqueueNeat ==
  ASSUME NEW ch, NEW q \in Queue, Neat(q, ch), NEW p \in Unsent(ch),
         p.id \notin IdsOf(q)
  PROVE  /\ Neat(Enqueue(q, p), ch)
         /\ IdsOf(Enqueue(q, p)) = IdsOf(q) \cup {p.id}
  <1> DEFINE n == Len(q.chain)
             c == Enqueue(q, p).chain
  <1>1. n \in Nat /\ q.chain \in Seq(Unsent(ch)) /\ DOMAIN q.chain = 1 .. n
    BY NeatFacts DEF Neat
  <1>2. /\ c \in Seq(Unsent(ch)) /\ DOMAIN c = 1 .. n + 1
        /\ \A i \in 1 .. n : c[i] = q.chain[i]
        /\ c[n + 1] = p
        /\ Enqueue(q, p).last = TRUE
    <2>1. CASE q.last
      BY <1>1, <2>1 DEF Enqueue
    <2>2. CASE ~q.last
      BY <1>1, <2>2 DEF Enqueue, Neat
    <2> QED BY <2>1, <2>2
  <1>3. \A i \in 1 .. n : q.chain[i].id \in IdsOf(q)
    BY <1>1 DEF IdsOf
  <1>4. IdsOf(Enqueue(q, p)) = {c[i].id : i \in DOMAIN c}
    BY DEF IdsOf
  <1>5. IdsOf(q) = {q.chain[i].id : i \in 1 .. n}
    BY <1>1 DEF IdsOf
  <1>6. \A i, j \in 1 .. n : q.chain[i].id = q.chain[j].id => i = j
    BY <1>1 DEF Neat
  <1> HIDE DEF c, n
  <1>7. IdsOf(Enqueue(q, p)) = IdsOf(q) \cup {p.id}
    BY <1>1, <1>2, <1>4, <1>5
  <1>8. \A i, j \in DOMAIN c : c[i].id = c[j].id => i = j
    <2> SUFFICES ASSUME NEW i \in 1 .. n + 1, NEW j \in 1 .. n + 1, c[i].id = c[j].id
                 PROVE  i = j
      BY <1>2
    <2>1. (i \in 1 .. n \/ i = n + 1) /\ (j \in 1 .. n \/ j = n + 1)
      BY <1>1
    <2> QED BY <1>2, <1>3, <1>6, <2>1
  <1>9. c # << >>
    BY <1>1, <1>2
  <1> QED BY <1>2, <1>7, <1>8, <1>9 DEF Neat, c

\* Removing queue->first (nci_sar_attempt_write).
LEMMA DequeueNeat ==
  ASSUME NEW ch, NEW q \in Queue, Neat(q, ch), q.chain # << >>
  PROVE  /\ Neat(Dequeue(q), ch)
         /\ Head(q.chain) \in Unsent(ch)
         /\ Head(q.chain).id \in IdsOf(q)
         /\ IdsOf(Dequeue(q)) = IdsOf(q) \ {Head(q.chain).id}
  <1> DEFINE n == Len(q.chain)
             c == Tail(q.chain)
  <1>1. /\ n \in Nat /\ n > 0 /\ q.chain \in Seq(Unsent(ch)) /\ q.last
        /\ DOMAIN q.chain = 1 .. n
    BY NeatFacts DEF Neat
  <1>2. /\ c \in Seq(Unsent(ch)) /\ DOMAIN c = 1 .. n - 1 /\ Len(c) = n - 1
        /\ \A i \in 1 .. n - 1 : c[i] = q.chain[i + 1]
        /\ Head(q.chain) = q.chain[1]
    BY <1>1
  <1>3. \A i, j \in 1 .. n : q.chain[i].id = q.chain[j].id => i = j
    BY <1>1 DEF Neat
  <1>4. IdsOf(q) = {q.chain[i].id : i \in 1 .. n}
    BY <1>1 DEF IdsOf
  <1>5. Dequeue(q).chain = c /\ (Dequeue(q).last <=> n > 1)
    BY <1>1 DEF Dequeue
  <1> HIDE DEF c, n
  <1>6. IdsOf(Dequeue(q)) = {c[i].id : i \in 1 .. n - 1}
    <2>1. Dequeue(q).chain = c
      BY <1>5
    <2> QED BY <1>2, <2>1 DEF IdsOf
  <1>7. c # << >> <=> n > 1
    <2>1. c # << >> <=> Len(c) > 0
      BY <1>2
    <2> QED BY <1>1, <1>2, <2>1
  <1>8. IdsOf(Dequeue(q)) = IdsOf(q) \ {q.chain[1].id}
    <2>1. ASSUME NEW x \in IdsOf(Dequeue(q)) PROVE x \in IdsOf(q) \ {q.chain[1].id}
      <3>1. PICK i \in 1 .. n - 1 : x = c[i].id
        BY <1>6
      <3>2. i + 1 \in 1 .. n /\ 1 \in 1 .. n /\ i + 1 # 1 /\ x = q.chain[i + 1].id
        BY <1>1, <1>2, <3>1
      <3> QED BY <1>3, <1>4, <3>2
    <2>2. ASSUME NEW x \in IdsOf(q) \ {q.chain[1].id} PROVE x \in IdsOf(Dequeue(q))
      <3>1. PICK i \in 1 .. n : x = q.chain[i].id
        BY <1>4
      <3>2. i # 1 /\ i - 1 \in 1 .. n - 1 /\ c[i - 1] = q.chain[i]
        BY <1>1, <1>2, <3>1
      <3> QED BY <1>6, <3>1, <3>2
    <2> QED BY <2>1, <2>2
  <1>9. \A i, j \in DOMAIN c : c[i].id = c[j].id => i = j
    <2> SUFFICES ASSUME NEW i \in 1 .. n - 1, NEW j \in 1 .. n - 1, c[i].id = c[j].id
                 PROVE  i = j
      BY <1>2
    <2>1. i + 1 \in 1 .. n /\ j + 1 \in 1 .. n
      BY <1>1
    <2>2. i + 1 = j + 1
      BY <1>2, <1>3, <2>1
    <2> QED BY <2>2
  <1>10. q.chain[1] \in Unsent(ch) /\ q.chain[1].id \in IdsOf(q)
    BY <1>1, <1>4
  <1>11. Neat(Dequeue(q), ch)
    BY <1>2, <1>5, <1>7, <1>9 DEF Neat
  <1> QED BY <1>2, <1>8, <1>10, <1>11

\* Unlinking a packet (nci_sar_cancel_queue).
LEMMA UnlinkNeat ==
  ASSUME NEW ch, NEW q \in Queue, Neat(q, ch), NEW k \in DOMAIN q.chain
  PROVE  /\ Neat(Unlink(q, k), ch)
         /\ IdsOf(Unlink(q, k)) = IdsOf(q) \ {q.chain[k].id}
  <1> DEFINE n == Len(q.chain)
             c == Unlink(q, k).chain
             at(i) == IF i < k THEN i ELSE i + 1
  <1>1. /\ n \in Nat /\ q.chain \in Seq(Unsent(ch)) /\ q.last
        /\ DOMAIN q.chain = 1 .. n /\ k \in 1 .. n
    BY NeatFacts DEF Neat
  <1>2. c = [i \in 1 .. n - 1 |-> IF i < k THEN q.chain[i] ELSE q.chain[i + 1]]
    BY DEF Unlink
  <1>3. \A i \in 1 .. n - 1 : at(i) \in 1 .. n /\ at(i) # k
    BY <1>1
  <1> HIDE DEF n
  <1>4. \A i \in 1 .. n - 1 : c[i] = q.chain[at(i)]
    BY <1>2
  <1>5. DOMAIN c = 1 .. n - 1 /\ c \in Seq(Unsent(ch)) /\ Len(c) = n - 1
    <2>1. \A i \in 1 .. n - 1 : q.chain[at(i)] \in Unsent(ch)
      BY <1>1, <1>3
    <2>2. c \in [1 .. n - 1 -> Unsent(ch)]
      BY <1>2, <2>1
    <2>3. n - 1 \in Nat
      BY <1>1
    <2> QED BY <2>2, <2>3
  <1>6. \A i, j \in 1 .. n : q.chain[i].id = q.chain[j].id => i = j
    BY <1>1 DEF Neat
  <1>7. IdsOf(q) = {q.chain[i].id : i \in 1 .. n}
    BY <1>1 DEF IdsOf
  <1>8. IdsOf(Unlink(q, k)) = {c[i].id : i \in 1 .. n - 1}
    BY <1>5 DEF IdsOf
  <1>9. Unlink(q, k).last <=> c # << >>
    <2>1. Unlink(q, k).last <=> n > 1
      BY <1>1 DEF Unlink, n
    <2>2. c # << >> <=> n > 1
      BY <1>1, <1>5
    <2> QED BY <2>1, <2>2
  <1> HIDE DEF c
  <1>10. IdsOf(Unlink(q, k)) = IdsOf(q) \ {q.chain[k].id}
    <2>1. ASSUME NEW x \in IdsOf(Unlink(q, k)) PROVE x \in IdsOf(q) \ {q.chain[k].id}
      <3>1. PICK i \in 1 .. n - 1 : x = c[i].id
        BY <1>8
      <3>2. at(i) \in 1 .. n /\ at(i) # k /\ x = q.chain[at(i)].id
        BY <1>3, <1>4, <3>1
      <3> HIDE DEF at
      <3> QED BY <1>1, <1>6, <1>7, <3>2
    <2>2. ASSUME NEW x \in IdsOf(q) \ {q.chain[k].id} PROVE x \in IdsOf(Unlink(q, k))
      <3>1. PICK i \in 1 .. n : x = q.chain[i].id
        BY <1>7
      <3>2. i # k
        BY <3>1
      <3>3. CASE i < k
        <4>1. i \in 1 .. n - 1 /\ at(i) = i
          BY <1>1, <3>3
        <4> HIDE DEF at
        <4> QED BY <1>4, <1>8, <3>1, <4>1
      <3>4. CASE i > k
        <4>1. i - 1 \in 1 .. n - 1 /\ at(i - 1) = i
          BY <1>1, <3>4
        <4> HIDE DEF at
        <4> QED BY <1>4, <1>8, <3>1, <4>1
      <3> QED BY <1>1, <3>2, <3>3, <3>4
    <2> QED BY <2>1, <2>2
  <1>11. \A i, j \in DOMAIN c : c[i].id = c[j].id => i = j
    <2> SUFFICES ASSUME NEW i \in 1 .. n - 1, NEW j \in 1 .. n - 1, c[i].id = c[j].id
                 PROVE  i = j
      BY <1>5
    <2>1. at(i) = at(j)
      BY <1>3, <1>4, <1>6
    <2> QED BY <1>1, <2>1
  <1> QED BY <1>5, <1>9, <1>10, <1>11 DEF Neat, c

-----------------------------------------------------------------------------
(***************************************************************************)
(* All the queues                                                          *)
(***************************************************************************)

\* What struct nci_sar points to: the queued packets and the one in writing.
LEMMA ReachableFacts ==
  ASSUME NEW s
  PROVE  Reachable(s) = Queued(s) \cup ({s.writing.id} \ {0})
  BY DEF Reachable, Queued

\* Only these parts of the state matter.
LEMMA SameWhole ==
  ASSUME NEW s \in SarState, NEW t, NEW held, Whole(s, held),
         \A ch \in Channels : QueueOf(t, ch) = QueueOf(s, ch),
         \A c \in Cids : t.conn[c].credits = s.conn[c].credits,
         t.live = s.live, t.open = s.open, t.torn = s.torn,
         t.writing.id = s.writing.id, t.writing.cid = s.writing.cid,
         t.writing.len = s.writing.len, t.writing.pos = s.writing.pos,
         t.writing.dangling = s.writing.dangling
  PROVE  Whole(t, held)
  <1>1. Sorted(t)
    BY DEF Whole, Sorted
  <1>2. Queued(t) = Queued(s)
    BY DEF Queued
  <1>3. Kept(t, held)
    BY <1>2, ReachableFacts DEF Whole, Kept
  <1>4. Level(t)
    <2>1. s.writing.cid # CommandChannel => s.writing.cid \in Cids
      BY WritingFacts, ChannelFacts
    <2> QED BY <2>1 DEF Whole, Level, IsWriting
  <1>5. Framed(t)
    BY DEF Whole, Framed
  <1> QED BY <1>1, <1>3, <1>4, <1>5 DEF Whole

\* One queue is replaced by one that shares no packet with the other queues.
LEMMA SetQueueSorted ==
  ASSUME NEW s \in SarState, NEW ch \in Channels, NEW q \in Queue, Neat(q, ch),
         Sorted(s), IdsOf(q) \cap (Queued(s) \ IdsOf(QueueOf(s, ch))) = {}
  PROVE  /\ Sorted(SetQueue(s, ch, q))
         /\ Queued(SetQueue(s, ch, q)) =
               (Queued(s) \ IdsOf(QueueOf(s, ch))) \cup IdsOf(q)
  <1> DEFINE t == SetQueue(s, ch, q)
  <1>1. \A dh \in Channels : QueueOf(t, dh) = IF dh = ch THEN q ELSE QueueOf(s, dh)
    BY QueuesAfter
  <1> HIDE DEF t
  <1>2. \A dh \in Channels :
           dh # ch => IdsOf(QueueOf(s, dh)) \subseteq Queued(s) \ IdsOf(QueueOf(s, ch))
    BY DEF Sorted, Queued
  <1>3. Sorted(t)
    BY <1>1, <1>2 DEF Sorted
  <1>4. Queued(t) = (Queued(s) \ IdsOf(QueueOf(s, ch))) \cup IdsOf(q)
    BY <1>1, <1>2 DEF Queued
  <1> QED BY <1>3, <1>4 DEF t

LEMMA ScheduleWhole ==
  ASSUME NEW s \in SarState, NEW held, Whole(s, held)
  PROVE  Whole(ScheduleWrite(s), held)
  <1> DEFINE t == ScheduleWrite(s)
  <1>1. /\ t.cmd = s.cmd /\ t.conn = s.conn /\ t.live = s.live
        /\ t.open = s.open /\ t.torn = s.torn /\ t.writing = s.writing
    BY DEF ScheduleWrite, SarState
  <1> HIDE DEF t
  <1>2. \A ch : QueueOf(t, ch) = QueueOf(s, ch)
    BY <1>1 DEF QueueOf
  <1>3. Whole(t, held)
    BY <1>1, <1>2, SameWhole
  <1> QED BY <1>3 DEF t

\* nci_sar_send: the id is new, because the ids of live packets are skipped.
LEMMA SendWhole ==
  ASSUME NEW s \in SarState, NEW ch \in Channels, NEW len \in Nat, NEW held,
         NextPacketId(s) \notin s.live, Whole(s, held)
  PROVE  Whole(Send(s, ch, len), held)
  <1> DEFINE id == NextPacketId(s)
             out == [id |-> id, cid |-> ch, len |-> len, pos |-> 0,
                     complete |-> TRUE, dangling |-> FALSE]
             t == [s EXCEPT !.last_packet_id = id, !.live = @ \cup {id}]
             o == QueueOf(s, ch)
             q == Enqueue(o, out)
             u == SetQueue(t, ch, q)
  <1>1. id \in PacketIds /\ id # 0 /\ id \notin s.live
    BY NextPacketIdType
  <1>2. out \in Packet /\ out \in Unsent(ch) /\ out.id = id
    BY <1>1 DEF Packet, Unsent
  <1>3. /\ t \in SarState /\ t.cmd = s.cmd /\ t.conn = s.conn
        /\ t.live = s.live \cup {id}
        /\ t.writing = s.writing /\ t.open = s.open /\ t.torn = s.torn
    BY <1>1 DEF SarState
  <1>4. o \in Queue /\ Neat(o, ch)
    BY QueueOfType DEF Whole, Sorted
  <1>5. Queued(s) \subseteq s.live /\ IdsOf(o) \subseteq Queued(s)
    BY ReachableFacts DEF Whole, Kept, Queued
  <1>6. Send(s, ch, len) = ScheduleWrite(u)
    BY <1>3 DEF Send, QueueOf
  <1> HIDE DEF id, out, t, o
  <1>7. q \in Queue /\ Neat(q, ch) /\ IdsOf(q) = IdsOf(o) \cup {id}
    BY <1>1, <1>2, <1>4, <1>5, EnqueueType, EnqueueNeat
  <1>8. \A dh : QueueOf(t, dh) = QueueOf(s, dh)
    BY <1>3 DEF QueueOf
  <1>9. Sorted(t) /\ Queued(t) = Queued(s) /\ QueueOf(t, ch) = o
    BY <1>8 DEF Whole, Sorted, Queued, o
  <1> HIDE DEF q
  <1>10. Sorted(u) /\ Queued(u) = Queued(s) \cup {id}
    <2>1. IdsOf(q) \cap (Queued(t) \ IdsOf(QueueOf(t, ch))) = {}
      BY <1>1, <1>5, <1>7, <1>9
    <2>2. /\ Sorted(u)
          /\ Queued(u) = (Queued(t) \ IdsOf(QueueOf(t, ch))) \cup IdsOf(q)
      BY <1>3, <1>7, <1>9, <2>1, SetQueueSorted
    <2> QED BY <1>5, <1>7, <1>9, <2>2
  <1>11. /\ \A c \in Cids : u.conn[c].credits = s.conn[c].credits
         /\ u.live = s.live \cup {id} /\ u.writing = s.writing
         /\ u.open = s.open /\ u.torn = s.torn
    BY <1>3, <1>7, QueuesAfter
  <1>12. u \in SarState
    BY <1>3, <1>7, SetQueueType
  <1> HIDE DEF u
  <1>13. Kept(u, held)
    <2>1. /\ s.live = Queued(s) \cup ({s.writing.id} \ {0}) \cup held
          /\ (Queued(s) \cup ({s.writing.id} \ {0})) \cap held = {}
          /\ s.writing.id \notin Queued(s)
      BY ReachableFacts DEF Whole, Kept
    <2>2. id # s.writing.id
      BY <1>1, <2>1
    <2>3. Reachable(u) = Queued(s) \cup {id} \cup ({s.writing.id} \ {0})
      BY <1>10, <1>11, ReachableFacts
    <2> QED BY <1>1, <1>10, <1>11, <2>1, <2>2, <2>3 DEF Kept
  <1>14. Level(u) /\ Framed(u)
    <2>1. s.writing.cid # CommandChannel => s.writing.cid \in Cids
      BY WritingFacts, ChannelFacts
    <2> QED BY <1>11, <2>1 DEF Whole, Level, Framed, IsWriting
  <1>15. Whole(u, held)
    BY <1>10, <1>13, <1>14 DEF Whole
  <1> QED BY <1>6, <1>12, <1>15, ScheduleWhole

\* Nothing is queued, being written or open after nci_sar_reset.
LEMMA ClearedWhole ==
  ASSUME NEW s \in SarState, NEW held, Whole(s, held)
  PROVE  Whole(Cleared(s), held) /\ Cleared(s).writing = NullPacket
  <1> DEFINE t == Cleared(s)
  <1>1. /\ t.cmd = EmptyQueue /\ t.writing = NullPacket
        /\ t.conn = [c \in Cids |-> NewConnection]
        /\ t.live = s.live \ Reachable(s)
        /\ t.open = [ch \in Channels |-> 0] /\ t.torn = s.torn
    BY DEF Cleared, SarState
  <1> HIDE DEF t
  <1>2. \A ch \in Channels : QueueOf(t, ch) = EmptyQueue
    BY <1>1, ChannelFacts DEF QueueOf, NewConnection
  <1>3. IdsOf(EmptyQueue) = {}
    BY DEF IdsOf, EmptyQueue
  <1>4. \A ch : Neat(EmptyQueue, ch)
    BY DEF Neat, EmptyQueue
  <1>5. Sorted(t)
    BY <1>2, <1>3, <1>4 DEF Sorted
  <1>6. Queued(t) = {}
    BY <1>2, <1>3 DEF Queued
  <1>7. t.writing.id = 0 /\ t.writing.pos = 0 /\ t.writing.len = 0
        /\ ~t.writing.dangling
    BY <1>1 DEF NullPacket
  <1>8. Reachable(t) = {}
    BY <1>6, <1>7, ReachableFacts
  <1>9. Kept(t, held)
    <2>1. s.live = Reachable(s) \cup held /\ Reachable(s) \cap held = {}
      BY DEF Whole, Kept
    <2>2. t.live = held
      BY <1>1, <2>1
    <2> QED BY <1>6, <1>8, <2>2 DEF Kept
  <1>10. Level(t)
    BY <1>1, <1>7 DEF Level, IsWriting, NewConnection
  <1>11. Framed(t)
    BY <1>1, <1>7 DEF Whole, Framed
  <1> QED BY <1>1, <1>5, <1>9, <1>10, <1>11 DEF Whole, t

\* A client callback loses no packet and starts none twice.
LEMMA ReactWhole ==
  ASSUME NEW s \in SarState, NEW r \in Reactions, NEW held, Whole(s, held)
  PROVE  Whole(React(s, r), held)
  <1>1. CASE r.call = "reset"
    BY <1>1, ClearedWhole DEF React
  <1>2. CASE r.call = "send" /\ r.ch < s.max_logical_conns /\ HasRoom(s)
    <2>1. React(s, r) = Send(s, r.ch, r.len)
      BY <1>2 DEF React
    <2> QED BY <1>2, <2>1, ReactionFacts, SendWhole DEF HasRoom
  <1>3. CASE /\ r.call # "reset"
             /\ ~(r.call = "send" /\ r.ch < s.max_logical_conns /\ HasRoom(s))
    BY <1>3 DEF React
  <1> QED BY <1>1, <1>2, <1>3

\* Freeing the packets that were held.
LEMMA FreeWhole ==
  ASSUME NEW s \in SarState, NEW held, Whole(s, held)
  PROVE  Whole(Free(s, held), {})
  <1> DEFINE t == Free(s, held)
  <1>1. /\ t.cmd = s.cmd /\ t.conn = s.conn /\ t.live = s.live \ held
        /\ t.open = s.open /\ t.torn = s.torn /\ t.writing = s.writing
    BY DEF Free, SarState
  <1> HIDE DEF t
  <1>2. \A ch : QueueOf(t, ch) = QueueOf(s, ch)
    BY <1>1 DEF QueueOf
  <1>3. Sorted(t) /\ Queued(t) = Queued(s)
    BY <1>2 DEF Whole, Sorted, Queued
  <1>4. Reachable(t) = Reachable(s)
    BY <1>1, <1>3, ReachableFacts
  <1>5. Kept(t, {})
    <2>1. s.live = Reachable(s) \cup held /\ Reachable(s) \cap held = {}
          /\ s.writing.id \notin Queued(s)
      BY DEF Whole, Kept
    <2> QED BY <1>1, <1>3, <1>4, <2>1 DEF Kept
  <1>6. Level(t) /\ Framed(t)
    BY <1>1 DEF Whole, Level, Framed, IsWriting
  <1> QED BY <1>3, <1>5, <1>6 DEF Whole, t

\* The completion callback of a packet that is in no queue any more.
LEMMA CompleteWhole ==
  ASSUME NEW s \in SarState, NEW out, NEW r \in Reactions, Whole(s, {out.id})
  PROVE  Whole(Complete(s, out, r), {})
  BY ReactWhole, ReactType, FreeWhole DEF Complete

LEMMA ErrorWhole ==
  ASSUME NEW s \in SarState, NEW r \in Reactions, NEW held, Whole(s, held)
  PROVE  Whole(Error(s, r), held)
  <1> DEFINE t == [s EXCEPT !.failed = TRUE]
  <1>1. /\ t \in SarState /\ t.cmd = s.cmd /\ t.conn = s.conn /\ t.live = s.live
        /\ t.open = s.open /\ t.torn = s.torn /\ t.writing = s.writing
    BY DEF SarState
  <1>2. Error(s, r) = React(t, r)
    BY DEF Error
  <1> HIDE DEF t
  <1>3. \A ch : QueueOf(t, ch) = QueueOf(s, ch)
    BY <1>1 DEF QueueOf
  <1>4. Whole(t, held)
    BY <1>1, <1>3, SameWhole
  <1> QED BY <1>1, <1>2, <1>4, ReactWhole

-----------------------------------------------------------------------------
(***************************************************************************)
(* Writing                                                                 *)
(***************************************************************************)

\* The packet being written, if any, has a segment left to write.
Unfinished(s) == IsWriting(s) => \/ s.writing.pos = 0
                                 \/ s.writing.pos < s.writing.len

\* A connection without flow control pays nothing.
LEMMA SpendWhole ==
  ASSUME NEW s \in SarState, NEW c \in Cids, s.conn[c].credits > 0,
         NEW held, Whole(s, held)
  PROVE  /\ Whole(SpendCredit(s, c), held)
         /\ s.conn[c].credits = Unlimited
         /\ SpendCredit(s, c).writing = s.writing
         /\ SpendCredit(s, c).conn[c].credits = Unlimited
         /\ \A ch \in Channels : QueueOf(SpendCredit(s, c), ch) = QueueOf(s, ch)
  <1> DEFINE t == SpendCredit(s, c)
  <1>1. s.conn[c].credits = Unlimited
    BY CreditsType, SarAssumption DEF Whole, Level
  <1>2. /\ t.cmd = s.cmd /\ t.live = s.live
        /\ t.open = s.open /\ t.torn = s.torn /\ t.writing = s.writing
        /\ t.conn[c].credits = Spent(s.conn[c].credits)
        /\ \A d \in Cids : t.conn[d].out = s.conn[d].out
        /\ \A d \in Cids : d # c => t.conn[d].credits = s.conn[d].credits
    BY DEF SpendCredit, SarState, Connection
  <1> HIDE DEF t
  <1>3. \A d \in Cids : t.conn[d].credits = s.conn[d].credits
    BY <1>1, <1>2 DEF Spent
  <1>4. \A ch \in Channels : QueueOf(t, ch) = QueueOf(s, ch)
    BY <1>2, ChannelFacts DEF QueueOf
  <1>5. Whole(t, held)
    BY <1>2, <1>3, <1>4, SameWhole
  <1> QED BY <1>1, <1>2, <1>3, <1>4, <1>5 DEF t

\* Without flow control an unfinished packet is never put back.
LEMMA ContinueWhole ==
  ASSUME NEW s \in SarState, NEW garbage, Whole(s, {}), Unfinished(s)
  PROVE  /\ Whole(Continue(s, garbage), {})
         /\ Unfinished(Continue(s, garbage))
  <1> DEFINE c == s.writing.cid
  <1>1. CASE ~IsWriting(s) \/ c = CommandChannel
    BY <1>1 DEF Continue
  <1>2. CASE IsWriting(s) /\ c # CommandChannel
    <2>1. c \in Cids /\ ~s.writing.dangling /\ s.conn[c].credits = Unlimited
      BY <1>2, WritingFacts, ChannelFacts DEF Whole, Level
    <2>2. s.conn[c].credits > 0
      BY <2>1, SarAssumption
    <2>3. Continue(s, garbage) = SpendCredit(s, c)
      BY <1>2, <2>1, <2>2 DEF Continue
    <2> QED BY <2>1, <2>2, <2>3, SpendWhole DEF Unfinished, IsWriting
  <1> QED BY <1>1, <1>2

\* The packet that is taken off its queue is in no queue any more.
LEMMA TakeWhole ==
  ASSUME NEW s \in SarState, NEW ch \in Channels, QueueOf(s, ch).chain # << >>,
         Whole(s, {}), ~IsWriting(s),
         ch # CommandChannel => s.conn[ch].credits = Unlimited
  PROVE  Whole(Take(s, ch), {}) /\ Unfinished(Take(s, ch))
  <1> DEFINE o == QueueOf(s, ch)
             out == Head(o.chain)
             t == [s EXCEPT !.writing = out]
             q == Dequeue(o)
             u == SetQueue(t, ch, q)
  <1>1. o \in Queue /\ Neat(o, ch)
    BY QueueOfType DEF Whole, Sorted
  <1>2. /\ out \in Packet /\ q \in Queue /\ Neat(q, ch) /\ out \in Unsent(ch)
        /\ out.id \in IdsOf(o) /\ IdsOf(q) = IdsOf(o) \ {out.id}
    BY <1>1, DequeueType, DequeueNeat
  <1>3. /\ t \in SarState /\ t.cmd = s.cmd /\ t.conn = s.conn
        /\ t.live = s.live /\ t.writing = out /\ t.open = s.open /\ t.torn = s.torn
    BY <1>2 DEF SarState
  <1>4. Take(s, ch) = u
    BY DEF Take
  <1>5. out.cid = ch /\ ~out.dangling /\ out.pos = 0 /\ out.id # 0 /\ out.len \in Nat
    BY <1>2 DEF Unsent, Packet
  <1> HIDE DEF o, out, t, q
  <1>6. \A dh : QueueOf(t, dh) = QueueOf(s, dh)
    BY <1>3 DEF QueueOf
  <1>7. Sorted(t) /\ Queued(t) = Queued(s) /\ QueueOf(t, ch) = o
    BY <1>6 DEF Whole, Sorted, Queued, o
  <1>8. IdsOf(o) \subseteq Queued(s)
    BY DEF Queued, o
  <1>9. Sorted(u) /\ Queued(u) = Queued(s) \ {out.id}
    <2>1. IdsOf(q) \cap (Queued(t) \ IdsOf(QueueOf(t, ch))) = {}
      BY <1>2, <1>7
    <2>2. /\ Sorted(u)
          /\ Queued(u) = (Queued(t) \ IdsOf(QueueOf(t, ch))) \cup IdsOf(q)
      BY <1>2, <1>3, <1>7, <2>1, SetQueueSorted
    <2> QED BY <1>2, <1>7, <1>8, <2>2
  <1>10. /\ \A c \in Cids : u.conn[c].credits = s.conn[c].credits
         /\ u.live = s.live /\ u.writing = out
         /\ u.open = s.open /\ u.torn = s.torn
    BY <1>2, <1>3, QueuesAfter
  <1> HIDE DEF u
  <1>11. s.writing.id = 0 /\ s.writing.pos = 0
    BY WritingFacts DEF NullPacket
  <1>12. Kept(u, {})
    <2>1. s.live = Queued(s)
      BY <1>11, ReachableFacts DEF Whole, Kept
    <2>2. Reachable(u) = Queued(s)
      BY <1>2, <1>5, <1>8, <1>9, <1>10, ReachableFacts
    <2> QED BY <1>9, <1>10, <2>1, <2>2 DEF Kept
  <1>13. Level(u)
    <2>1. ch # CommandChannel => ch \in Cids
      BY ChannelFacts
    <2> QED BY <1>5, <1>10, <2>1 DEF Whole, Level
  <1>14. Framed(u)
    BY <1>5, <1>10, <1>11 DEF Whole, Framed
  <1> QED BY <1>4, <1>5, <1>9, <1>10, <1>12, <1>13, <1>14 DEF Whole, Unfinished

\* Whatever is chosen to be written next starts or goes on in order.
LEMMA PickWhole ==
  ASSUME NEW s \in SarState, Whole(s, {}), Unfinished(s)
  PROVE  Whole(Pick(s), {}) /\ Unfinished(Pick(s))
  <1> DEFINE lowest == CHOOSE c \in Ready(s) : \A d \in Ready(s) : c <= d
  <1>1. CASE IsWriting(s) \/ (s.cmd.chain = << >> /\ Ready(s) = {})
    BY <1>1 DEF Pick
  <1>2. CASE ~IsWriting(s) /\ s.cmd.chain # << >>
    <2>1. Pick(s) = Take(s, CommandChannel)
      BY <1>2 DEF Pick
    <2>2. QueueOf(s, CommandChannel).chain # << >>
      BY <1>2 DEF QueueOf
    <2> QED BY <1>2, <2>1, <2>2, TakeWhole, ChannelFacts
  <1>3. CASE ~IsWriting(s) /\ s.cmd.chain = << >> /\ Ready(s) # {}
    <2>1. lowest \in Ready(s)
      BY <1>3, LowestReady
    <2>2. Pick(s) = Take(SpendCredit(s, lowest), lowest)
      BY <1>3 DEF Pick
    <2> HIDE DEF lowest
    <2>3. /\ lowest \in Cids /\ lowest \in Channels /\ lowest # CommandChannel
          /\ s.conn[lowest].credits > 0
          /\ s.conn[lowest].out.chain # << >>
      BY <2>1, ReadyFacts, ChannelFacts
    <2> DEFINE t == SpendCredit(s, lowest)
    <2>4. t \in SarState
      BY <2>3, SpendCreditType
    <2>5. /\ Whole(t, {}) /\ t.writing = s.writing
          /\ t.conn[lowest].credits = Unlimited
          /\ QueueOf(t, lowest) = QueueOf(s, lowest)
      BY <2>3, SpendWhole
    <2>6. QueueOf(t, lowest).chain # << >>
      BY <2>3, <2>5 DEF QueueOf
    <2>7. Pick(s) = Take(t, lowest)
      BY <2>2
    <2> HIDE DEF t
    <2>8. ~IsWriting(t)
      BY <1>3, <2>5 DEF IsWriting
    <2> QED BY <2>3, <2>4, <2>5, <2>6, <2>7, <2>8, TakeWhole
  <1> QED BY <1>1, <1>2, <1>3

\* The segment that the HAL gets continues what it got of the packet.
LEMMA OnWireWhole ==
  ASSUME NEW s \in SarState, Whole(s, {}), IsWriting(s), Unfinished(s)
  PROVE  Whole(OnWire(s), {})
  <1> DEFINE out == s.writing
             ch == out.cid
             pos == IF LastSegment(s) THEN out.len ELSE out.pos + PayloadLimit(s)
             t == OnWire(s)
  <1>1. /\ out \in Packet /\ ch \in Channels /\ out.len \in Nat /\ out.pos \in Nat
        /\ s.open \in [Channels -> PacketIds]
        /\ PayloadLimit(s) \in Nat \ {0} /\ out.id # 0
    BY WritingFacts DEF SarState, PayloadLimit, IsWriting
  <1>2. /\ t.cmd = s.cmd /\ t.conn = s.conn /\ t.live = s.live
        /\ t.writing = [out EXCEPT !.pos = pos]
        /\ t.open = [s.open EXCEPT ![ch] = IF LastSegment(s) THEN 0 ELSE out.id]
        /\ t.torn = (s.torn \/ s.open[ch] # (IF out.pos = 0 THEN 0 ELSE out.id))
    BY DEF OnWire, SarState
  <1>3. /\ LastSegment(s) => pos = out.len
        /\ ~LastSegment(s) => pos \in Nat /\ 0 < pos /\ pos < out.len
    BY <1>1 DEF LastSegment
  <1> HIDE DEF pos
  <1>4. /\ t.writing.id = out.id /\ t.writing.cid = ch /\ t.writing.len = out.len
        /\ t.writing.pos = pos /\ t.writing.dangling = out.dangling
    BY <1>1, <1>2 DEF Packet
  <1> HIDE DEF t
  <1>5. \A dh : QueueOf(t, dh) = QueueOf(s, dh)
    BY <1>2 DEF QueueOf
  <1>6. Sorted(t) /\ Queued(t) = Queued(s)
    BY <1>5 DEF Whole, Sorted, Queued
  <1>7. Kept(t, {})
    BY <1>2, <1>4, <1>6, ReachableFacts DEF Whole, Kept
  <1>8. Level(t)
    BY <1>2, <1>4 DEF Whole, Level, IsWriting
  <1>9. /\ ~s.torn
        /\ \A dh \in Channels : s.open[dh] =
              IF ch = dh /\ 0 < out.pos /\ out.pos < out.len THEN out.id ELSE 0
    BY DEF Whole, Framed
  <1>10. s.open[ch] = IF out.pos = 0 THEN 0 ELSE out.id
    BY <1>1, <1>9 DEF Unfinished
  <1>11. ~t.torn
    BY <1>2, <1>9, <1>10
  <1>12. ASSUME NEW dh \in Channels
         PROVE  t.open[dh] = IF ch = dh /\ 0 < pos /\ pos < out.len THEN out.id ELSE 0
    <2>1. CASE dh = ch
      BY <1>1, <1>2, <1>3, <2>1
    <2>2. CASE dh # ch
      BY <1>1, <1>2, <1>9, <2>2
    <2> QED BY <2>1, <2>2
  <1>13. pos <= out.len
    BY <1>1, <1>3
  <1>14. Framed(t)
    BY <1>4, <1>11, <1>12, <1>13 DEF Framed
  <1> QED BY <1>6, <1>7, <1>8, <1>14 DEF Whole, t

\* The packet that was being written, done or dropped, is still to be freed.
LEMMA ReleasedWhole ==
  ASSUME NEW s \in SarState, Whole(s, {}), IsWriting(s), NEW t,
         t.cmd = s.cmd, t.conn = s.conn, t.live = s.live, t.torn = s.torn,
         t.writing = NullPacket, \A ch \in Channels : t.open[ch] = 0
  PROVE  Whole(t, {s.writing.id})
  <1>1. \A ch : QueueOf(t, ch) = QueueOf(s, ch)
    BY DEF QueueOf
  <1>2. Sorted(t) /\ Queued(t) = Queued(s)
    BY <1>1 DEF Whole, Sorted, Queued
  <1>3. /\ t.writing.id = 0 /\ t.writing.pos = 0 /\ t.writing.len = 0
        /\ ~t.writing.dangling
    BY DEF NullPacket
  <1>4. Kept(t, {s.writing.id})
    <2>1. /\ s.live = Queued(s) \cup {s.writing.id}
          /\ s.writing.id \notin Queued(s)
      BY ReachableFacts DEF Whole, Kept, IsWriting
    <2>2. Reachable(t) = Queued(s)
      BY <1>2, <1>3, ReachableFacts
    <2>3. 0 \notin Queued(s)
      <3>1. \A ch \in Channels : 0 \notin IdsOf(QueueOf(s, ch))
        BY QueueOfType, NeatFacts DEF Whole, Sorted
      <3> QED BY <3>1 DEF Queued
    <2> QED BY <1>2, <1>3, <2>1, <2>2, <2>3 DEF Kept
  <1>5. Level(t)
    BY <1>3 DEF Whole, Level, IsWriting
  <1>6. Framed(t)
    BY <1>3 DEF Whole, Framed
  <1> QED BY <1>2, <1>4, <1>5, <1>6 DEF Whole

\* A packet that the HAL refused: its channel is free for the next one.
LEMMA DroppedWhole ==
  ASSUME NEW s \in SarState, Whole(s, {}), IsWriting(s)
  PROVE  Whole(Dropped(s), {s.writing.id})
  <1> DEFINE t == Dropped(s)
  <1>1. /\ t.cmd = s.cmd /\ t.conn = s.conn /\ t.live = s.live /\ t.torn = s.torn
        /\ t.writing = NullPacket
        /\ t.open = [s.open EXCEPT ![s.writing.cid] = 0]
    BY DEF Dropped, SarState
  <1> HIDE DEF t
  <1>2. s.open \in [Channels -> PacketIds]
    BY DEF SarState
  <1>3. \A ch \in Channels : ch # s.writing.cid => s.open[ch] = 0
    BY DEF Whole, Framed
  <1>4. \A ch \in Channels : t.open[ch] = 0
    BY <1>1, <1>2, <1>3
  <1>5. Whole(t, {s.writing.id})
    BY <1>1, <1>4, ReleasedWhole
  <1> QED BY <1>5 DEF t

\* The second half of nci_sar_attempt_write, whatever the HAL answers.
LEMMA SubmitWhole ==
  ASSUME NEW s \in SarState, NEW hal \in HalOutcomes, Whole(s, {}), Unfinished(s)
  PROVE  Whole(Submit(s, hal), {})
  <1> DEFINE up == [s EXCEPT !.started = @ \/ hal.starts]
             done == Complete(Dropped(up), s.writing, hal.r)
             failure == Error(done, hal.e)
  <1>1. /\ up \in SarState /\ up.writing = s.writing /\ up.cmd = s.cmd
        /\ up.conn = s.conn /\ up.live = s.live /\ up.open = s.open
        /\ up.torn = s.torn
    BY HalOutcomeFacts DEF SarState
  <1>2. Submit(s, hal) = IF ~IsWriting(s) THEN s ELSE IF hal.accepts THEN OnWire(up)
                         ELSE ScheduleWrite(failure)
    BY DEF Submit
  <1> HIDE DEF up
  <1>3. \A ch : QueueOf(up, ch) = QueueOf(s, ch)
    BY <1>1 DEF QueueOf
  <1>4. Whole(up, {})
    BY <1>1, <1>3, SameWhole
  <1>5. CASE ~IsWriting(s)
    BY <1>2, <1>5
  <1>6. CASE IsWriting(s)
    <2>1. IsWriting(up) /\ Unfinished(up)
      BY <1>1, <1>6 DEF IsWriting, Unfinished
    <2>2. Whole(OnWire(up), {})
      BY <1>1, <1>4, <2>1, OnWireWhole
    <2>3. Dropped(up) \in SarState /\ Whole(Dropped(up), {s.writing.id})
      BY <1>1, <1>4, <2>1, DroppedType, DroppedWhole
    <2>4. done \in SarState /\ Whole(done, {})
      BY <2>3, CompleteType, CompleteWhole, HalOutcomeFacts
    <2> HIDE DEF done
    <2>5. failure \in SarState /\ Whole(failure, {})
      BY <2>4, ErrorType, ErrorWhole, HalOutcomeFacts
    <2> HIDE DEF failure
    <2>6. Whole(ScheduleWrite(failure), {})
      BY <2>5, ScheduleWhole
    <2> QED BY <1>2, <1>6, <2>2, <2>6
  <1> QED BY <1>5, <1>6

LEMMA AttemptWriteWhole ==
  ASSUME NEW s \in SarState, NEW hal \in HalOutcomes, NEW garbage,
         Whole(s, {}), s.write_pending \/ Unfinished(s)
  PROVE  Whole(AttemptWrite(s, hal, garbage), {})
  <1> DEFINE t == Continue(s, garbage)
  <1>1. CASE s.write_pending
    BY <1>1 DEF AttemptWrite
  <1>2. CASE ~s.write_pending
    <2>1. AttemptWrite(s, hal, garbage) = Submit(Pick(t), hal)
      BY <1>2 DEF AttemptWrite
    <2>2. t \in SarState /\ Whole(t, {}) /\ Unfinished(t)
      BY <1>2, ContinueType, ContinueWhole
    <2> HIDE DEF t
    <2>3. Pick(t) \in SarState /\ Whole(Pick(t), {}) /\ Unfinished(Pick(t))
      BY <2>2, PickType, PickWhole
    <2> QED BY <2>1, <2>3, SubmitWhole
  <1> QED BY <1>1, <1>2

-----------------------------------------------------------------------------
\* Credits set to none or unlimited, on a connection whose packet, if one is
\* being written, needs no credit.
LEMMA AccountWhole ==
  ASSUME NEW s \in SarState, NEW c \in Cids, NEW n \in {0, Unlimited}, NEW d,
         Whole(s, {}), s.writing.cid = c => n = Unlimited
  PROVE  Whole([s EXCEPT !.conn[c].credits = n, !.due[c] = d], {})
  <1> DEFINE t == [s EXCEPT !.conn[c].credits = n, !.due[c] = d]
  <1>1. /\ t.cmd = s.cmd /\ t.live = s.live /\ t.open = s.open /\ t.torn = s.torn
        /\ t.writing = s.writing /\ t.conn[c].credits = n
        /\ \A b \in Cids : t.conn[b].out = s.conn[b].out
        /\ \A b \in Cids : b # c => t.conn[b].credits = s.conn[b].credits
    BY DEF SarState, Connection
  <1> HIDE DEF t
  <1>2. \A ch \in Channels : QueueOf(t, ch) = QueueOf(s, ch)
    BY <1>1, ChannelFacts DEF QueueOf
  <1>3. Sorted(t) /\ Queued(t) = Queued(s)
    BY <1>2 DEF Whole, Sorted, Queued
  <1>4. Kept(t, {})
    BY <1>1, <1>3, ReachableFacts DEF Whole, Kept
  <1>5. Level(t)
    <2>1. s.writing.cid # CommandChannel => s.writing.cid \in Cids
      BY WritingFacts, ChannelFacts
    <2>2. \A b \in Cids : t.conn[b].credits \in {0, Unlimited}
      BY <1>1 DEF Whole, Level
    <2>3. IsWriting(s) /\ s.writing.cid # CommandChannel =>
             t.conn[s.writing.cid].credits = Unlimited
      BY <1>1, <2>1 DEF Whole, Level
    <2> QED BY <1>1, <2>2, <2>3 DEF Whole, Level, IsWriting
  <1>6. Framed(t)
    BY <1>1 DEF Whole, Framed
  <1> QED BY <1>3, <1>4, <1>5, <1>6 DEF Whole, t

\* nci_sar_take_credits: unlimited credits stay unlimited.
LEMMA TakeCreditsWhole ==
  ASSUME NEW s \in SarState, NEW c \in Cids, NEW n \in {0, Unlimited}, Whole(s, {})
  PROVE  Whole(TakeCredits(s, c, n), {})
  <1> DEFINE t == [s EXCEPT !.conn[c].credits = Sum(@, n), !.due[c] = Sum(@, n)]
  <1>1. TakeCredits(s, c, n) = IF n = 0 THEN s
           ELSE IF t.conn[c].out.chain # << >> THEN ScheduleWrite(t) ELSE t
    BY DEF TakeCredits
  <1>2. n \in 0 .. Unlimited
    BY SarAssumption
  <1>3. n # 0 => Sum(s.conn[c].credits, n) = Unlimited
    BY CreditsType, SarAssumption DEF Sum
  <1>4. t \in SarState
    BY <1>2, CreditedType
  <1>5. n # 0 => Whole(t, {})
    BY <1>3, AccountWhole
  <1> HIDE DEF t
  <1> QED BY <1>1, <1>4, <1>5, ScheduleWhole

\* nci_sar_set_max_logical_connections called as its callers have to.
LEMMA ResizedWhole ==
  ASSUME NEW s \in SarState, NEW n \in 1 .. MaxConns, NEW moved \in BOOLEAN,
         \A c \in Cids : s.conn[c].out.chain = << >>,
         s.writing.cid = CommandChannel, Whole(s, {})
  PROVE  Whole(Resized(s, n, moved), {})
  <1> DEFINE t == Resized(s, n, moved)
             lost == UNION {IdsOf(s.conn[c].out) : c \in {d \in Cids : d >= n}}
  <1>1. /\ t.writing = Repoint(s.writing, n, moved) /\ t.cmd = s.cmd
        /\ t.open = s.open /\ t.torn = s.torn
        /\ t.live = s.live \ lost
    BY DEF Resized, SarState
  <1>2. t.writing = s.writing
    BY <1>1 DEF Repoint
  <1>3. ASSUME NEW c \in Cids PROVE IdsOf(s.conn[c].out) = {}
    <2>1. DOMAIN << >> = {}
      OBVIOUS
    <2>2. DOMAIN s.conn[c].out.chain = {}
      BY <2>1, Zenon
    <2> QED BY <2>2 DEF IdsOf
  <1>4. t.live = s.live
    <2>1. lost = {}
      BY <1>3, Zenon
    <2> HIDE DEF lost, t
    <2> QED BY <1>1, <2>1
  <1>5. ASSUME NEW c \in Cids
        PROVE  /\ t.conn[c].out = s.conn[c].out
               /\ t.conn[c].credits \in {0, Unlimited}
    <2> DEFINE chain == [i \in 1 .. Len(s.conn[c].out.chain) |->
                            Repoint(s.conn[c].out.chain[i], n, moved)]
    <2>1. t.conn[c] = IF c >= n THEN NewConnection
                      ELSE [credits |-> s.conn[c].credits,
                            out |-> [chain |-> chain,
                                     last |-> s.conn[c].out.last]]
      BY DEF Resized, SarState
    <2>2. Len(s.conn[c].out.chain) = 0
      OBVIOUS
    <2>3. chain = << >>
      BY <2>2
    <2> HIDE DEF t, chain
    <2>4. s.conn[c].out = EmptyQueue
      <3>1. s.conn[c].out \in Queue
        BY CreditsType
      <3>2. s.conn[c].out.last = FALSE
        <4>1. Neat(s.conn[c].out, c)
          BY ChannelFacts DEF Whole, Sorted, QueueOf
        <4> QED BY <3>1, <4>1 DEF Neat, Queue
      <3> QED BY <3>1, <3>2 DEF Queue, EmptyQueue
    <2>5. s.conn[c].credits \in {0, Unlimited}
      BY DEF Whole, Level
    <2>6. CASE c >= n
      BY <2>1, <2>4, <2>6 DEF NewConnection
    <2>7. CASE ~(c >= n)
      BY <2>1, <2>3, <2>4, <2>5, <2>7 DEF EmptyQueue
    <2> QED BY <2>6, <2>7
  <1> HIDE DEF t
  <1>6. \A ch \in Channels : QueueOf(t, ch) = QueueOf(s, ch)
    BY <1>1, <1>5, ChannelFacts DEF QueueOf
  <1>7. Sorted(t) /\ Queued(t) = Queued(s)
    BY <1>6 DEF Whole, Sorted, Queued
  <1>8. Kept(t, {})
    BY <1>2, <1>4, <1>7, ReachableFacts DEF Whole, Kept
  <1>9. Level(t) /\ Framed(t)
    BY <1>1, <1>2, <1>5 DEF Whole, Level, Framed
  <1> QED BY <1>7, <1>8, <1>9 DEF Whole, t

\* nci_sar_cancel_queue: the packet that was unlinked is the one to be freed.
LEMMA UnlinkWhole ==
  ASSUME NEW s \in SarState, NEW ch \in Channels, Whole(s, {}),
         NEW i \in DOMAIN QueueOf(s, ch).chain
  PROVE  Whole(SetQueue(s, ch, Unlink(QueueOf(s, ch), i)),
               {QueueOf(s, ch).chain[i].id})
  <1> DEFINE o == QueueOf(s, ch)
             id == o.chain[i].id
             q == Unlink(o, i)
             u == SetQueue(s, ch, q)
  <1>1. o \in Queue /\ Neat(o, ch)
    BY QueueOfType DEF Whole, Sorted
  <1>2. q \in Queue /\ Neat(q, ch) /\ IdsOf(q) = IdsOf(o) \ {id}
    BY <1>1, UnlinkType, UnlinkNeat
  <1>3. id \in IdsOf(o)
    BY DEF IdsOf
  <1> HIDE DEF q, o, id
  <1>4. IdsOf(o) \subseteq Queued(s) /\ Sorted(s)
    BY DEF Queued, o, Whole
  <1>5. Sorted(u) /\ Queued(u) = Queued(s) \ {id}
    <2>1. IdsOf(q) \cap (Queued(s) \ IdsOf(o)) = {}
      BY <1>2
    <2>2. Sorted(u) /\ Queued(u) = (Queued(s) \ IdsOf(o)) \cup IdsOf(q)
      BY <1>2, <1>4, <2>1, SetQueueSorted DEF o
    <2> QED BY <1>2, <1>3, <1>4, <2>2
  <1>6. /\ \A c \in Cids : u.conn[c].credits = s.conn[c].credits
        /\ u.live = s.live /\ u.writing = s.writing
        /\ u.open = s.open /\ u.torn = s.torn
    BY <1>2, QueuesAfter
  <1> HIDE DEF u
  <1>7. Kept(u, {id})
    <2>1. /\ s.live = Queued(s) \cup ({s.writing.id} \ {0})
          /\ s.writing.id \notin Queued(s)
      BY ReachableFacts DEF Whole, Kept
    <2>2. Reachable(u) = (Queued(s) \ {id}) \cup ({s.writing.id} \ {0})
      BY <1>5, <1>6, ReachableFacts
    <2> QED BY <1>3, <1>4, <1>5, <1>6, <2>1, <2>2 DEF Kept
  <1>8. Level(u) /\ Framed(u)
    <2>1. s.writing.cid # CommandChannel => s.writing.cid \in Cids
      BY WritingFacts, ChannelFacts
    <2> QED BY <1>6, <2>1 DEF Whole, Level, Framed, IsWriting
  <1> QED BY <1>5, <1>7, <1>8 DEF Whole, u, q, id, o

(***************************************************************************)
(* Without flow control, and under a caller that keeps to the              *)
(* preconditions: the inductive invariant behind the three theorems below. *)
(***************************************************************************)
THEOREM WholePackets ==
  ASSUME StrictCaller, Grants \subseteq {0, Unlimited}
  PROVE  Spec => []Whole(sar, {})
  <1>1. Init => Whole(sar, {})
    <2> SUFFICES ASSUME Init PROVE Whole(sar, {})
      OBVIOUS
    <2>1. /\ sar.cmd = EmptyQueue /\ sar.writing = NullPacket
          /\ sar.conn = [c \in Cids |-> NewConnection]
          /\ sar.live = {} /\ sar.torn = FALSE
          /\ sar.open = [c \in Channels |-> 0]
      BY DEF Init
    <2>2. \A ch \in Channels : QueueOf(sar, ch) = EmptyQueue
      BY <2>1, ChannelFacts DEF QueueOf, NewConnection
    <2>3. IdsOf(EmptyQueue) = {}
      BY DEF IdsOf, EmptyQueue
    <2>4. \A ch : Neat(EmptyQueue, ch)
      BY DEF Neat, EmptyQueue
    <2>5. Sorted(sar) /\ Queued(sar) = {}
      BY <2>2, <2>3, <2>4 DEF Sorted, Queued
    <2>6. /\ sar.writing.id = 0 /\ sar.writing.pos = 0 /\ sar.writing.len = 0
          /\ ~sar.writing.dangling
      BY <2>1 DEF NullPacket
    <2>7. Kept(sar, {})
      BY <2>1, <2>5, <2>6, ReachableFacts DEF Kept
    <2>8. Level(sar) /\ Framed(sar)
      BY <2>1, <2>6 DEF Level, Framed, IsWriting, NewConnection
    <2> QED BY <2>5, <2>7, <2>8 DEF Whole
  <1>2. /\ TypeOK /\ OneWriteInFlight /\ Whole(sar, {}) /\ [Next]_sar
        => Whole(sar, {})'
    <2> SUFFICES ASSUME sar \in SarState, OneWriteInFlight, Whole(sar, {}), [Next]_sar
                 PROVE  Whole(sar', {})
      BY DEF TypeOK, Whole, Sorted, Kept, Level, Framed, QueueOf, Queued, IdsOf,
         Reachable, IsWriting, Neat
    <2>1. ASSUME NEW p \in Sends, SendPacket(p.ch, p.len) PROVE Whole(sar', {})
      <3>1. p.ch \in Channels /\ p.len \in Nat
        BY ChannelFacts, SarAssumption DEF Sends
      <3> QED BY <2>1, <3>1, SendWhole DEF SendPacket, HasRoom
    <2>2. ASSUME NEW id \in sar.live, Cancel(id) PROVE Whole(sar', {})
      <3>1. CASE IsWriting(sar) /\ sar' = [sar EXCEPT !.writing.complete = FALSE]
        <4>1. /\ sar'.cmd = sar.cmd /\ sar'.conn = sar.conn /\ sar'.live = sar.live
              /\ sar'.open = sar.open /\ sar'.torn = sar.torn
              /\ sar'.writing = [sar.writing EXCEPT !.complete = FALSE]
          BY <3>1 DEF SarState
        <4>2. /\ sar'.writing.id = sar.writing.id
              /\ sar'.writing.cid = sar.writing.cid
              /\ sar'.writing.len = sar.writing.len
              /\ sar'.writing.pos = sar.writing.pos
              /\ sar'.writing.dangling = sar.writing.dangling
          BY <3>1, <4>1, WritingFacts DEF Packet
        <4>3. \A ch : QueueOf(sar', ch) = QueueOf(sar, ch)
          BY <4>1 DEF QueueOf
        <4> QED BY <4>1, <4>2, <4>3, SameWhole
      <3>2. ASSUME NEW ch \in Channels, NEW i \in DOMAIN QueueOf(sar, ch).chain,
                   QueueOf(sar, ch).chain[i].id = id,
                   sar' = Free(SetQueue(sar, ch, Unlink(QueueOf(sar, ch), i)), {id})
            PROVE  Whole(sar', {})
        <4> DEFINE t == SetQueue(sar, ch, Unlink(QueueOf(sar, ch), i))
        <4>1. t \in SarState
          BY QueueOfType, UnlinkType, SetQueueType
        <4>2. Whole(t, {id})
          BY <3>2, UnlinkWhole
        <4>3. sar' = Free(t, {id})
          BY <3>2
        <4> HIDE DEF t
        <4> QED BY <4>1, <4>2, <4>3, FreeWhole
      <3> QED BY <2>2, <3>1, <3>2 DEF Cancel
    <2>3. ASSUME \/ Start
                 \/ \E max \in Limits :
                       \/ SetMaxControlPayloadSize(max)
                       \/ SetMaxDataPayloadSize(max)
          PROVE  Whole(sar', {})
      <3>1. /\ sar'.cmd = sar.cmd /\ sar'.conn = sar.conn /\ sar'.live = sar.live
            /\ sar'.open = sar.open /\ sar'.torn = sar.torn
            /\ sar'.writing = sar.writing
        BY <2>3 DEF Start, SetMaxControlPayloadSize, SetMaxDataPayloadSize, SarState
      <3>2. \A ch : QueueOf(sar', ch) = QueueOf(sar, ch)
        BY <3>1 DEF QueueOf
      <3> QED BY <3>1, <3>2, SameWhole
    <2>4. ASSUME NEW r \in Reactions, Reset(r) PROVE Whole(sar', {})
      BY <2>4, ClearedType, ClearedWhole, ReactWhole DEF Reset
    <2>5. ASSUME NEW max \in 0 .. MaxConns, NEW moved \in BOOLEAN,
                 SetMaxLogicalConns(max, moved)
          PROVE  Whole(sar', {})
      <3>1. (IF max = 0 THEN 1 ELSE max) \in 1 .. MaxConns
        BY SarAssumption
      <3> QED BY <2>5, <3>1, ResizedWhole DEF SetMaxLogicalConns
    <2>6. ASSUME NEW c \in Cids, NEW n \in Grants,
                 SetInitialCredits(c, n) \/ AddCredits(c, n)
          PROVE  Whole(sar', {})
      <3>1. n \in {0, Unlimited}
        OBVIOUS
      <3>2. CASE SetInitialCredits(c, n)
        <4>1. /\ sar' = [sar EXCEPT !.conn[c].credits = n, !.due[c] = n]
              /\ sar.writing.cid # c
          BY <3>2 DEF SetInitialCredits
        <4>2. Whole([sar EXCEPT !.conn[c].credits = n, !.due[c] = n], {})
          BY <3>1, <4>1, AccountWhole
        <4> QED BY <4>1, <4>2
      <3>3. CASE AddCredits(c, n)
        <4>1. sar' = TakeCredits(sar, c, n)
          BY <3>3 DEF AddCredits
        <4> QED BY <3>1, <4>1, TakeCreditsWhole
      <3> QED BY <2>6, <3>2, <3>3
    <2>7. ASSUME NEW hal \in HalOutcomes, StartWrite(hal) PROVE Whole(sar', {})
      <3> DEFINE t == [sar EXCEPT !.start_write = FALSE]
      <3>1. /\ t \in SarState /\ t.cmd = sar.cmd /\ t.conn = sar.conn
            /\ t.live = sar.live /\ t.open = sar.open /\ t.torn = sar.torn
            /\ t.writing = sar.writing /\ t.write_pending = sar.write_pending
        BY DEF SarState
      <3>2. sar' = AttemptWrite(t, hal, FALSE)
        BY <2>7 DEF StartWrite
      <3> HIDE DEF t
      <3>3. \A ch : QueueOf(t, ch) = QueueOf(sar, ch)
        BY <3>1 DEF QueueOf
      <3>4. Whole(t, {})
        BY <3>1, <3>3, SameWhole
      <3>5. t.write_pending \/ Unfinished(t)
        BY <3>1 DEF OneWriteInFlight, Unfinished, IsWriting
      <3> QED BY <3>1, <3>2, <3>4, <3>5, AttemptWriteWhole
    <2>8. ASSUME NEW hal \in HalOutcomes, NEW garbage \in BOOLEAN,
                 NEW r \in Reactions, WriteCompleted(hal, garbage, r)
          PROVE  Whole(sar', {})
      <3> DEFINE s == [sar EXCEPT !.write_pending = FALSE]
                 idle == [s EXCEPT !.writing = NullPacket]
                 done == Complete(idle, sar.writing, r)
      <3>1. /\ s \in SarState /\ s.cmd = sar.cmd /\ s.conn = sar.conn
            /\ s.live = sar.live /\ s.open = sar.open /\ s.torn = sar.torn
            /\ s.writing = sar.writing
        BY DEF SarState
      <3>2. /\ idle \in SarState /\ idle.cmd = sar.cmd /\ idle.conn = sar.conn
            /\ idle.live = sar.live /\ idle.open = sar.open
            /\ idle.torn = sar.torn /\ idle.writing = NullPacket
            /\ Quiet(idle)
        BY DEF SarState, Quiet, IsWriting, NullPacket
      <3>3. sar' = AttemptWrite(IF sar.writing.pos = sar.writing.len THEN done ELSE s,
                                hal, garbage)
        BY <2>8 DEF WriteCompleted
      <3>4. IsWriting(sar) /\ sar.writing.pos <= sar.writing.len
            /\ sar.writing.pos \in Nat /\ sar.writing.len \in Nat
        BY <2>8, WritingFacts DEF WriteCompleted, OneWriteInFlight, Whole, Framed
      <3> HIDE DEF s, idle
      <3>5. CASE sar.writing.pos # sar.writing.len
        <4>1. \A ch : QueueOf(s, ch) = QueueOf(sar, ch)
          BY <3>1 DEF QueueOf
        <4>2. Whole(s, {})
          BY <3>1, <4>1, SameWhole
        <4>3. Unfinished(s)
          BY <3>1, <3>4, <3>5 DEF Unfinished
        <4> QED BY <3>1, <3>3, <3>5, <4>2, <4>3, AttemptWriteWhole
      <3>6. CASE sar.writing.pos = sar.writing.len
        <4>1. \A ch \in Channels : idle.open[ch] = 0
          BY <3>2, <3>4, <3>6 DEF Whole, Framed
        <4>2. Whole(idle, {sar.writing.id})
          BY <3>2, <3>4, <4>1, ReleasedWhole
        <4>3. done \in SarState /\ Whole(done, {}) /\ Quiet(done)
          BY <3>2, <4>2, CompleteType, CompleteWhole, CompleteKeeps
        <4> HIDE DEF done
        <4>4. Unfinished(done)
          BY <4>3 DEF Quiet, Unfinished
        <4> QED BY <3>3, <3>6, <4>3, <4>4, AttemptWriteWhole
      <3> QED BY <3>5, <3>6
    <2>9. ASSUME NEW r \in Reactions, NEW e \in {Ignore, StartOver}, WriteFailed(r, e)
          PROVE  Whole(sar', {})
      <3>1. e \in Reactions
        BY DEF Reactions
      <3>2. IsWriting(sar)
        BY <2>9 DEF WriteFailed, OneWriteInFlight
      <3>3. Dropped(sar) \in SarState /\ Whole(Dropped(sar), {sar.writing.id})
        BY <3>2, DroppedType, DroppedWhole
      <3>4. /\ Complete(Dropped(sar), sar.writing, r) \in SarState
            /\ Whole(Complete(Dropped(sar), sar.writing, r), {})
        BY <3>3, CompleteType, CompleteWhole
      <3> QED BY <2>9, <3>1, <3>4, ErrorWhole DEF WriteFailed
    <2>10. ASSUME NEW e \in {Ignore, StartOver}, HalError(e) PROVE Whole(sar', {})
      <3>1. e \in Reactions
        BY DEF Reactions
      <3> QED BY <2>10, <3>1, ErrorWhole DEF HalError
    <2>11. CASE UNCHANGED sar
      BY <2>11
    <2> QED BY <2>1, <2>2, <2>3, <2>4, <2>5, <2>6, <2>7, <2>8, <2>9, <2>10,
               <2>11 DEF Next, Client, Idle, Hal
  <1> QED BY <1>1, <1>2, TypeCorrect, OneWrite, PTL DEF Spec

(***************************************************************************)
(* The segments of a packet reach the NFCC as one run on their channel.    *)
(***************************************************************************)
THEOREM NeverTorn ==
  ASSUME StrictCaller, Grants \subseteq {0, Unlimited}
  PROVE  Spec => []NoTornMessage
  <1>1. Whole(sar, {}) => NoTornMessage
    BY DEF Whole, Framed, NoTornMessage
  <1> QED BY <1>1, WholePackets, PTL

(***************************************************************************)
(* A packet that was accepted and not freed is in a queue or being written *)
(* (its completion and destroy callbacks are still to come), and nothing   *)
(* struct nci_sar points to was freed.                                     *)
(***************************************************************************)
THEOREM NeverLost ==
  ASSUME StrictCaller, Grants \subseteq {0, Unlimited}
  PROVE  Spec => []NoPacketLost
  <1>1. Whole(sar, {}) => NoPacketLost
    BY DEF Whole, Kept, NoPacketLost
  <1> QED BY <1>1, WholePackets, PTL

(***************************************************************************)
(* The assertions of nci_sar_send hold as long as nothing is put back:     *)
(* flow control is what it takes to violate them.                          *)
(***************************************************************************)
THEOREM EndsAgree ==
  ASSUME StrictCaller, Grants \subseteq {0, Unlimited}
  PROVE  Spec => []QueueEndsAgree
  <1>1. Whole(sar, {}) => QueueEndsAgree
    BY DEF Whole, Sorted, Neat, QueueEndsAgree
  <1> QED BY <1>1, WholePackets, PTL

-----------------------------------------------------------------------------
(***************************************************************************)
(* NciSar implements NciPacketQueues. First, what the C functions do to    *)
(* the queues as the client knows them.                                    *)
(***************************************************************************)
LEMMA ChainIdsFacts ==
  ASSUME NEW q \in Queue
  PROVE  /\ ChainIds(q) \in Seq(PacketIds)
         /\ Len(ChainIds(q)) = Len(q.chain) /\ Len(q.chain) \in Nat
         /\ DOMAIN ChainIds(q) = DOMAIN q.chain
         /\ \A i \in DOMAIN q.chain : ChainIds(q)[i] = q.chain[i].id
         /\ ChainIds(q) = << >> <=> q.chain = << >>
  <1>1. /\ q.chain \in Seq(Packet) /\ Len(q.chain) \in Nat
        /\ DOMAIN q.chain = 1 .. Len(q.chain)
        /\ \A i \in DOMAIN q.chain : q.chain[i].id \in PacketIds
    <2>1. q.chain \in Seq(Packet)
      BY DEF Queue
    <2>2. \A p \in Packet : p.id \in PacketIds
      BY DEF Packet
    <2> QED BY <2>1, <2>2
  <1>2. ChainIds(q) \in [1 .. Len(q.chain) -> PacketIds]
    BY <1>1 DEF ChainIds
  <1>3. ChainIds(q) \in Seq(PacketIds) /\ Len(ChainIds(q)) = Len(q.chain)
    BY <1>1, <1>2
  <1>4. \A i \in DOMAIN q.chain : ChainIds(q)[i] = q.chain[i].id
    BY <1>1 DEF ChainIds
  <1>5. ChainIds(q) = << >> <=> q.chain = << >>
    <2>1. ChainIds(q) = << >> <=> Len(ChainIds(q)) = 0
      BY <1>3
    <2>2. q.chain = << >> <=> Len(q.chain) = 0
      BY <1>1
    <2> QED BY <1>3, <2>1, <2>2
  <1> QED BY <1>1, <1>2, <1>3, <1>4, <1>5

\* The end of nci_sar_send: the new packet is the last one.
LEMMA EnqueueIds ==
  ASSUME NEW ch, NEW q \in Queue, Neat(q, ch), NEW p \in Packet
  PROVE  ChainIds(Enqueue(q, p)) = Append(ChainIds(q), p.id)
  <1> DEFINE n == Len(q.chain)
             e == Enqueue(q, p)
             a == Append(ChainIds(q), p.id)
  <1>1. /\ n \in Nat /\ q.chain \in Seq(Packet) /\ DOMAIN q.chain = 1 .. n
        /\ ChainIds(q) \in Seq(PacketIds) /\ Len(ChainIds(q)) = n
        /\ \A i \in 1 .. n : ChainIds(q)[i] = q.chain[i].id
    BY ChainIdsFacts DEF Queue
  <1>2. e.chain = Append(q.chain, p)
    <2>1. CASE q.last
      BY <2>1 DEF Enqueue
    <2>2. CASE ~q.last
      BY <1>1, <2>2 DEF Enqueue, Neat
    <2> QED BY <2>1, <2>2
  <1>3. p.id \in PacketIds
    BY DEF Packet
  <1>4. e \in Queue
    BY EnqueueType
  <1> HIDE DEF e, n
  <1>5. /\ Len(e.chain) = n + 1
        /\ \A i \in 1 .. n : e.chain[i] = q.chain[i]
        /\ e.chain[n + 1] = p
    BY <1>1, <1>2 DEF n
  <1>6. /\ ChainIds(e) \in Seq(PacketIds) /\ Len(ChainIds(e)) = n + 1
        /\ \A i \in 1 .. n + 1 : ChainIds(e)[i] = e.chain[i].id
    BY <1>4, <1>5, ChainIdsFacts DEF ChainIds
  <1>7. /\ a \in Seq(PacketIds) /\ Len(a) = n + 1
        /\ \A i \in 1 .. n : a[i] = q.chain[i].id
        /\ a[n + 1] = p.id
    BY <1>1, <1>3
  <1> HIDE DEF a
  <1>8. \A i \in 1 .. n + 1 : ChainIds(e)[i] = a[i]
    <2> TAKE i \in 1 .. n + 1
    <2>1. i \in 1 .. n \/ i = n + 1
      BY <1>1
    <2> QED BY <1>5, <1>6, <1>7, <2>1
  <1>9. ChainIds(e) = a
    BY <1>1, <1>6, <1>7, <1>8, SeqEqual
  <1> QED BY <1>9 DEF a, e

\* Removing queue->first: the others move up.
LEMMA DequeueIds ==
  ASSUME NEW q \in Queue, q.chain # << >>
  PROVE  /\ ChainIds(Dequeue(q)) = Tail(ChainIds(q))
         /\ Head(ChainIds(q)) = Head(q.chain).id
  <1> DEFINE n == Len(q.chain)
             d == Dequeue(q)
             c == ChainIds(q)
  <1>1. /\ n \in Nat /\ n > 0 /\ q.chain \in Seq(Packet) /\ DOMAIN q.chain = 1 .. n
        /\ c \in Seq(PacketIds) /\ Len(c) = n
        /\ \A i \in 1 .. n : c[i] = q.chain[i].id
    BY ChainIdsFacts DEF Queue
  <1>2. d.chain = Tail(q.chain) /\ d \in Queue
    BY DequeueType DEF Dequeue
  <1>3. /\ Len(d.chain) = n - 1
        /\ \A i \in 1 .. n - 1 : d.chain[i] = q.chain[i + 1]
        /\ Head(q.chain) = q.chain[1]
    BY <1>1, <1>2
  <1> HIDE DEF n, d, c
  <1>4. /\ Tail(c) \in Seq(PacketIds) /\ Len(Tail(c)) = n - 1
        /\ \A i \in 1 .. n - 1 : Tail(c)[i] = c[i + 1]
        /\ Head(c) = c[1]
    BY <1>1
  <1>5. /\ ChainIds(d) \in Seq(PacketIds) /\ Len(ChainIds(d)) = n - 1
        /\ \A i \in 1 .. n - 1 : ChainIds(d)[i] = d.chain[i].id
    BY <1>2, <1>3, ChainIdsFacts DEF ChainIds
  <1>6. \A i \in 1 .. n - 1 : i + 1 \in 1 .. n
    BY <1>1
  <1>7. \A i \in 1 .. n - 1 : ChainIds(d)[i] = Tail(c)[i]
    BY <1>1, <1>3, <1>4, <1>5, <1>6
  <1>8. ChainIds(d) = Tail(c)
    BY <1>4, <1>5, <1>7, SeqEqual
  <1>9. Head(c) = Head(q.chain).id
    <2>1. 1 \in 1 .. n
      BY <1>1
    <2> QED BY <1>1, <1>3, <1>4, <2>1
  <1> QED BY <1>8, <1>9 DEF c, d

\* Unlinking a packet (nci_sar_cancel_queue): the others stay in order.
LEMMA UnlinkIds ==
  ASSUME NEW q \in Queue, NEW k \in DOMAIN q.chain
  PROVE  LET c == ChainIds(q)
         IN  ChainIds(Unlink(q, k)) =
                [j \in 1 .. Len(c) - 1 |-> IF j < k THEN c[j] ELSE c[j + 1]]
  <1> DEFINE n == Len(q.chain)
             c == ChainIds(q)
             u == Unlink(q, k).chain
  <1>1. /\ n \in Nat /\ DOMAIN q.chain = 1 .. n /\ k \in 1 .. n
        /\ Len(c) = n /\ \A i \in 1 .. n : c[i] = q.chain[i].id
    BY ChainIdsFacts DEF Queue
  <1>2. u = [j \in 1 .. n - 1 |-> IF j < k THEN q.chain[j] ELSE q.chain[j + 1]]
    BY DEF Unlink
  <1> HIDE DEF n, c
  <1>3. n - 1 \in Nat
    BY <1>1
  <1>4. Len(u) = n - 1
    <2>1. u \in Seq(Packet)
      BY UnlinkType DEF Queue
    <2>2. DOMAIN u = 1 .. n - 1
      BY <1>2
    <2>3. Len(u) \in Nat /\ DOMAIN u = 1 .. Len(u)
      BY <2>1
    <2> HIDE DEF u
    <2> QED BY <1>3, <2>2, <2>3
  <1>5. \A j \in 1 .. n - 1 : u[j].id = IF j < k THEN c[j] ELSE c[j + 1]
    <2> TAKE j \in 1 .. n - 1
    <2>1. j \in 1 .. n /\ j + 1 \in 1 .. n
      BY <1>1
    <2> QED BY <1>1, <1>2, <2>1
  <1> HIDE DEF u
  <1>6. ChainIds(Unlink(q, k)) = [j \in 1 .. n - 1 |-> u[j].id]
    BY <1>4 DEF ChainIds, u
  <1>7. ChainIds(Unlink(q, k)) =
           [j \in 1 .. n - 1 |-> IF j < k THEN c[j] ELSE c[j + 1]]
    BY <1>5, <1>6
  <1> QED BY <1>1, <1>7 DEF c

-----------------------------------------------------------------------------
\* The members of the queues that the client knows are those of the queues.
LEMMA WaitingFacts ==
  ASSUME NEW s \in SarState
  PROVE  /\ WaitingIds(s) \in [Channels -> Seq(PacketIds)]
         /\ \A ch \in Channels :
               WaitingIds(s)[ch] = << >> <=> QueueOf(s, ch).chain = << >>
         /\ Promise!Members(WaitingIds(s)) = Queued(s)
  <1>1. \A ch \in Channels :
           /\ QueueOf(s, ch) \in Queue
           /\ WaitingIds(s)[ch] = ChainIds(QueueOf(s, ch))
    BY QueueOfType DEF WaitingIds
  <1>2. \A ch \in Channels : {ChainIds(QueueOf(s, ch))[i] :
              i \in DOMAIN ChainIds(QueueOf(s, ch))} = IdsOf(QueueOf(s, ch))
    BY <1>1, ChainIdsFacts DEF IdsOf
  <1>3. Promise!Members(WaitingIds(s)) = Queued(s)
    BY <1>1, <1>2 DEF Promise!Members, Queued
  <1> QED BY <1>1, <1>3, ChainIdsFacts DEF WaitingIds

LEMMA SameWaiting ==
  ASSUME NEW s, NEW t, \A ch \in Channels : QueueOf(t, ch) = QueueOf(s, ch)
  PROVE  WaitingIds(t) = WaitingIds(s)
  BY DEF WaitingIds

\* One queue is replaced.
LEMMA SetQueueWaiting ==
  ASSUME NEW s \in SarState, NEW ch \in Channels, NEW q \in Queue
  PROVE  WaitingIds(SetQueue(s, ch, q)) =
            [WaitingIds(s) EXCEPT ![ch] = ChainIds(q)]
  <1> DEFINE t == SetQueue(s, ch, q)
  <1>1. \A dh \in Channels : QueueOf(t, dh) = IF dh = ch THEN q ELSE QueueOf(s, dh)
    BY QueuesAfter
  <1> HIDE DEF t
  <1>2. WaitingIds(t) = [WaitingIds(s) EXCEPT ![ch] = ChainIds(q)]
    BY <1>1 DEF WaitingIds
  <1> QED BY <1>2 DEF t

\* The idle source does not matter to the client.
LEMMA ScheduleWaiting ==
  ASSUME NEW s \in SarState
  PROVE  /\ WaitingIds(ScheduleWrite(s)) = WaitingIds(s)
         /\ ScheduleWrite(s).writing = s.writing
  <1> DEFINE t == ScheduleWrite(s)
  <1>1. t.cmd = s.cmd /\ t.conn = s.conn /\ t.writing = s.writing
    BY DEF ScheduleWrite, SarState
  <1> HIDE DEF t
  <1>2. WaitingIds(t) = WaitingIds(s)
    BY <1>1, SameWaiting DEF QueueOf
  <1> QED BY <1>1, <1>2 DEF t

LEMMA AcceptedFacts ==
  ASSUME NEW w, NEW known, NEW ch \in Channels, NEW id \in PacketIds \ {0},
         id \notin Promise!Members(w) \cup known
  PROVE  [w EXCEPT ![ch] = Append(@, id)] \in Promise!Accepting(w, known)
  <1> DEFINE fresh == (PacketIds \ {0}) \ (Promise!Members(w) \cup known)
             v(c, i) == [w EXCEPT ![c] = Append(@, i)]
  <1>1. id \in fresh
    OBVIOUS
  <1>2. Promise!Accepting(w, known) = {v(c, i) : c \in Channels, i \in fresh}
    BY DEF Promise!Accepting
  <1>3. v(ch, id) = [w EXCEPT ![ch] = Append(@, id)]
    OBVIOUS
  <1> HIDE DEF v, fresh
  <1>4. v(ch, id) \in {v(c, i) : c \in Channels, i \in fresh}
    BY <1>1
  <1> QED BY <1>2, <1>3, <1>4

\* nci_sar_send: the packet is new to the client, unless it is still `known`
\* from before a reset.
LEMMA SendAccepts ==
  ASSUME NEW s \in SarState, NEW ch \in Channels, NEW len \in Nat, NEW held,
         NextPacketId(s) \notin s.live, Whole(s, held),
         NEW known, known \subseteq s.live \cup {0}
  PROVE  /\ WaitingIds(Send(s, ch, len)) \in Promise!Accepting(WaitingIds(s), known)
         /\ Send(s, ch, len).writing = s.writing
  <1> DEFINE id == NextPacketId(s)
             out == [id |-> id, cid |-> ch, len |-> len, pos |-> 0,
                     complete |-> TRUE, dangling |-> FALSE]
             t == [s EXCEPT !.last_packet_id = id, !.live = @ \cup {id}]
             o == QueueOf(s, ch)
             q == Enqueue(o, out)
             u == SetQueue(t, ch, q)
  <1>1. id \in PacketIds /\ id # 0 /\ id \notin s.live
    BY NextPacketIdType
  <1>2. out \in Packet /\ out.id = id
    BY <1>1 DEF Packet
  <1>3. /\ t \in SarState /\ t.cmd = s.cmd /\ t.conn = s.conn
        /\ t.writing = s.writing
    BY <1>1 DEF SarState
  <1>4. o \in Queue /\ Neat(o, ch)
    BY QueueOfType DEF Whole, Sorted
  <1>5. Send(s, ch, len) = ScheduleWrite(u)
    BY <1>3 DEF Send, QueueOf
  <1> HIDE DEF id, out, t
  <1>6. q \in Queue /\ ChainIds(q) = Append(ChainIds(o), id)
    BY <1>2, <1>4, EnqueueType, EnqueueIds
  <1>7. WaitingIds(t) = WaitingIds(s)
    BY <1>3, SameWaiting DEF QueueOf
  <1>8. WaitingIds(u) = [WaitingIds(s) EXCEPT ![ch] = Append(@, id)]
    <2>1. WaitingIds(s)[ch] = ChainIds(o)
      BY DEF WaitingIds, o
    <2> HIDE DEF q, o
    <2>2. WaitingIds(u) = [WaitingIds(t) EXCEPT ![ch] = ChainIds(q)]
      BY <1>3, <1>6, SetQueueWaiting
    <2> QED BY <1>6, <1>7, <2>1, <2>2
  <1>9. u.writing = s.writing /\ u \in SarState
    BY <1>3, <1>6, QueuesAfter, SetQueueType
  <1>10. id \notin Promise!Members(WaitingIds(s)) \cup known
    <2>1. Promise!Members(WaitingIds(s)) \subseteq s.live
      BY WaitingFacts, ReachableFacts DEF Whole, Kept
    <2> QED BY <1>1, <2>1
  <1> HIDE DEF q, o, u
  <1>11. /\ WaitingIds(ScheduleWrite(u)) = WaitingIds(u)
         /\ ScheduleWrite(u).writing = u.writing
    BY <1>9, ScheduleWaiting
  <1>12. [WaitingIds(s) EXCEPT ![ch] = Append(@, id)]
            \in Promise!Accepting(WaitingIds(s), known)
    BY <1>1, <1>10, AcceptedFacts
  <1> QED BY <1>5, <1>8, <1>9, <1>11, <1>12

\* nci_sar_reset: the client has no packets any more.
LEMMA ClearedWaiting ==
  ASSUME NEW s \in SarState
  PROVE  /\ WaitingIds(Cleared(s)) = Promise!Nothing
         /\ Cleared(s).writing = NullPacket
  <1> DEFINE t == Cleared(s)
  <1>1. /\ t.cmd = EmptyQueue /\ t.writing = NullPacket
        /\ t.conn = [c \in Cids |-> NewConnection]
    BY DEF Cleared, SarState
  <1> HIDE DEF t
  <1>2. \A ch \in Channels : QueueOf(t, ch) = EmptyQueue
    BY <1>1, ChannelFacts DEF QueueOf, NewConnection
  <1>3. ChainIds(EmptyQueue) = << >>
    BY ChannelFacts, ChainIdsFacts DEF EmptyQueue
  <1>4. WaitingIds(t) = Promise!Nothing
    BY <1>2, <1>3 DEF WaitingIds, Promise!Nothing
  <1> QED BY <1>1, <1>4 DEF t

\* What client code makes of the queues w, in which, or elsewhere, the
\* packets `known` are.
Calls(w, known) == {w, Promise!Nothing} \cup Promise!Accepting(w, known)

LEMMA ReactWaiting ==
  ASSUME NEW s \in SarState, NEW r \in Reactions, NEW held, Whole(s, held),
         NEW known, known \subseteq s.live \cup {0}
  PROVE  /\ WaitingIds(React(s, r)) \in Calls(WaitingIds(s), known)
         /\ r \in {Ignore, StartOver} =>
               WaitingIds(React(s, r)) \in {WaitingIds(s), Promise!Nothing}
         /\ s.writing = NullPacket => React(s, r).writing = NullPacket
  <1>1. CASE r.call = "reset"
    <2>1. React(s, r) = Cleared(s)
      BY <1>1 DEF React
    <2> QED BY <2>1, ClearedWaiting DEF Calls
  <1>2. CASE r.call = "send" /\ r.ch < s.max_logical_conns /\ HasRoom(s)
    <2>1. React(s, r) = Send(s, r.ch, r.len)
      BY <1>2 DEF React
    <2>2. /\ WaitingIds(Send(s, r.ch, r.len))
                \in Promise!Accepting(WaitingIds(s), known)
          /\ Send(s, r.ch, r.len).writing = s.writing
      BY <1>2, ReactionFacts, SendAccepts DEF HasRoom
    <2>3. r \notin {Ignore, StartOver}
      BY <1>2 DEF Ignore, StartOver
    <2> QED BY <2>1, <2>2, <2>3 DEF Calls
  <1>3. CASE /\ r.call # "reset"
             /\ ~(r.call = "send" /\ r.ch < s.max_logical_conns /\ HasRoom(s))
    <2>1. React(s, r) = s
      BY <1>3 DEF React
    <2> QED BY <2>1 DEF Calls
  <1> QED BY <1>1, <1>2, <1>3

\* The finished packet is one of the `known` ones until it is freed.
LEMMA CompleteWaiting ==
  ASSUME NEW s \in SarState, NEW out, NEW r \in Reactions, Whole(s, {out.id}),
         s.writing = NullPacket
  PROVE  /\ WaitingIds(Complete(s, out, r)) \in Calls(WaitingIds(s), {out.id})
         /\ r \in {Ignore, StartOver} =>
               WaitingIds(Complete(s, out, r)) \in {WaitingIds(s), Promise!Nothing}
         /\ Complete(s, out, r).writing = NullPacket
  <1> DEFINE t == IF out.complete THEN React(s, r) ELSE s
             u == Free(t, {out.id})
  <1>1. t \in SarState
    BY ReactType
  <1>2. {out.id} \subseteq s.live
    BY DEF Whole, Kept
  <1>3. /\ WaitingIds(t) \in Calls(WaitingIds(s), {out.id})
        /\ r \in {Ignore, StartOver} =>
              WaitingIds(t) \in {WaitingIds(s), Promise!Nothing}
        /\ t.writing = NullPacket
    <2>1. CASE out.complete
      BY <1>2, <2>1, ReactWaiting
    <2>2. CASE ~out.complete
      BY <2>2 DEF Calls
    <2> QED BY <2>1, <2>2
  <1>4. Complete(s, out, r) = u
    BY DEF Complete
  <1> HIDE DEF t
  <1>5. u.cmd = t.cmd /\ u.conn = t.conn /\ u.writing = t.writing
    BY <1>1 DEF Free, SarState
  <1> HIDE DEF u
  <1>6. WaitingIds(u) = WaitingIds(t)
    BY <1>5, SameWaiting DEF QueueOf
  <1> QED BY <1>3, <1>4, <1>5, <1>6

LEMMA ErrorWaiting ==
  ASSUME NEW s \in SarState, NEW e \in {Ignore, StartOver}, NEW held,
         Whole(s, held)
  PROVE  /\ WaitingIds(Error(s, e)) \in {WaitingIds(s), Promise!Nothing}
         /\ s.writing = NullPacket => Error(s, e).writing = NullPacket
  <1> DEFINE t == [s EXCEPT !.failed = TRUE]
  <1>1. /\ t \in SarState /\ t.cmd = s.cmd /\ t.conn = s.conn /\ t.live = s.live
        /\ t.open = s.open /\ t.torn = s.torn /\ t.writing = s.writing
    BY DEF SarState
  <1>2. Error(s, e) = React(t, e)
    BY DEF Error
  <1> HIDE DEF t
  <1>3. \A ch : QueueOf(t, ch) = QueueOf(s, ch)
    BY <1>1 DEF QueueOf
  <1>4. Whole(t, held) /\ WaitingIds(t) = WaitingIds(s)
    BY <1>1, <1>3, SameWhole, SameWaiting
  <1>5. e \in Reactions
    BY DEF Reactions
  <1>6. /\ WaitingIds(React(t, e)) \in {WaitingIds(t), Promise!Nothing}
        /\ t.writing = NullPacket => React(t, e).writing = NullPacket
    BY <1>1, <1>4, <1>5, ReactWaiting
  <1> QED BY <1>1, <1>2, <1>4, <1>6

-----------------------------------------------------------------------------
\* The client has the queues w, and nothing is being written.
Rests(t, w) == WaitingIds(t) = w /\ t.writing = NullPacket

\* The first packet of a channel has left the queues w (with Rests: in vain).
Leaves(t, w, ch) ==
    /\ Promise!MayGo(w, ch)
    /\ \/ WaitingIds(t) = [w EXCEPT ![ch] = Tail(@)] /\ t.writing.id = Head(w[ch])
       \/ Rests(t, [w EXCEPT ![ch] = Tail(@)])
       \/ Rests(t, Promise!Nothing)

Serves(t, w) == \/ w[CommandChannel] = << >> /\ Rests(t, w)
                \/ \E ch \in Channels : Leaves(t, w, ch)

LEMMA TakeWaiting ==
  ASSUME NEW s \in SarState, NEW ch \in Channels, QueueOf(s, ch).chain # << >>
  PROVE  /\ WaitingIds(Take(s, ch)) = [WaitingIds(s) EXCEPT ![ch] = Tail(@)]
         /\ Take(s, ch).writing.id = Head(WaitingIds(s)[ch])
         /\ Take(s, ch).writing \in Packet
  <1> DEFINE o == QueueOf(s, ch)
             out == Head(o.chain)
             t == [s EXCEPT !.writing = out]
             q == Dequeue(o)
             u == SetQueue(t, ch, q)
  <1>1. /\ o \in Queue /\ out \in Packet /\ q \in Queue
        /\ ChainIds(q) = Tail(ChainIds(o)) /\ Head(ChainIds(o)) = out.id
    BY QueueOfType, DequeueType, DequeueIds
  <1>2. t \in SarState /\ t.cmd = s.cmd /\ t.conn = s.conn /\ t.writing = out
    BY <1>1 DEF SarState
  <1>3. Take(s, ch) = u
    BY DEF Take
  <1>4. WaitingIds(s)[ch] = ChainIds(o)
    BY DEF WaitingIds
  <1> HIDE DEF o, out, t, q
  <1>5. WaitingIds(t) = WaitingIds(s)
    BY <1>2, SameWaiting DEF QueueOf
  <1>6. WaitingIds(u) = [WaitingIds(t) EXCEPT ![ch] = ChainIds(q)]
    BY <1>1, <1>2, SetQueueWaiting
  <1>7. u.writing = out
    BY <1>1, <1>2, QueuesAfter
  <1> HIDE DEF u
  <1> QED BY <1>1, <1>3, <1>4, <1>5, <1>6, <1>7

\* A packet is chosen, the first one of its channel, and no data while there
\* are commands.
LEMMA PickWaiting ==
  ASSUME NEW s \in SarState, ~IsWriting(s), Whole(s, {})
  PROVE  LET w == WaitingIds(s)
             p == Pick(s)
         IN  \/ p = s /\ w[CommandChannel] = << >>
             \/ \E ch \in Channels :
                   /\ Promise!MayGo(w, ch)
                   /\ WaitingIds(p) = [w EXCEPT ![ch] = Tail(@)]
                   /\ p.writing.id = Head(w[ch])
                   /\ IsWriting(p)
  <1> DEFINE lowest == CHOOSE c \in Ready(s) : \A d \in Ready(s) : c <= d
             w == WaitingIds(s)
             p == Pick(s)
  <1>1. /\ CommandChannel \in Channels
        /\ QueueOf(s, CommandChannel).chain = s.cmd.chain
        /\ w[CommandChannel] = << >> <=> s.cmd.chain = << >>
    BY ChannelFacts, WaitingFacts DEF QueueOf
  <1>2. CASE s.cmd.chain = << >> /\ Ready(s) = {}
    BY <1>1, <1>2 DEF Pick
  <1>3. CASE s.cmd.chain # << >>
    <2>1. p = Take(s, CommandChannel)
      BY <1>3 DEF Pick
    <2>2. /\ WaitingIds(p) = [w EXCEPT ![CommandChannel] = Tail(@)]
          /\ p.writing.id = Head(w[CommandChannel]) /\ p.writing \in Packet
      BY <1>1, <1>3, <2>1, TakeWaiting
    <2>3. Promise!MayGo(w, CommandChannel)
      BY <1>1, <1>3 DEF Promise!MayGo
    <2>4. IsWriting(p)
      BY <2>2 DEF IsWriting, Packet
    <2> HIDE DEF p, w
    <2>5. \E ch \in Channels :
             /\ Promise!MayGo(w, ch)
             /\ WaitingIds(p) = [w EXCEPT ![ch] = Tail(@)]
             /\ p.writing.id = Head(w[ch])
             /\ IsWriting(p)
      BY <1>1, <2>2, <2>3, <2>4
    <2> QED BY <2>5 DEF p, w
  <1>4. CASE s.cmd.chain = << >> /\ Ready(s) # {}
    <2>1. lowest \in Ready(s)
      BY <1>4, LowestReady
    <2>2. p = Take(SpendCredit(s, lowest), lowest)
      BY <1>4 DEF Pick
    <2> HIDE DEF lowest, p
    <2>3. /\ lowest \in Cids /\ lowest \in Channels /\ lowest # CommandChannel
          /\ s.conn[lowest].credits > 0
          /\ s.conn[lowest].out.chain # << >>
      BY <2>1, ReadyFacts, ChannelFacts
    <2> DEFINE t == SpendCredit(s, lowest)
    <2>4. t \in SarState /\ \A ch \in Channels : QueueOf(t, ch) = QueueOf(s, ch)
      BY <2>3, SpendCreditType, SpendWhole
    <2>5. p = Take(t, lowest)
      BY <2>2
    <2> HIDE DEF t
    <2>6. QueueOf(s, lowest).chain # << >>
      BY <2>3 DEF QueueOf
    <2>7. WaitingIds(t) = w
      BY <2>4, SameWaiting
    <2>8. /\ WaitingIds(p) = [w EXCEPT ![lowest] = Tail(@)]
          /\ p.writing.id = Head(w[lowest]) /\ p.writing \in Packet
      BY <2>3, <2>4, <2>5, <2>6, <2>7, TakeWaiting
    <2>9. Promise!MayGo(w, lowest)
      BY <1>1, <1>4, <2>3, <2>6, WaitingFacts DEF Promise!MayGo
    <2>10. IsWriting(p)
      BY <2>8 DEF IsWriting, Packet
    <2> HIDE DEF w
    <2>11. \E ch \in Channels :
             /\ Promise!MayGo(w, ch)
             /\ WaitingIds(p) = [w EXCEPT ![ch] = Tail(@)]
             /\ p.writing.id = Head(w[ch])
             /\ IsWriting(p)
      BY <2>3, <2>8, <2>9, <2>10
    <2> QED BY <2>11 DEF p, w
  <1> QED BY <1>2, <1>3, <1>4

LEMMA HalReactions ==
  ASSUME NEW hal \in HalOutcomes
  PROVE  hal.r \in {Ignore, StartOver} /\ hal.e \in {Ignore, StartOver}
  <1>1. CASE hal = [accepts |-> TRUE, starts |-> TRUE, r |-> Ignore, e |-> Ignore]
    BY <1>1
  <1>2. CASE hal \in [accepts : {FALSE}, starts : BOOLEAN,
                      r : {Ignore, StartOver}, e : {Ignore, StartOver}]
    BY <1>2
  <1> QED BY <1>1, <1>2 DEF HalOutcomes

\* The HAL takes the segment, or the packet is gone: the client then keeps the
\* others or resets.
LEMMA SubmitWaiting ==
  ASSUME NEW s \in SarState, NEW hal \in HalOutcomes, Whole(s, {}), IsWriting(s)
  PROVE  LET u == Submit(s, hal)
         IN  \/ WaitingIds(u) = WaitingIds(s) /\ u.writing.id = s.writing.id
             \/ Rests(u, WaitingIds(s))
             \/ Rests(u, Promise!Nothing)
  <1> DEFINE up == [s EXCEPT !.started = @ \/ hal.starts]
             drop == Dropped(up)
             done == Complete(drop, s.writing, hal.r)
             failure == Error(done, hal.e)
             u == Submit(s, hal)
  <1>1. /\ up \in SarState /\ up.writing = s.writing /\ up.cmd = s.cmd
        /\ up.conn = s.conn /\ up.live = s.live /\ up.open = s.open
        /\ up.torn = s.torn
    BY HalOutcomeFacts DEF SarState
  <1>2. u = IF hal.accepts THEN OnWire(up) ELSE ScheduleWrite(failure)
    BY DEF Submit
  <1> HIDE DEF up, u
  <1>3. \A ch : QueueOf(up, ch) = QueueOf(s, ch)
    BY <1>1 DEF QueueOf
  <1>4. Whole(up, {}) /\ WaitingIds(up) = WaitingIds(s) /\ IsWriting(up)
    BY <1>1, <1>3, SameWhole, SameWaiting DEF IsWriting
  <1>5. CASE hal.accepts
    <2> DEFINE t == OnWire(up)
               pos == IF LastSegment(up) THEN up.writing.len
                      ELSE up.writing.pos + PayloadLimit(up)
    <2>1. /\ t.cmd = up.cmd /\ t.conn = up.conn
          /\ t.writing = [up.writing EXCEPT !.pos = pos]
      BY <1>1 DEF OnWire, SarState
    <2> HIDE DEF t, pos
    <2>2. WaitingIds(t) = WaitingIds(up)
      BY <2>1, SameWaiting DEF QueueOf
    <2>3. t.writing.id = up.writing.id
      BY <1>1, <1>4, <2>1, WritingFacts DEF Packet
    <2>4. u = t
      BY <1>2, <1>5 DEF t
    <2> QED BY <1>1, <1>4, <2>2, <2>3, <2>4 DEF u
  <1>6. CASE ~hal.accepts
    <2>1. /\ drop \in SarState /\ Whole(drop, {s.writing.id})
          /\ drop.writing = NullPacket
          /\ drop.cmd = s.cmd /\ drop.conn = s.conn
      <3>1. drop \in SarState /\ Whole(drop, {s.writing.id})
        BY <1>1, <1>4, DroppedType, DroppedWhole
      <3>2. /\ drop.writing = NullPacket
            /\ drop.cmd = up.cmd /\ drop.conn = up.conn
        BY <1>1 DEF Dropped, SarState
      <3> HIDE DEF drop
      <3> QED BY <1>1, <3>1, <3>2
    <2> HIDE DEF drop
    <2>2. WaitingIds(drop) = WaitingIds(s)
      BY <2>1, SameWaiting DEF QueueOf
    <2>3. /\ done \in SarState /\ Whole(done, {})
          /\ WaitingIds(done) \in {WaitingIds(drop), Promise!Nothing}
          /\ done.writing = NullPacket
      BY <2>1, CompleteType, CompleteWhole, CompleteWaiting, HalOutcomeFacts,
         HalReactions
    <2> HIDE DEF done
    <2>4. /\ failure \in SarState
          /\ WaitingIds(failure) \in {WaitingIds(done), Promise!Nothing}
          /\ failure.writing = NullPacket
      BY <2>3, ErrorType, ErrorWaiting, HalOutcomeFacts, HalReactions
    <2> HIDE DEF failure
    <2>5. /\ WaitingIds(u) = WaitingIds(failure)
          /\ u.writing = NullPacket
      BY <1>2, <1>6, <2>4, ScheduleWaiting
    <2> QED BY <2>2, <2>3, <2>4, <2>5 DEF Rests, u
  <1> QED BY <1>5, <1>6

\* nci_sar_attempt_write when nothing is being written: a queue is served.
LEMMA AttemptServes ==
  ASSUME NEW s \in SarState, NEW hal \in HalOutcomes, NEW garbage,
         Whole(s, {}), ~s.write_pending, ~IsWriting(s)
  PROVE  Serves(AttemptWrite(s, hal, garbage), WaitingIds(s))
  <1> DEFINE w == WaitingIds(s)
             p == Pick(s)
             u == AttemptWrite(s, hal, garbage)
  <1>1. Continue(s, garbage) = s /\ u = Submit(p, hal)
    BY DEF AttemptWrite, Continue
  <1>2. p \in SarState /\ Whole(p, {})
    BY PickType, PickWhole DEF Unfinished
  <1> HIDE DEF u
  <1>3. CASE p = s /\ w[CommandChannel] = << >>
    <2>1. u = s
      BY <1>1, <1>3 DEF Submit
    <2>2. s.writing = NullPacket
      BY WritingFacts
    <2> QED BY <1>3, <2>1, <2>2 DEF Serves, Rests, u
  <1>4. ASSUME NEW ch \in Channels, Promise!MayGo(w, ch),
               WaitingIds(p) = [w EXCEPT ![ch] = Tail(@)],
               p.writing.id = Head(w[ch]), IsWriting(p)
        PROVE  Serves(u, w)
    <2> HIDE DEF p, w
    <2>1. \/ WaitingIds(u) = WaitingIds(p) /\ u.writing.id = p.writing.id
          \/ Rests(u, WaitingIds(p))
          \/ Rests(u, Promise!Nothing)
      BY <1>1, <1>2, <1>4, SubmitWaiting
    <2>2. Leaves(u, w, ch)
      BY <1>4, <2>1 DEF Leaves
    <2> QED BY <2>2 DEF Serves
  <1> QED BY <1>3, <1>4, PickWaiting DEF u

\* nci_sar_attempt_write in the middle of a packet: that packet goes on.
LEMMA AttemptAdvances ==
  ASSUME NEW s \in SarState, NEW hal \in HalOutcomes, NEW garbage,
         Whole(s, {}), ~s.write_pending, IsWriting(s), Unfinished(s)
  PROVE  LET u == AttemptWrite(s, hal, garbage)
         IN  \/ WaitingIds(u) = WaitingIds(s) /\ u.writing.id = s.writing.id
             \/ Rests(u, WaitingIds(s))
             \/ Rests(u, Promise!Nothing)
  <1> DEFINE t == Continue(s, garbage)
             u == AttemptWrite(s, hal, garbage)
             c == s.writing.cid
  <1>1. /\ t \in SarState /\ Whole(t, {}) /\ t.writing = s.writing
        /\ WaitingIds(t) = WaitingIds(s)
    <2>1. t \in SarState /\ Whole(t, {})
      BY ContinueType, ContinueWhole
    <2>2. CASE c = CommandChannel
      BY <2>1, <2>2 DEF Continue
    <2>3. CASE c # CommandChannel
      <3>1. c \in Cids /\ ~s.writing.dangling /\ s.conn[c].credits = Unlimited
        BY <2>3, WritingFacts, ChannelFacts DEF Whole, Level
      <3>2. s.conn[c].credits > 0
        BY <3>1, SarAssumption
      <3>3. t = SpendCredit(s, c)
        BY <2>3, <3>1, <3>2 DEF Continue
      <3> HIDE DEF t, c
      <3>4. /\ t.writing = s.writing
            /\ \A ch \in Channels : QueueOf(t, ch) = QueueOf(s, ch)
        BY <3>1, <3>2, <3>3, SpendWhole
      <3> QED BY <2>1, <3>4, SameWaiting DEF t
    <2> QED BY <2>2, <2>3
  <1>2. u = Submit(Pick(t), hal)
    BY DEF AttemptWrite
  <1> HIDE DEF t, u
  <1>3. IsWriting(t)
    BY <1>1 DEF IsWriting
  <1>4. Pick(t) = t
    BY <1>3 DEF Pick
  <1>5. \/ WaitingIds(u) = WaitingIds(t) /\ u.writing.id = t.writing.id
        \/ Rests(u, WaitingIds(t))
        \/ Rests(u, Promise!Nothing)
    BY <1>1, <1>2, <1>3, <1>4, SubmitWaiting
  <1> QED BY <1>1, <1>5 DEF u

\* Connections whose queues are empty are resized: the client sees nothing.
LEMMA ResizedWaiting ==
  ASSUME NEW s \in SarState, NEW n, NEW moved,
         \A c \in Cids : s.conn[c].out.chain = << >>,
         s.writing.cid = CommandChannel
  PROVE  /\ WaitingIds(Resized(s, n, moved)) = WaitingIds(s)
         /\ Resized(s, n, moved).writing = s.writing
  <1> DEFINE t == Resized(s, n, moved)
  <1>1. t.writing = Repoint(s.writing, n, moved) /\ t.cmd = s.cmd
    BY DEF Resized, SarState
  <1>2. t.writing = s.writing
    BY <1>1 DEF Repoint
  <1>3. ASSUME NEW c \in Cids PROVE t.conn[c].out.chain = << >>
    <2> DEFINE chain == [i \in 1 .. Len(s.conn[c].out.chain) |->
                            Repoint(s.conn[c].out.chain[i], n, moved)]
    <2>1. t.conn[c] = IF c >= n THEN NewConnection
                      ELSE [credits |-> s.conn[c].credits,
                            out |-> [chain |-> chain,
                                     last |-> s.conn[c].out.last]]
      BY DEF Resized, SarState
    <2>2. Len(s.conn[c].out.chain) = 0
      OBVIOUS
    <2>3. chain = << >>
      BY <2>2
    <2> HIDE DEF t, chain
    <2> QED BY <2>1, <2>3 DEF NewConnection, EmptyQueue
  <1> HIDE DEF t
  <1>4. \A ch \in Channels : QueueOf(t, ch).chain = QueueOf(s, ch).chain
    BY <1>1, <1>3, ChannelFacts DEF QueueOf
  <1>5. WaitingIds(t) = WaitingIds(s)
    BY <1>4 DEF WaitingIds, ChainIds
  <1> QED BY <1>2, <1>5 DEF t

\* The credits of a connection do not matter to the client.
LEMMA AccountWaiting ==
  ASSUME NEW s, NEW t, t.cmd = s.cmd, \A b \in Cids : t.conn[b].out = s.conn[b].out
  PROVE  WaitingIds(t) = WaitingIds(s)
  <1>1. \A ch \in Channels : QueueOf(t, ch) = QueueOf(s, ch)
    BY ChannelFacts DEF QueueOf
  <1> QED BY <1>1, SameWaiting

LEMMA TakeCreditsWaiting ==
  ASSUME NEW s \in SarState, NEW c \in Cids, NEW n \in {0, Unlimited}
  PROVE  /\ WaitingIds(TakeCredits(s, c, n)) = WaitingIds(s)
         /\ TakeCredits(s, c, n).writing = s.writing
  <1> DEFINE x == Sum(s.conn[c].credits, n)
             y == Sum(s.due[c], n)
             t == [s EXCEPT !.conn[c].credits = x, !.due[c] = y]
  <1>1. TakeCredits(s, c, n) = IF n = 0 THEN s
                               ELSE IF t.conn[c].out.chain # << >>
                                    THEN ScheduleWrite(t) ELSE t
    BY DEF TakeCredits
  <1>2. x \in 0 .. Unlimited /\ y \in Int
    <2>1. s.conn[c].credits \in 0 .. Unlimited /\ s.due[c] \in Int
      BY DEF SarState, Connection
    <2> QED BY <2>1, SarAssumption DEF Sum
  <1> HIDE DEF x, y
  <1>3. s \in SarState /\ c \in Cids
    OBVIOUS
  <1>4. t \in SarState
    BY <1>2, <1>3, SetAccountType, Zenon
  <1>5. WaitingIds(t) = WaitingIds(s) /\ t.writing = s.writing
    <2>1. /\ t.cmd = s.cmd /\ t.writing = s.writing
          /\ \A b \in Cids : t.conn[b].out = s.conn[b].out
      BY DEF SarState, Connection
    <2> HIDE DEF t
    <2> QED BY <2>1, AccountWaiting
  <1> HIDE DEF t
  <1> QED BY <1>1, <1>4, <1>5, ScheduleWaiting

-----------------------------------------------------------------------------
(***************************************************************************)
(* What is sent, and when, is what NciPacketQueues promises: each packet   *)
(* is sent whole before the next one, packets of a channel in the order of *)
(* the calls, commands before data, and nothing is lost or sent twice, as  *)
(* long as there is no flow control.                                       *)
(***************************************************************************)
THEOREM SentAsPromised ==
  ASSUME StrictCaller, Grants \subseteq {0, Unlimited}
  PROVE  Spec => RefinesQueues
  <1>1. Init => Promise!Init
    <2> SUFFICES ASSUME Init PROVE Promise!Init
      OBVIOUS
    <2>1. /\ sar.cmd = EmptyQueue /\ sar.writing = NullPacket
          /\ sar.conn = [c \in Cids |-> NewConnection]
      BY DEF Init
    <2>2. \A ch \in Channels : QueueOf(sar, ch) = EmptyQueue
      BY <2>1, ChannelFacts DEF QueueOf, NewConnection
    <2>3. ChainIds(EmptyQueue) = << >>
      BY ChannelFacts, ChainIdsFacts DEF EmptyQueue
    <2>4. WaitingIds(sar) = Promise!Nothing
      BY <2>2, <2>3 DEF WaitingIds, Promise!Nothing
    <2> QED BY <2>1, <2>4 DEF Promise!Init, NullPacket
  <1>2. /\ TypeOK /\ OneWriteInFlight /\ Whole(sar, {}) /\ [Next]_sar
        => [Promise!Next]_<<WaitingIds(sar), sar.writing.id,
                            sar.writing.pos # sar.writing.len>>
    <2> SUFFICES ASSUME sar \in SarState, OneWriteInFlight, Whole(sar, {}), [Next]_sar
                 PROVE  [Promise!Next]_<<WaitingIds(sar), sar.writing.id,
                                         sar.writing.pos # sar.writing.len>>
      BY DEF TypeOK
    <2> DEFINE w == WaitingIds(sar)
               id0 == sar.writing.id
               Stutters(t) == WaitingIds(t) = w /\ t.writing = sar.writing
               Goal == [Promise!Next]_<<WaitingIds(sar), sar.writing.id,
                                        sar.writing.pos # sar.writing.len>>
    <2>1. (WaitingIds(sar))' = WaitingIds(sar')
      BY DEF WaitingIds, ChainIds, QueueOf
    <2>2. ASSUME NEW v, Rests(sar', v) PROVE Promise!Rest(v)
      BY <2>1, <2>2 DEF Rests, NullPacket, Promise!Rest
    <2>3. ASSUME NEW v, Serves(sar', v) PROVE Promise!Serve(v)
      <3>1. CASE v[CommandChannel] = << >> /\ Rests(sar', v)
        BY <2>2, <3>1 DEF Promise!Serve
      <3>2. ASSUME NEW ch \in Channels, Leaves(sar', v, ch)
            PROVE  Promise!Serve(v)
        <4> DEFINE left == [v EXCEPT ![ch] = Tail(@)]
        <4>1. Promise!MayGo(v, ch)
          BY <3>2 DEF Leaves
        <4>2. \/ WaitingIds(sar') = left /\ sar'.writing.id = Head(v[ch])
              \/ Rests(sar', left)
              \/ Rests(sar', Promise!Nothing)
          BY <3>2 DEF Leaves
        <4> HIDE DEF left
        <4>3. \/ /\ (WaitingIds(sar))' = left /\ (sar.writing.id)' = Head(v[ch])
                 /\ (sar.writing.pos # sar.writing.len)' \in BOOLEAN
              \/ Promise!Rest(left)
              \/ Promise!Rest(Promise!Nothing)
          BY <2>1, <2>2, <4>2
        <4> QED BY <4>1, <4>3 DEF Promise!Serve, left
      <3> QED BY <2>3, <3>1, <3>2 DEF Serves
    <2>4. Stutters(sar') => Goal
      BY <2>1
    <2>5. ASSUME NEW v \in {Promise!Nothing} \cup Promise!Accepting(Promise!Nothing, {}),
                 Rests(sar', v)
          PROVE  Promise!Reset
      BY <2>2, <2>5 DEF Promise!Reset
    <2>6. ASSUME id0 # 0, \/ WaitingIds(sar') = w /\ sar'.writing.id = id0
                             /\ sar.writing.pos # sar.writing.len
                          \/ Rests(sar', w)
                          \/ Rests(sar', Promise!Nothing)
          PROVE  Promise!Next
      <3>1. CASE /\ WaitingIds(sar') = w /\ sar'.writing.id = id0
                 /\ sar.writing.pos # sar.writing.len
        BY <2>1, <2>6, <3>1 DEF Promise!Next, Promise!Advance
      <3>2. ASSUME NEW v \in {w, Promise!Nothing}, Rests(sar', v)
            PROVE  Promise!Next
        <4>1. v \in Promise!CalledBack(w)
          BY <3>2 DEF Promise!CalledBack
        <4>2. Promise!Rest(v)
          BY <2>2, <3>2
        <4> QED BY <2>6, <4>1, <4>2 DEF Promise!Next, Promise!Fail
      <3> QED BY <2>6, <3>1, <3>2
    <2>7. id0 # 0 <=> IsWriting(sar)
      BY DEF IsWriting
    <2> HIDE DEF Goal
    <2>8. Promise!Next => Goal
      BY DEF Goal
    <2>9. ASSUME NEW p \in Sends, SendPacket(p.ch, p.len) PROVE Goal
      <3>1. p.ch \in Channels /\ p.len \in Nat
        BY ChannelFacts, SarAssumption DEF Sends
      <3>2. {id0} \subseteq sar.live \cup {0}
        BY ReachableFacts DEF Whole, Kept
      <3>3. /\ WaitingIds(sar') \in Promise!Accepting(w, {id0})
            /\ sar'.writing = sar.writing
        BY <2>9, <3>1, <3>2, SendAccepts DEF SendPacket, HasRoom
      <3>4. Promise!Accept
        BY <2>1, <3>3 DEF Promise!Accept
      <3> QED BY <2>8, <3>4 DEF Promise!Next
    <2>10. ASSUME NEW id \in sar.live, Cancel(id) PROVE Goal
      <3>1. CASE IsWriting(sar) /\ sar' = [sar EXCEPT !.writing.complete = FALSE]
        <4>1. /\ sar'.cmd = sar.cmd /\ sar'.conn = sar.conn
              /\ sar'.writing = [sar.writing EXCEPT !.complete = FALSE]
          BY <3>1 DEF SarState
        <4>2. /\ sar'.writing.id = sar.writing.id
              /\ sar'.writing.len = sar.writing.len
              /\ sar'.writing.pos = sar.writing.pos
          BY <3>1, <4>1, WritingFacts DEF Packet
        <4>3. WaitingIds(sar') = w
          BY <4>1, SameWaiting DEF QueueOf
        <4> QED BY <2>1, <4>2, <4>3 DEF Goal
      <3>2. ASSUME NEW ch \in Channels, NEW i \in DOMAIN QueueOf(sar, ch).chain,
                   sar' = Free(SetQueue(sar, ch, Unlink(QueueOf(sar, ch), i)), {id})
            PROVE  Goal
        <4> DEFINE q == QueueOf(sar, ch)
                   u == Unlink(q, i)
                   t == SetQueue(sar, ch, u)
        <4>1. /\ q \in Queue /\ u \in Queue /\ t \in SarState
              /\ ChainIds(u) = [j \in 1 .. Len(ChainIds(q)) - 1 |->
                                  IF j < i THEN ChainIds(q)[j]
                                           ELSE ChainIds(q)[j + 1]]
              /\ i \in DOMAIN ChainIds(q) /\ w[ch] = ChainIds(q)
          BY QueueOfType, UnlinkType, SetQueueType, UnlinkIds, ChainIdsFacts
             DEF WaitingIds
        <4>2. sar' = Free(t, {id})
          BY <3>2
        <4> HIDE DEF u, q
        <4>3. WaitingIds(t) = [w EXCEPT ![ch] = ChainIds(u)]
              /\ t.writing = sar.writing
          BY <4>1, SetQueueWaiting, QueuesAfter
        <4> HIDE DEF t
        <4>4. sar'.cmd = t.cmd /\ sar'.conn = t.conn /\ sar'.writing = t.writing
          BY <4>1, <4>2 DEF Free, SarState
        <4>5. WaitingIds(sar') = WaitingIds(t)
          BY <4>4, SameWaiting DEF QueueOf
        <4>6. WaitingIds(sar') =
                 [w EXCEPT ![ch] = [j \in 1 .. Len(@) - 1 |->
                                      IF j < i THEN @[j] ELSE @[j + 1]]]
          BY <4>1, <4>3, <4>5
        <4>7. i \in DOMAIN w[ch]
          BY <4>1
        <4> HIDE DEF w
        <4>8. Promise!Cancel
          BY <2>1, <4>3, <4>4, <4>6, <4>7 DEF Promise!Cancel, w
        <4> QED BY <2>8, <4>8 DEF Promise!Next
      <3> QED BY <2>10, <3>1, <3>2 DEF Cancel
    <2>11. ASSUME \/ Start
                  \/ \E max \in Limits :
                        \/ SetMaxControlPayloadSize(max)
                        \/ SetMaxDataPayloadSize(max)
           PROVE  Goal
      <3>1. /\ sar'.cmd = sar.cmd /\ sar'.conn = sar.conn
            /\ sar'.writing = sar.writing
        BY <2>11 DEF Start, SetMaxControlPayloadSize, SetMaxDataPayloadSize, SarState
      <3>2. WaitingIds(sar') = w
        BY <3>1, SameWaiting DEF QueueOf
      <3> QED BY <2>4, <3>1, <3>2
    <2>12. ASSUME NEW r \in Reactions, Reset(r) PROVE Goal
      <3> DEFINE t == Cleared(sar)
      <3>1. /\ t \in SarState /\ Whole(t, {}) /\ t.writing = NullPacket
            /\ WaitingIds(t) = Promise!Nothing
        BY ClearedType, ClearedWhole, ClearedWaiting
      <3>2. sar' = t \/ sar' = React(t, r)
        BY <2>12 DEF Reset
      <3> HIDE DEF t
      <3>3. /\ WaitingIds(React(t, r)) \in Calls(Promise!Nothing, {})
            /\ React(t, r).writing = NullPacket
        BY <3>1, ReactWaiting
      <3>4. /\ WaitingIds(sar') \in
                  {Promise!Nothing} \cup Promise!Accepting(Promise!Nothing, {})
            /\ sar'.writing = NullPacket
        BY <3>1, <3>2, <3>3 DEF Calls
      <3>5. Promise!Reset
        BY <2>5, <3>4 DEF Rests
      <3> QED BY <2>8, <3>5 DEF Promise!Next
    <2>13. ASSUME NEW max \in 0 .. MaxConns, NEW moved \in BOOLEAN,
                  SetMaxLogicalConns(max, moved)
           PROVE  Goal
      BY <2>4, <2>13, ResizedWaiting DEF SetMaxLogicalConns
    <2>14. ASSUME NEW c \in Cids, NEW n \in Grants,
                  SetInitialCredits(c, n) \/ AddCredits(c, n)
           PROVE  Goal
      <3>1. n \in {0, Unlimited}
        OBVIOUS
      <3>2. CASE SetInitialCredits(c, n)
        <4>1. /\ sar'.cmd = sar.cmd /\ sar'.writing = sar.writing
              /\ \A b \in Cids : sar'.conn[b].out = sar.conn[b].out
          BY <3>2 DEF SetInitialCredits, SarState, Connection
        <4> QED BY <2>4, <4>1, AccountWaiting
      <3>3. CASE AddCredits(c, n)
        <4>1. sar' = TakeCredits(sar, c, n)
          BY <3>3 DEF AddCredits
        <4> QED BY <2>4, <3>1, <4>1, TakeCreditsWaiting
      <3> QED BY <2>14, <3>2, <3>3
    <2>15. ASSUME NEW hal \in HalOutcomes, StartWrite(hal) PROVE Goal
      <3> DEFINE t == [sar EXCEPT !.start_write = FALSE]
      <3>1. /\ t \in SarState /\ t.cmd = sar.cmd /\ t.conn = sar.conn
            /\ t.live = sar.live /\ t.open = sar.open /\ t.torn = sar.torn
            /\ t.writing = sar.writing /\ t.write_pending = sar.write_pending
        BY DEF SarState
      <3>2. sar' = AttemptWrite(t, hal, FALSE)
        BY <2>15 DEF StartWrite
      <3> HIDE DEF t
      <3>3. \A ch : QueueOf(t, ch) = QueueOf(sar, ch)
        BY <3>1 DEF QueueOf
      <3>4. Whole(t, {}) /\ WaitingIds(t) = w
        BY <3>1, <3>3, SameWhole, SameWaiting
      <3>5. CASE sar.write_pending
        <4>1. sar' = t
          BY <3>1, <3>2, <3>5 DEF AttemptWrite
        <4> QED BY <2>4, <3>1, <3>4, <4>1
      <3>6. CASE ~sar.write_pending
        <4>1. ~IsWriting(t) /\ id0 = 0
          BY <3>1, <3>6, <2>7 DEF OneWriteInFlight, IsWriting
        <4>2. Serves(sar', w)
          BY <3>1, <3>2, <3>4, <3>6, <4>1, AttemptServes
        <4>3. Promise!Begin
          BY <2>3, <4>1, <4>2 DEF Promise!Begin
        <4> QED BY <2>8, <4>3 DEF Promise!Next
      <3> QED BY <3>5, <3>6
    <2>16. ASSUME NEW hal \in HalOutcomes, NEW garbage \in BOOLEAN,
                  NEW r \in Reactions, WriteCompleted(hal, garbage, r)
           PROVE  Goal
      <3> DEFINE s == [sar EXCEPT !.write_pending = FALSE]
                 idle == [s EXCEPT !.writing = NullPacket]
                 done == Complete(idle, sar.writing, r)
      <3>1. /\ s \in SarState /\ s.cmd = sar.cmd /\ s.conn = sar.conn
            /\ s.live = sar.live /\ s.open = sar.open /\ s.torn = sar.torn
            /\ s.writing = sar.writing /\ ~s.write_pending
        BY DEF SarState
      <3>2. /\ idle \in SarState /\ idle.cmd = sar.cmd /\ idle.conn = sar.conn
            /\ idle.live = sar.live /\ idle.open = sar.open
            /\ idle.torn = sar.torn /\ idle.writing = NullPacket
            /\ Quiet(idle)
        BY DEF SarState, Quiet, IsWriting, NullPacket
      <3>3. sar' = AttemptWrite(IF sar.writing.pos = sar.writing.len THEN done ELSE s,
                                hal, garbage)
        BY <2>16 DEF WriteCompleted
      <3>4. IsWriting(sar) /\ sar.writing.pos <= sar.writing.len
            /\ sar.writing.pos \in Nat /\ sar.writing.len \in Nat
        BY <2>16, WritingFacts DEF WriteCompleted, OneWriteInFlight, Whole, Framed
      <3> HIDE DEF s, idle
      <3>5. CASE sar.writing.pos # sar.writing.len
        <4>1. \A ch : QueueOf(s, ch) = QueueOf(sar, ch)
          BY <3>1 DEF QueueOf
        <4>2. Whole(s, {}) /\ WaitingIds(s) = w
          BY <3>1, <4>1, SameWhole, SameWaiting
        <4>3. Unfinished(s) /\ IsWriting(s)
          BY <3>1, <3>4, <3>5 DEF Unfinished, IsWriting
        <4>4. sar' = AttemptWrite(s, hal, garbage)
          BY <3>3, <3>5
        <4>5. \/ WaitingIds(sar') = w /\ sar'.writing.id = id0
              \/ Rests(sar', w)
              \/ Rests(sar', Promise!Nothing)
          BY <3>1, <4>2, <4>3, <4>4, AttemptAdvances
        <4>6. Promise!Next
          BY <2>6, <2>7, <3>4, <3>5, <4>5
        <4> QED BY <2>8, <4>6
      <3>6. CASE sar.writing.pos = sar.writing.len
        <4>1. \A ch \in Channels : idle.open[ch] = 0
          BY <3>2, <3>4, <3>6 DEF Whole, Framed
        <4>2. Whole(idle, {id0})
          BY <3>2, <3>4, <4>1, ReleasedWhole
        <4>3. WaitingIds(idle) = w
          BY <3>2, SameWaiting DEF QueueOf
        <4>4. /\ done \in SarState /\ Whole(done, {}) /\ Quiet(done)
              /\ WaitingIds(done) \in Calls(w, {id0})
          BY <3>2, <4>2, <4>3, CompleteType, CompleteWhole, CompleteKeeps,
             CompleteWaiting
        <4>5. sar' = AttemptWrite(done, hal, garbage)
          BY <3>3, <3>6
        <4> HIDE DEF done
        <4>6. Serves(sar', WaitingIds(done))
          BY <4>4, <4>5, AttemptServes DEF Quiet
        <4>7. WaitingIds(done) \in Promise!CalledBack(w)
          BY <4>4 DEF Calls, Promise!CalledBack
        <4>8. Promise!Serve(WaitingIds(done))
          BY <2>3, <4>6
        <4>9. Promise!Finish
          BY <2>7, <3>4, <3>6, <4>7, <4>8 DEF Promise!Finish
        <4> QED BY <2>8, <4>9 DEF Promise!Next
      <3> QED BY <3>5, <3>6
    <2>17. ASSUME NEW r \in Reactions, NEW e \in {Ignore, StartOver}, WriteFailed(r, e)
           PROVE  Goal
      <3> DEFINE drop == Dropped(sar)
                 done == Complete(drop, sar.writing, r)
      <3>1. IsWriting(sar)
        BY <2>17 DEF WriteFailed, OneWriteInFlight
      <3>2. drop \in SarState /\ Whole(drop, {id0})
        BY <3>1, DroppedType, DroppedWhole
      <3>3. drop.cmd = sar.cmd /\ drop.conn = sar.conn /\ drop.writing = NullPacket
        BY DEF Dropped, SarState
      <3>4. sar' = Error(done, e)
        BY <2>17 DEF WriteFailed
      <3> HIDE DEF drop
      <3>5. WaitingIds(drop) = w
        BY <3>3, SameWaiting DEF QueueOf
      <3>6. /\ done \in SarState /\ Whole(done, {})
            /\ WaitingIds(done) \in Calls(w, {id0})
            /\ done.writing = NullPacket
        BY <3>2, <3>3, <3>5, CompleteType, CompleteWhole, CompleteWaiting
      <3> HIDE DEF done
      <3>7. /\ WaitingIds(sar') \in {WaitingIds(done), Promise!Nothing}
            /\ sar'.writing = NullPacket
        BY <3>4, <3>6, ErrorWaiting
      <3>8. WaitingIds(sar') \in Promise!CalledBack(w)
        BY <3>6, <3>7 DEF Calls, Promise!CalledBack
      <3>9. Promise!Rest(WaitingIds(sar'))
        BY <2>2, <3>7 DEF Rests
      <3>10. Promise!Fail
        BY <2>7, <3>1, <3>8, <3>9 DEF Promise!Fail
      <3> QED BY <2>8, <3>10 DEF Promise!Next
    <2>18. ASSUME NEW e \in {Ignore, StartOver}, HalError(e) PROVE Goal
      <3> DEFINE t == [sar EXCEPT !.failed = TRUE]
      <3>1. /\ t \in SarState /\ t.cmd = sar.cmd /\ t.conn = sar.conn
            /\ t.writing = sar.writing
        BY DEF SarState
      <3>2. sar' = React(t, e)
        BY <2>18 DEF HalError, Error
      <3> HIDE DEF t
      <3>3. CASE e = Ignore
        <4>1. sar' = t
          BY <3>2, <3>3 DEF React, Ignore
        <4> QED BY <2>4, <3>1, <4>1, SameWaiting DEF QueueOf
      <3>4. CASE e = StartOver
        <4>1. sar' = Cleared(t)
          BY <3>2, <3>4 DEF React, StartOver
        <4>2. Rests(sar', Promise!Nothing)
          BY <3>1, <4>1, ClearedWaiting DEF Rests
        <4>3. Promise!Reset
          BY <2>5, <4>2
        <4> QED BY <2>8, <4>3 DEF Promise!Next
      <3> QED BY <3>3, <3>4
    <2>19. CASE UNCHANGED sar
      BY <2>4, <2>19
    <2> QED BY <2>9, <2>10, <2>11, <2>12, <2>13, <2>14, <2>15, <2>16, <2>17, <2>18,
               <2>19 DEF Next, Client, Idle, Hal, Goal
  <1> QED BY <1>1, <1>2, TypeCorrect, OneWrite, WholePackets, PTL
         DEF Spec, RefinesQueues, Promise!Spec, Promise!vars

=============================================================================
