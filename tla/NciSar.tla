------------------------------- MODULE NciSar -------------------------------
(***************************************************************************)
(* The transmit side of nci_sar.c: segmentation of commands and data       *)
(* packets, the command queue and the queues of the logical connections,   *)
(* credit based flow control, and the one HAL write that is in flight.     *)
(*                                                                         *)
(* The C functions call one another, so each of them is an operator from   *)
(* a state of struct nci_sar to the next one; the actions are the entry    *)
(* points: the calls of the client, the idle callback and the HAL's write  *)
(* completion. A completion or error callback runs client code in the      *)
(* middle of such a function, which may call back into the SAR; what it    *)
(* does is the parameter `reaction` of that function.                      *)
(***************************************************************************)
EXTENDS Integers, Sequences, FiniteSets

CONSTANTS
    MaxConns,         \* largest argument of set_max_logical_connections
    Unlimited,        \* SAR_UNLIMITED_CREDITS, 0xff
    MinControlLimit,  \* SAR_MIN_CONTROL_PAYLOAD_LIMIT, 0x20
    CommandSizes,     \* payload lengths of the commands sent
    DataSizes,        \* payload lengths of the data packets sent
    Limits,           \* arguments of the two set_max_..._payload_size calls
    Grants,           \* numbers of credits received from the NFCC
    IdSpace,          \* the packet ids are 0 .. IdSpace-1 (2^32, guint)
    MaxPackets,       \* bound: packets alive at a time
    StrictCaller      \* the client sets the initial credits of a connection
                      \* and resizes the connections only with no data queued

ASSUME SarAssumption ==
    /\ MaxConns \in Nat \ {0}
    /\ Unlimited \in Nat \ {0}
    /\ MinControlLimit \in Nat \ {0}
    /\ CommandSizes \subseteq Nat
    /\ DataSizes \subseteq Nat
    /\ Limits \subseteq Nat
    /\ Grants \subseteq 0 .. Unlimited
    /\ IdSpace \in Nat /\ IdSpace > 2
    /\ MaxPackets \in Nat
    /\ StrictCaller \in BOOLEAN

VARIABLE sar

Cids == 0 .. MaxConns - 1
CommandChannel == -1
Channels == {CommandChannel} \cup Cids
PacketIds == 0 .. IdSpace - 1

(***************************************************************************)
(* struct nci_sar_packet_out. `cid` stands for the conn pointer (NULL for  *)
(* a command), `dangling` says that g_realloc moved the array it points    *)
(* into, `complete` that the completion callback is still set. Id 0 is     *)
(* never given to a packet: NullPacket, with that id, is the NULL pointer. *)
(***************************************************************************)
Packet == [id : PacketIds \ {0}, cid : Channels, len : Nat, pos : Nat,
           complete : BOOLEAN, dangling : BOOLEAN]
NullPacket == [id |-> 0, cid |-> CommandChannel, len |-> 0, pos |-> 0,
               complete |-> FALSE, dangling |-> FALSE]

(***************************************************************************)
(* struct nci_sar_packet_out_queue: the packets reachable from `first`,    *)
(* and whether `last` is set. Whenever it is, it is the end of the chain.  *)
(***************************************************************************)
Queue == [chain : Seq(Packet), last : BOOLEAN]
EmptyQueue == [chain |-> << >>, last |-> FALSE]

Connection == [credits : 0 .. Unlimited, out : Queue]
NewConnection == [credits |-> 0, out |-> EmptyQueue]

(***************************************************************************)
(* The last five fields observe the run and are not in the C structure:    *)
(*   live    the ids of the packets allocated and not freed yet;           *)
(*   open    per channel, the packet whose last segment on the wire said   *)
(*           that more segments follow (0: none);                          *)
(*   torn    the NFCC got a segment that does not continue the open packet *)
(*           of its channel;                                               *)
(*   due     per connection, the credits the NFCC granted that no segment  *)
(*           has used; Unlimited is absorbing, as it is in the code;       *)
(*   failed  an I/O error was reported since the last reset.               *)
(***************************************************************************)
SarState == [
    started : BOOLEAN,
    max_logical_conns : 1 .. MaxConns,
    control_payload_limit : Nat \ {0},
    data_payload_limit : Nat \ {0},
    last_packet_id : PacketIds,
    start_write : BOOLEAN,
    write_pending : BOOLEAN,
    writing : Packet \cup {NullPacket},
    cmd : Queue,
    conn : [Cids -> Connection],
    live : SUBSET PacketIds,
    open : [Channels -> PacketIds],
    torn : BOOLEAN,
    due : [Cids -> Int],
    failed : BOOLEAN]

Init == sar = [
    started |-> FALSE,
    max_logical_conns |-> 1,
    control_payload_limit |-> MinControlLimit,
    data_payload_limit |-> 1,
    last_packet_id |-> 0,
    start_write |-> FALSE,
    write_pending |-> FALSE,
    writing |-> NullPacket,
    cmd |-> EmptyQueue,
    conn |-> [c \in Cids |-> NewConnection],
    live |-> {},
    open |-> [c \in Channels |-> 0],
    torn |-> FALSE,
    due |-> [c \in Cids |-> 0],
    failed |-> FALSE]

-----------------------------------------------------------------------------
(***************************************************************************)
(* Queues                                                                  *)
(***************************************************************************)
IsWriting(s) == s.writing.id # 0

QueueOf(s, ch) == IF ch = CommandChannel THEN s.cmd ELSE s.conn[ch].out

SetQueue(s, ch, q) ==
    IF ch = CommandChannel THEN [s EXCEPT !.cmd = q]
                           ELSE [s EXCEPT !.conn[ch].out = q]

\* Mutant: a packet goes to the front of its queue.
EnqueueFirst(q, p) == [chain |-> <<p>> \o q.chain, last |-> TRUE]

\* With `last` unset the new packet replaces whatever `first` points to.
Enqueue(q, p) ==
    [chain |-> IF q.last THEN Append(q.chain, p) ELSE <<p>>, last |-> TRUE]

\* attempt_write puts an unfinished packet back: `last` is not touched.
PutBack(q, p) == [chain |-> <<p>> \o q.chain, last |-> q.last]

\* Mutant: `last` is reset with packets left in the queue.
DequeueResetsLast(q) == [chain |-> Tail(q.chain), last |-> FALSE]

Dequeue(q) ==
    [chain |-> Tail(q.chain), last |-> q.last /\ Len(q.chain) > 1]

\* nci_sar_cancel_queue: the packet at position i is unlinked. Unlinking the
\* end of a longer chain moves `last` to the packet before it.
Unlink(q, i) ==
    [chain |-> [j \in 1 .. Len(q.chain) - 1 |->
                    IF j < i THEN q.chain[j] ELSE q.chain[j + 1]],
     last |-> Len(q.chain) > 1 /\ (q.last \/ i = Len(q.chain))]

IdsOf(q) == {q.chain[i].id : i \in DOMAIN q.chain}

\* The packets struct nci_sar still has a pointer to
Reachable(s) ==
    (UNION {IdsOf(QueueOf(s, ch)) : ch \in Channels})
        \cup ({s.writing.id} \ {0})

Free(s, ids) == [s EXCEPT !.live = @ \ ids]

-----------------------------------------------------------------------------
(***************************************************************************)
(* Scheduling                                                              *)
(***************************************************************************)
ActiveCids(s) == 0 .. s.max_logical_conns - 1

Ready(s) == {c \in ActiveCids(s) :
                s.conn[c].out.chain # << >> /\ s.conn[c].credits > 0}

\* nci_sar_can_write
CanWrite(s) ==
    ~IsWriting(s) /\ (s.cmd.chain # << >> \/ Ready(s) # {})

\* nci_sar_schedule_write
ScheduleWrite(s) == [s EXCEPT !.start_write = @ \/ CanWrite(s)]

\* last_packet_id is a guint, and zero is skipped when it wraps around. So are
\* the ids of packets that are alive: in the program there are 2^32 ids, and no
\* packet lives that long, but here there are few.
NextPacketId(s) ==
    LET After(n) == (s.last_packet_id + n) % IdSpace
        free == {n \in 1 .. IdSpace : After(n) \notin s.live \cup {0}}
    IN  IF free = {} THEN 1
        ELSE After(CHOOSE n \in free : \A m \in free : n <= m)

\* Bounds: a few packets at a time, of fewer than there are ids
HasRoom(s) == NextPacketId(s) \notin s.live /\ Cardinality(s.live) < MaxPackets

\* nci_sar_send
Send(s, ch, len) ==
    LET id == NextPacketId(s)
        out == [id |-> id, cid |-> ch, len |-> len, pos |-> 0,
                complete |-> TRUE, dangling |-> FALSE]
    IN  ScheduleWrite(
            SetQueue([s EXCEPT !.last_packet_id = id, !.live = @ \cup {id}],
                     ch, Enqueue(QueueOf(s, ch), out)))

-----------------------------------------------------------------------------
(***************************************************************************)
(* Reset, and what client code called from the SAR may do to it            *)
(***************************************************************************)

\* nci_sar_reset up to the completion callback of the cancelled packet, which
\* is freed after it. The connections outside max_logical_conns are unused.
Cleared(s) == [s EXCEPT
    !.writing = NullPacket,
    !.write_pending = FALSE,
    !.started = FALSE,
    !.cmd = EmptyQueue,
    !.conn = [c \in Cids |-> NewConnection],
    !.start_write = FALSE,
    !.live = @ \ Reachable(s),
    !.open = [c \in Channels |-> 0],
    !.due = [c \in Cids |-> 0],
    !.failed = FALSE]

\* Client code may ignore the callback, start over or send one more packet.
Sends == [call : {"send"}, ch : {CommandChannel}, len : CommandSizes]
            \cup [call : {"send"}, ch : Cids, len : DataSizes]
Ignore == [call |-> "none"]
StartOver == [call |-> "reset"]
Reactions == {Ignore, StartOver} \cup Sends

React(s, r) ==
    IF r.call = "reset" THEN Cleared(s)
    ELSE IF r.call = "send" /\ r.ch < s.max_logical_conns /\ HasRoom(s)
         THEN Send(s, r.ch, r.len)
    ELSE s

\* out->complete, if it is still set, and nci_sar_packet_out_free
Complete(s, out, r) ==
    Free(IF out.complete THEN React(s, r) ELSE s, {out.id})

\* client->fn->error
Error(s, r) == React([s EXCEPT !.failed = TRUE], r)

-----------------------------------------------------------------------------
(***************************************************************************)
(* Writing                                                                 *)
(***************************************************************************)
Spent(n) == IF n = Unlimited THEN n ELSE n - 1
SpendCredit(s, c) == [s EXCEPT !.conn[c].credits = Spent(@)]

\* Mutant: the segments after the first one are written without a credit.
ContinueWithoutCredit(s, garbage) == s

\* Mutant: an unfinished packet goes to the other end of its queue.
ContinueBehindOthers(s, garbage) ==
    LET c == s.writing.cid
    IN  IF c = CommandChannel THEN s
        ELSE SetQueue([s EXCEPT !.writing = NullPacket], c,
                      Enqueue(s.conn[c].out, s.writing))

\* A packet with more segments needs a credit for the next one, or goes back
\* to its queue. Behind a dangling conn pointer there is freed memory: it may
\* read as a connection with credits, or the packet is hung onto garbage.
Continue(s, garbage) ==
    LET out == s.writing
        c == out.cid
        released == [s EXCEPT !.writing = NullPacket]
    IN  IF ~IsWriting(s) \/ c = CommandChannel THEN s
        ELSE IF out.dangling THEN IF garbage THEN s ELSE released
        ELSE IF s.conn[c].credits > 0 THEN SpendCredit(s, c)
        ELSE SetQueue(released, c, PutBack(s.conn[c].out, out))

Take(s, ch) ==
    SetQueue([s EXCEPT !.writing = Head(QueueOf(s, ch).chain)],
             ch, Dequeue(QueueOf(s, ch)))

\* Mutant: data goes before commands.
PickDataFirst(s) ==
    LET lowest == CHOOSE c \in Ready(s) : \A d \in Ready(s) : c <= d
    IN  IF IsWriting(s) THEN s
        ELSE IF Ready(s) # {} THEN Take(SpendCredit(s, lowest), lowest)
        ELSE IF s.cmd.chain # << >> THEN Take(s, CommandChannel)
        ELSE s

\* nci_sar_write_queue: commands first, then the lowest ready connection
Pick(s) ==
    LET lowest == CHOOSE c \in Ready(s) : \A d \in Ready(s) : c <= d
    IN  IF IsWriting(s) THEN s
        ELSE IF s.cmd.chain # << >> THEN Take(s, CommandChannel)
        ELSE IF Ready(s) # {} THEN Take(SpendCredit(s, lowest), lowest)
        ELSE s

\* The HAL accepts the segment, or io->fn->start or io->fn->write fails; then
\* the completion and error callbacks run and their reactions are r and e.
HalOutcomes ==
    {[accepts |-> TRUE, starts |-> TRUE, r |-> Ignore, e |-> Ignore]}
        \cup [accepts : {FALSE}, starts : BOOLEAN,
              r : {Ignore, StartOver}, e : {Ignore, StartOver}]

PayloadLimit(s) == IF s.writing.cid = CommandChannel THEN s.control_payload_limit
                                                     ELSE s.data_payload_limit

\* All segments but the last one have PBF set.
LastSegment(s) == s.writing.len - s.writing.pos <= PayloadLimit(s)

\* The segment that the HAL has accepted
OnWire(s) ==
    LET out == s.writing
        ch == out.cid
    IN  [s EXCEPT
            !.writing = [out EXCEPT !.pos = IF LastSegment(s) THEN out.len
                                            ELSE out.pos + PayloadLimit(s)],
            !.write_pending = TRUE,
            !.open = [s.open EXCEPT ![ch] = IF LastSegment(s) THEN 0 ELSE out.id],
            !.torn = s.torn \/ s.open[ch] # (IF out.pos = 0 THEN 0 ELSE out.id),
            !.due = IF ch = CommandChannel \/ s.due[ch] = Unlimited THEN s.due
                    ELSE [s.due EXCEPT ![ch] = Spent(s.due[ch])]]

\* Mutant: the packet that could not be written stays the one being written.
DroppedStillWriting(s) == [s EXCEPT !.write_pending = FALSE]

\* A write that fails ends the packet.
Dropped(s) == [s EXCEPT !.writing = NullPacket, !.write_pending = FALSE,
                        !.open[s.writing.cid] = 0]

\* The next segment is submitted to the HAL, which is started on demand.
Submit(s, hal) ==
    LET up == [s EXCEPT !.started = @ \/ hal.starts]
    IN  IF ~IsWriting(s) THEN s
        ELSE IF hal.accepts THEN OnWire(up)
        ELSE ScheduleWrite(Error(Complete(Dropped(up), s.writing, hal.r), hal.e))

\* nci_sar_attempt_write
AttemptWrite(s, hal, garbage) ==
    IF s.write_pending THEN s
                       ELSE Submit(Pick(Continue(s, garbage)), hal)

\* Mutant: the sum does not saturate.
SumUnchecked(x, n) == x + n

\* nci_sar_take_credits
Sum(x, n) == IF x = Unlimited \/ n > Unlimited - x THEN Unlimited ELSE x + n

\* Mutant: nobody is told about the credits.
TakeCreditsQuietly(s, c, n) ==
    [s EXCEPT !.conn[c].credits = Sum(@, n), !.due[c] = Sum(@, n)]

TakeCredits(s, c, n) ==
    LET t == [s EXCEPT !.conn[c].credits = Sum(@, n), !.due[c] = Sum(@, n)]
    IN  IF n = 0 THEN s
        ELSE IF t.conn[c].out.chain # << >> THEN ScheduleWrite(t) ELSE t

-----------------------------------------------------------------------------
(***************************************************************************)
(* Entry points                                                            *)
(***************************************************************************)

\* nci_sar_send_command, nci_sar_send_data_packet
SendPacket(ch, len) ==
    /\ ch < sar.max_logical_conns
    /\ HasRoom(sar)
    /\ sar' = Send(sar, ch, len)

\* nci_sar_cancel
Cancel(id) ==
    \/ /\ IsWriting(sar) /\ sar.writing.id = id
       /\ sar' = [sar EXCEPT !.writing.complete = FALSE]
    \/ /\ sar.writing.id # id
       /\ \E ch \in Channels : \E i \in DOMAIN QueueOf(sar, ch).chain :
             /\ QueueOf(sar, ch).chain[i].id = id
             /\ sar' = Free(SetQueue(sar, ch, Unlink(QueueOf(sar, ch), i)), {id})

\* The idle callback nci_sar_start_write
StartWrite(hal) ==
    /\ sar.start_write
    /\ sar.started => hal.starts
    /\ sar' = AttemptWrite([sar EXCEPT !.start_write = FALSE], hal, FALSE)

\* nci_sar_write_completed with ok = TRUE: the packet is done, or goes on
WriteCompleted(hal, garbage, r) ==
    /\ sar.write_pending
    /\ garbage => sar.writing.dangling
    /\ r # StartOver => hal.starts
    /\ LET s == [sar EXCEPT !.write_pending = FALSE]
           out == sar.writing
           done == Complete([s EXCEPT !.writing = NullPacket], out, r)
       IN  sar' = AttemptWrite(IF out.pos = out.len THEN done ELSE s, hal, garbage)

\* nci_sar_write_completed with ok = FALSE
WriteFailed(r, e) ==
    /\ sar.write_pending
    /\ sar' = Error(Complete(Dropped(sar), sar.writing, r), e)

\* nci_sar_start
Start ==
    /\ ~sar.started
    /\ sar' = [sar EXCEPT !.started = TRUE]

\* nci_sar_reset. The callback of the cancelled packet is invoked last.
Reset(r) ==
    sar' = IF sar.writing.complete THEN React(Cleared(sar), r) ELSE Cleared(sar)

\* nci_sar_hal_client_error
HalError(e) == sar' = Error(sar, e)

\* nci_sar_set_max_logical_connections. g_realloc may move the array.
Repoint(p, n, moved) ==
    IF p.cid = CommandChannel THEN p
    ELSE [p EXCEPT !.dangling = @ \/ moved \/ p.cid >= n]

Resized(s, n, moved) == [s EXCEPT
    !.max_logical_conns = n,
    !.writing = Repoint(s.writing, n, moved),
    !.conn = [c \in Cids |->
        IF c >= n THEN NewConnection
        ELSE [credits |-> s.conn[c].credits,
              out |-> [chain |-> [i \in 1 .. Len(s.conn[c].out.chain) |->
                                     Repoint(s.conn[c].out.chain[i], n, moved)],
                       last |-> s.conn[c].out.last]]],
    !.live = s.live \ UNION {IdsOf(s.conn[c].out) : c \in {d \in Cids : d >= n}},
    !.due = [c \in Cids |-> IF c >= n THEN 0 ELSE s.due[c]]]

SetMaxLogicalConns(max, moved) ==
    LET n == IF max = 0 THEN 1 ELSE max
    IN  /\ n # sar.max_logical_conns
        /\ StrictCaller => /\ \A c \in Cids : sar.conn[c].out.chain = << >>
                           /\ sar.writing.cid = CommandChannel
        /\ sar' = Resized(sar, n, moved)

\* nci_sar_set_max_control_payload_size, nci_sar_set_max_data_payload_size
SetMaxControlPayloadSize(max) ==
    sar' = [sar EXCEPT !.control_payload_limit =
                IF max < MinControlLimit THEN MinControlLimit ELSE max]

SetMaxDataPayloadSize(max) ==
    sar' = [sar EXCEPT !.data_payload_limit = IF max < 1 THEN 1 ELSE max]

\* nci_sar_set_initial_credits
SetInitialCredits(c, n) ==
    /\ c < sar.max_logical_conns
    /\ StrictCaller => sar.conn[c].out.chain = << >> /\ sar.writing.cid # c
    /\ sar' = [sar EXCEPT !.conn[c].credits = n, !.due[c] = n]

\* nci_sar_add_credits, and the credits in the header of a data segment
AddCredits(c, n) ==
    /\ c < sar.max_logical_conns
    /\ sar' = TakeCredits(sar, c, n)

-----------------------------------------------------------------------------
Client ==
    \/ \E p \in Sends : SendPacket(p.ch, p.len)
    \/ \E id \in sar.live : Cancel(id)
    \/ Start
    \/ \E r \in Reactions : Reset(r)
    \/ \E max \in 0 .. MaxConns, moved \in BOOLEAN : SetMaxLogicalConns(max, moved)
    \/ \E max \in Limits : SetMaxControlPayloadSize(max)
    \/ \E max \in Limits : SetMaxDataPayloadSize(max)
    \/ \E c \in Cids, n \in Grants : SetInitialCredits(c, n)
    \/ \E c \in Cids, n \in Grants : AddCredits(c, n)

Idle == \E hal \in HalOutcomes : StartWrite(hal)

Hal ==
    \/ \E hal \in HalOutcomes, garbage \in BOOLEAN, r \in Reactions :
            WriteCompleted(hal, garbage, r)
    \/ \E r \in Reactions, e \in {Ignore, StartOver} : WriteFailed(r, e)

Next == Client \/ Idle \/ Hal \/ \E e \in {Ignore, StartOver} : HalError(e)

Spec == Init /\ [][Next]_sar

(***************************************************************************)
(* The GLib main loop runs a pending idle source, and the HAL completes a  *)
(* write that it accepted and that nobody cancels. This much follows from  *)
(* WF_sar(Idle) and WF_sar(Hal): an idle callback leaves another one       *)
(* pending only if the HAL fails, and a write that is completed leaves one *)
(* pending only of another packet, or of another segment.                  *)
(***************************************************************************)
WritesOn == sar'.writing.id # sar.writing.id \/ sar'.writing.pos # sar.writing.pos

FairSpec ==
    /\ Spec
    /\ []<>(~sar.start_write \/ sar.failed)
    /\ []<>(~sar.write_pending) \/ []<><<WritesOn>>_sar

-----------------------------------------------------------------------------
(***************************************************************************)
(* Properties                                                              *)
(***************************************************************************)

\* The fields of struct nci_sar hold values of their types: in particular the
\* credits of a connection (guint8) never wrap around, in either direction.
TypeOK == sar \in SarState

\* Between two events a packet is being written exactly if a HAL write is in
\* flight: no path through attempt_write, write_completed, reset and the
\* client's callbacks leaves one without the other, as write_completed asserts.
OneWriteInFlight == IsWriting(sar) <=> sar.write_pending

\* Whenever nci_sar_can_write() holds the idle callback that will write is
\* scheduled, whatever made it hold: only a HAL failure may leave packets
\* queued with nobody to write them (nci_sar_write_completed, ok = FALSE).
NoLostWakeup == CanWrite(sar) => sar.start_write \/ sar.failed

\* Every data segment handed to the HAL is covered by a credit that the NFCC
\* granted for that connection and that no earlier segment used.
FlowControl == \A c \in Cids : sar.due[c] >= 0

\* The segments of a packet reach the NFCC as one run on their channel: no
\* other packet starts there before the segment without PBF is written.
NoTornMessage == ~sar.torn

\* Every packet that was accepted and not freed is in a queue or is being
\* written, so its completion and destroy callbacks are still to come.
\* (Not so once an unfinished packet has been put back: see QueueEndsAgree.)
NoPacketLost == sar.live = Reachable(sar)

\* Commands have priority: a queued command leaves its queue (written, or
\* cancelled) even if there is always more data to write, unless the HAL fails.
\* First the HAL is started, if it was not; then only nci_sar_reset stops it, and
\* the queue is emptied: what is in it after that is another command, even if
\* the client sends it at once and it gets the same id.
CommandsGetWritten ==
    \A id \in PacketIds, started \in BOOLEAN :
        id \in IdsOf(sar.cmd) /\ sar.started = started
            ~> id \notin IdsOf(sar.cmd) \/ sar.failed \/ sar.started # started

\* The assertions of nci_sar_send: `last` is set exactly if `first` is.
QueueEndsAgree ==
    \A ch \in Channels : QueueOf(sar, ch).last <=> QueueOf(sar, ch).chain # << >>

\* The queues as the client knows them: the ids of the packets, in order.
ChainIds(q) == [i \in 1 .. Len(q.chain) |-> q.chain[i].id]
WaitingIds(s) == [ch \in Channels |-> ChainIds(QueueOf(s, ch))]

\* What is sent, and when, is what NciPacketQueues promises: each packet goes
\* out whole before the next one, packets of a channel in the order of the
\* calls, commands before data, whatever client code does in the callbacks.
Promise == INSTANCE NciPacketQueues WITH
    Ids <- PacketIds \ {0}, None <- 0,
    waiting <- WaitingIds(sar), sending <- sar.writing.id,
    more <- sar.writing.pos # sar.writing.len
RefinesQueues == Promise!Spec

=============================================================================
