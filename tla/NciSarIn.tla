------------------------------ MODULE NciSarIn ------------------------------
(***************************************************************************)
(* The receive side of nci_sar.c: nci_sar_hal_client_read cuts what the    *)
(* HAL has read into segments, whatever the sizes of the reads, and the    *)
(* segments are reassembled into the packets that the client gets: control *)
(* packets in control_in, data packets in the buffer of their connection.  *)
(*                                                                         *)
(* nci_sar_hal_client_read is a loop that calls the client once for each   *)
(* packet; each turn of the loop is a step here, and nothing but the       *)
(* client's callback happens between the steps. The credits that come with *)
(* the data segments are in module NciSar (AddCredits).                    *)
(***************************************************************************)
EXTENDS Integers, Sequences, FiniteSets

CONSTANTS
    HdrSize,       \* NCI_HDR_SIZE
    Conns,         \* max_logical_conns
    Keys,          \* MT, GID and OID of control packets, and what data packets
                   \* have in that place
    PayloadSizes,  \* payload lengths of segments
    Messages,      \* identities of the messages of the NFCC
    MaxSegments,   \* bound: segments of a message
    MaxWire        \* bound: bytes that the HAL has not read yet

ASSUME SarInAssumption ==
    /\ HdrSize = 3
    /\ Conns \in Nat \ {0}
    /\ Keys # {}
    /\ PayloadSizes \subseteq Nat
    /\ IsFiniteSet(Messages)
    /\ MaxSegments \in Nat \ {0}
    /\ MaxWire \in Nat

VARIABLES
    control_in,  \* segments of the unfinished control packet
    conn_in,     \* the same, for each connection
    read_buf,    \* NciSar.read_buf
    bytes,       \* what is left of the HAL's buffer in the direct loop
    loop,        \* where nci_sar_hal_client_read is: no, direct, buffered
    wire,        \* bytes sent by the NFCC and not read by the HAL
    open,        \* the messages that the NFCC is in the middle of
    due,         \* observes: complete messages that the client has not got
    cut,         \* observes: messages that a reset has cut
    packet       \* observes: the latest packet that the client got of this read

vars == <<control_in, conn_in, read_buf, bytes, loop, wire, open, due, cut, packet>>
nfcc == <<wire, open>>

Control == -1
Unknown == Conns  \* a connection that does not exist, or a command
Cids == 0 .. Conns - 1

(***************************************************************************)
(* A segment, with the message that it is a part of and its position there *)
(* for the properties. A byte is its segment and its position in it.       *)
(***************************************************************************)
Segment == [ch : {Control, Unknown} \cup Cids, key : Keys, pbf : BOOLEAN,
            size : PayloadSizes, msg : Messages, idx : 1 .. MaxSegments]
Byte == [seg : Segment, pos : Nat]

Encode(seg) == [i \in 1 .. HdrSize + seg.size |-> [seg |-> seg, pos |-> i]]

\* The messages that the SAR has some segments of
Partial == {control_in[i].msg : i \in DOMAIN control_in}
               \cup UNION {{conn_in[c][i].msg : i \in DOMAIN conn_in[c]} : c \in Cids}

\* The messages that anybody has a part of
InUse ==
    {b.seg.msg : b \in {wire[i] : i \in DOMAIN wire}
                     \cup {read_buf[i] : i \in DOMAIN read_buf}
                     \cup {bytes[i] : i \in DOMAIN bytes}}
        \cup Partial
        \cup {s.msg : s \in open}
        \cup {packet[i].msg : i \in DOMAIN packet}

Init ==
    /\ control_in = << >>
    /\ conn_in = [c \in Cids |-> << >>]
    /\ read_buf = << >>
    /\ bytes = << >>
    /\ loop = "no"
    /\ wire = << >>
    /\ open = {}
    /\ due = {}
    /\ cut = {}
    /\ packet = << >>

-----------------------------------------------------------------------------
(***************************************************************************)
(* The NFCC. It does not mix the segments of two control messages or of    *)
(* two messages of a connection, but between the segments of a control     *)
(* message it may send a short one where it should not (Intrude), and      *)
(* segments that nobody expects.                                           *)
(***************************************************************************)
Transmit(seg) ==
    /\ Len(wire) + HdrSize + seg.size <= MaxWire
    /\ wire' = wire \o Encode(seg)
    /\ cut' = IF seg.idx = 1 THEN cut \ {seg.msg} ELSE cut
    /\ UNCHANGED <<control_in, conn_in, read_buf, bytes, loop, packet>>

Complete(seg) == due' = IF seg.pbf THEN due ELSE due \cup {seg.msg}

\* The first segment of a message, which may be the only one
SendFirst(ch, key, pbf, size, msg) ==
    LET seg == [ch |-> ch, key |-> key, pbf |-> pbf, size |-> size,
                msg |-> msg, idx |-> 1]
    IN  /\ \A s \in open : s.ch # ch
        /\ msg \notin InUse
        /\ pbf => MaxSegments > 1
        /\ Transmit(seg)
        /\ Complete(seg)
        /\ open' = IF pbf THEN open \cup {seg} ELSE open

SendNext(s, pbf, size) ==
    LET seg == [s EXCEPT !.pbf = pbf, !.size = size, !.idx = s.idx + 1]
    IN  /\ pbf => seg.idx < MaxSegments
        /\ Transmit(seg)
        /\ IF s.msg \in cut THEN UNCHANGED due ELSE Complete(seg)
        /\ open' = (open \ {s}) \cup (IF pbf THEN {seg} ELSE {})

Intrude(ch, key, size, msg) ==
    /\ ch = Unknown \/ \E s \in open : s.ch = Control /\ s.key # key
    /\ msg \notin InUse
    /\ Transmit([ch |-> ch, key |-> key, pbf |-> FALSE, size |-> size,
                 msg |-> msg, idx |-> 1])
    /\ UNCHANGED <<open, due>>

-----------------------------------------------------------------------------
(***************************************************************************)
(* Reassembly                                                              *)
(***************************************************************************)

\* What nci_sar_reset does to the receive side: read_buf is left alone.
Forget(lost) ==
    /\ control_in' = << >>
    /\ conn_in' = [c \in Cids |-> << >>]
    /\ cut' = cut \cup lost
    /\ due' = due \ lost

\* client->fn->error: the client may reset the SAR.
Error(startOver) ==
    /\ IF startOver THEN Forget(Partial)
       ELSE UNCHANGED <<control_in, conn_in, due, cut>>
    /\ UNCHANGED packet

\* A segment is added to the control packet (or to the packet of connection
\* ch), nothing else happens.
Collect(ch, in) ==
    /\ control_in' = IF ch = Control THEN in ELSE control_in
    /\ conn_in' = [c \in Cids |-> IF c = ch THEN in ELSE conn_in[c]]
    /\ UNCHANGED <<due, cut, packet>>

\* The client gets a packet, which has been taken out of the SAR before. It
\* may reset the SAR, which forgets about the other packets.
Deliver(ch, in, startOver) ==
    LET msg == in[Len(in)].msg
    IN  /\ packet' = in
        /\ control_in' = IF ch = Control \/ startOver THEN << >> ELSE control_in
        /\ conn_in' = [c \in Cids |->
                          IF c = ch \/ startOver THEN << >> ELSE conn_in[c]]
        /\ LET lost == IF startOver THEN Partial \ {msg} ELSE {}
           IN  /\ cut' = cut \cup lost
               /\ due' = due \ (lost \cup {msg})

\* Mutant: the headers of the segments are not compared.
HandleAnyControlSegment(seg, startOver) ==
    IF seg.pbf THEN ~startOver /\ Collect(Control, Append(control_in, seg))
    ELSE Deliver(Control, Append(control_in, seg), startOver)

\* nci_sar_hal_handle_control_segment: the MT, GID and OID of all segments
\* of a message are the same.
HandleControlSegment(seg, startOver) ==
    \/ /\ control_in # << >> /\ control_in[1].key # seg.key
       /\ Error(startOver)
    \/ /\ control_in # << >> => control_in[1].key = seg.key
       /\ IF seg.pbf THEN ~startOver /\ Collect(Control, Append(control_in, seg))
          ELSE Deliver(Control, Append(control_in, seg), startOver)

\* nci_sar_hal_handle_data_segment
HandleDataSegment(seg, startOver) ==
    \/ /\ seg.ch = Unknown
       /\ Error(startOver)
    \/ /\ seg.ch \in Cids
       /\ IF seg.pbf THEN ~startOver /\ Collect(seg.ch, Append(conn_in[seg.ch], seg))
          ELSE Deliver(seg.ch, Append(conn_in[seg.ch], seg), startOver)

\* nci_sar_hal_handle_segment. A command from the NFCC is an error like an
\* unknown connection.
HandleSegment(seg, startOver) ==
    IF seg.ch = Control THEN HandleControlSegment(seg, startOver)
                        ELSE HandleDataSegment(seg, startOver)

-----------------------------------------------------------------------------
(***************************************************************************)
(* nci_sar_hal_client_read                                                 *)
(***************************************************************************)

\* Mutant: a segment waits for the first byte of the next one.
WholeAndMore(b) == Len(b) > 2 /\ Len(b) > b[3].seg.size + HdrSize

\* The length of a segment is in the third byte of its header.
Whole(b) == Len(b) > 2 /\ Len(b) >= b[3].seg.size + HdrSize
First(b) == b[1].seg
\* Mutant: the header is forgotten.
RestWithHeader(b) == SubSeq(b, First(b).size + 1, Len(b))
Rest(b) == SubSeq(b, First(b).size + HdrSize + 1, Len(b))

Read(n) ==
    LET data == SubSeq(wire, 1, n)
    IN  /\ loop = "no"
        /\ n <= Len(wire)
        /\ wire' = SubSeq(wire, n + 1, Len(wire))
        /\ IF read_buf = << >>
           THEN loop' = "direct" /\ bytes' = data /\ UNCHANGED read_buf
           ELSE loop' = "buffered" /\ read_buf' = read_buf \o data /\ UNCHANGED bytes
        /\ UNCHANGED <<control_in, conn_in, open, due, cut, packet>>

\* The loop over full packets in the HAL's own buffer
DirectSegment(startOver) ==
    /\ loop = "direct" /\ Whole(bytes)
    /\ HandleSegment(First(bytes), startOver)
    /\ bytes' = Rest(bytes)
    /\ UNCHANGED <<read_buf, loop, nfcc>>

\* What is left of them goes to read_buf.
KeepRest ==
    /\ loop = "direct" /\ ~Whole(bytes)
    /\ read_buf' = read_buf \o bytes
    /\ bytes' = << >>
    /\ loop' = IF bytes = << >> THEN "no" ELSE "buffered"
    /\ packet' = << >>
    /\ UNCHANGED <<control_in, conn_in, nfcc, due, cut>>

\* The loop over read_buf. A segment is removed after it has been handled.
BufferedSegment(startOver) ==
    /\ loop = "buffered" /\ Whole(read_buf)
    /\ HandleSegment(First(read_buf), startOver)
    /\ read_buf' = Rest(read_buf)
    /\ UNCHANGED <<bytes, loop, nfcc>>

ReadDone ==
    /\ loop = "buffered" /\ ~Whole(read_buf)
    /\ loop' = "no"
    /\ packet' = << >>
    /\ UNCHANGED <<control_in, conn_in, read_buf, bytes, nfcc, due, cut>>

\* nci_sar_reset, from outside. The HAL is stopped; what the NFCC has sent in
\* the meantime is read after the next start, or the HAL drops it. A HAL that
\* would drop a part of a segment is not modelled.
Reset(drop) ==
    LET lost == {wire[i].seg.msg : i \in DOMAIN wire}
    IN  /\ loop = "no"
        /\ drop => read_buf = << >> /\ wire # << >>
        /\ Forget(Partial \cup (IF drop THEN lost ELSE {}))
        /\ wire' = IF drop THEN << >> ELSE wire
        /\ UNCHANGED <<read_buf, bytes, loop, open, packet>>

-----------------------------------------------------------------------------
AnyKey == CHOOSE k \in Keys : TRUE

Nfcc ==
    \/ \E ch \in {Control} \cup Cids, key \in Keys, pbf \in BOOLEAN,
         size \in PayloadSizes, msg \in Messages :
            /\ ch # Control => key = AnyKey
            /\ SendFirst(ch, key, pbf, size, msg)
    \/ \E s \in open, pbf \in BOOLEAN, size \in PayloadSizes : SendNext(s, pbf, size)
    \/ \E ch \in {Control, Unknown}, key \in Keys, size \in PayloadSizes,
         msg \in Messages :
            /\ ch # Control => key = AnyKey
            /\ Intrude(ch, key, size, msg)

Next ==
    \/ Nfcc
    \/ \E n \in 1 .. MaxWire : Read(n)
    \/ \E startOver \in BOOLEAN : DirectSegment(startOver) \/ BufferedSegment(startOver)
    \/ KeepRest
    \/ ReadDone
    \/ \E drop \in BOOLEAN : Reset(drop)

Spec == Init /\ [][Next]_vars

-----------------------------------------------------------------------------
\* However the HAL chops the stream into reads, read_buf and the HAL's buffer
\* begin with the header of a segment whenever they are parsed.
ParsedAtHeaders ==
    /\ read_buf # << >> => read_buf[1].pos = 1
    /\ bytes # << >> => bytes[1].pos = 1

\* A packet that the client gets is made of all the segments of one message,
\* in order. Only a reset may cost it its first segments, never others.
PacketsAreWhole ==
    packet # << >> =>
        LET n == Len(packet)
        IN  /\ ~packet[n].pbf
            /\ \A i \in 1 .. n - 1 :
                  /\ packet[i].msg = packet[n].msg
                  /\ packet[i].pbf
                  /\ packet[i + 1].idx = packet[i].idx + 1
            /\ packet[1].idx = 1 \/ packet[n].msg \in cut

\* Nothing stays behind: when the HAL has no more bytes to give and read has
\* returned, the client has got every packet that no reset has cut.
NothingStaysBehind == loop = "no" /\ wire = << >> => due = {}
=============================================================================
