--------------------------- MODULE NciSarInProofs ---------------------------
(***************************************************************************)
(* Proofs about the receive side of the SAR (NciSarIn), for any number of  *)
(* connections, messages and segments, payloads of any size and reads of   *)
(* any size.                                                               *)
(*                                                                         *)
(* What has been received and not parsed yet, together with what the HAL   *)
(* has not read, is one stream of bytes (Stream), and a read only moves    *)
(* the borders in it. The first part of the proof is about the bytes: the  *)
(* stream consists of whole segments (Framed), so that the parser is       *)
(* always at a header. The second part forgets the bytes: the segments     *)
(* that are in the stream, and for each channel the last one that has been *)
(* taken out of it, are a set of pieces with a place, and Orderly says     *)
(* what the NFCC has promised of them in terms of messages.                *)
(***************************************************************************)
EXTENDS NciSarIn, SequenceTheorems, TLAPS

Channels == {Control} \cup Cids

In(ch) == IF ch = Control THEN control_in ELSE conn_in[ch]
Last(s) == s[Len(s)]

Full(seg) == HdrSize + seg.size

\* The buffer that is parsed, and everything that will be parsed
Buffer == IF loop = "direct" THEN bytes ELSE read_buf
Stream == Buffer \o wire

\* The stream is a sequence of whole segments: around each byte there are all
\* the bytes of its segment.
Framed(b) ==
    \A i \in DOMAIN b :
        LET seg == b[i].seg
            start == i - b[i].pos
        IN  /\ seg \in Segment
            /\ b[i].pos \in 1 .. Full(seg)
            /\ start >= 0 /\ start + Full(seg) <= Len(b)
            /\ \A k \in 1 .. Full(seg) : b[start + k] = [seg |-> seg, pos |-> k]

\* Where nci_sar_hal_client_read is
Parsing ==
    /\ read_buf \in Seq(Byte) /\ bytes \in Seq(Byte) /\ wire \in Seq(Byte)
    /\ loop \in {"no", "direct", "buffered"}
    /\ loop # "direct" => bytes = << >>
    /\ loop = "direct" => read_buf = << >>
    /\ loop = "no" => ~Whole(read_buf)

-----------------------------------------------------------------------------
\* The segments of the stream, each at the place of its header, and the latest
\* segment that has been added to an unfinished packet, at 0.
PiecesOf(b, held) ==
    {[at |-> i, seg |-> b[i].seg] : i \in {i \in DOMAIN b : b[i].pos = 1}}
        \cup {[at |-> 0, seg |-> s] : s \in held}

Held == {Last(In(ch)) : ch \in {ch \in Channels : In(ch) # << >>}}

Pieces == PiecesOf(Stream, Held)

Piece == [at : Nat, seg : Segment]

Before(P, n) == {p \in P : p.at < n}

\* A segment that has nothing to do with the message of a segment s of the
\* same channel, and that is not a complete message that anybody waits for
Intruder(t, s, d) ==
    t.ch = Control /\ t.idx = 1 /\ ~t.pbf /\ t.key # s.key /\ t.msg \notin d

Ends(P, s) == \E p \in P : p.seg.msg = s.msg /\ ~p.seg.pbf

\* Segment idx of the message of s is among the pieces P, or has been cut off.
\* Then nothing of the channel, except for intruders, is among them.
Backed(P, s, idx, c, d) ==
    \/ \E p \in P : p.seg.msg = s.msg /\ p.seg.idx = idx
    \/ /\ s.msg \in c
       /\ \A p \in P : p.seg.ch = s.ch => Intruder(p.seg, s, d)

\* The unfinished packets have one latest segment each, and only they have.
HeldOnce(P) ==
    \A p \in P :
        /\ p.at = 0 => p.seg.pbf
        /\ p.seg.pbf \/ p.seg.idx > 1 => p.seg.ch \in Channels
        /\ \A q \in P : p.at = 0 /\ q.at = 0 /\ p.seg.ch = q.seg.ch => p = q

\* The segments of a message are in order and of the same channel.
Ordered(P) ==
    \A p, q \in P :
        p.seg.msg = q.seg.msg /\ p # q =>
            /\ p.seg.ch = q.seg.ch /\ p.seg.key = q.seg.key
            /\ p.at # q.at
            /\ p.at < q.at => p.seg.pbf /\ p.seg.idx < q.seg.idx

\* The NFCC goes on with the latest segment of a message.
OpenLast(P, op) ==
    \A s \in op :
        /\ s \in Segment /\ s.pbf /\ s.ch \in Channels /\ s.idx < MaxSegments
        /\ \A t \in op : s.ch = t.ch \/ s.msg = t.msg => s = t
        /\ \A p \in P : p.seg.msg = s.msg =>
              /\ p.seg.ch = s.ch /\ p.seg.key = s.key
              /\ p.seg.pbf /\ p.seg.idx <= s.idx

\* No segment of a message is missing, except for those that have been cut.
Gapless(P, op, c, d) ==
    /\ \A p \in P : p.at > 0 /\ p.seg.idx > 1 =>
          Backed(Before(P, p.at), p.seg, p.seg.idx - 1, c, d)
    /\ \A s \in op : Backed(P, s, s.idx, c, d)

\* Between the segments of a message of a channel there are only intruders.
Unmixed(P, d) ==
    \A p, q \in P :
        /\ p.at < q.at /\ p.seg.pbf /\ p.seg.ch = q.seg.ch
        /\ p.seg.msg # q.seg.msg
        => Ends(Before(P, q.at), p.seg) \/ Intruder(q.seg, p.seg, d)

\* The message of a segment is complete, or the NFCC will go on with it.
Continued(P, op) ==
    \A p \in P : p.seg.pbf => Ends(P, p.seg) \/ \E s \in op : s.msg = p.seg.msg

\* The last segment of a message that is due is in the stream.
Coming(P, d) ==
    \A m \in d : \E p \in P : p.seg.msg = m /\ ~p.seg.pbf /\ p.seg.ch \in Channels

Orderly(P, op, c, d) ==
    /\ HeldOnce(P)
    /\ Ordered(P)
    /\ OpenLast(P, op)
    /\ Gapless(P, op, c, d)
    /\ Unmixed(P, d)
    /\ Continued(P, op)
    /\ Coming(P, d)

\* An unfinished packet consists of consecutive segments of one message.
Run(in, ch, c) ==
    /\ in \in Seq(Segment)
    /\ \A i \in 1 .. Len(in) :
          /\ in[i].pbf /\ in[i].ch = ch
          /\ in[i].msg = Last(in).msg /\ in[i].key = Last(in).key
          /\ i < Len(in) => in[i + 1].idx = in[i].idx + 1
    /\ in # << >> => in[1].idx = 1 \/ Last(in).msg \in c

Collected ==
    /\ conn_in = [c \in Cids |-> conn_in[c]]
    /\ \A ch \in Channels : Run(In(ch), ch, cut)
    /\ packet \in Seq(Segment)

IInv ==
    /\ Framed(Stream)
    /\ Parsing
    /\ Collected
    /\ Orderly(Pieces, open, cut, due)
    /\ PacketsAreWhole

-----------------------------------------------------------------------------
(***************************************************************************)
(* The bytes                                                               *)
(***************************************************************************)
LEMMA ConcatFacts ==
  ASSUME NEW S, NEW a \in Seq(S), NEW b \in Seq(S)
  PROVE  /\ a \o b \in Seq(S) /\ Len(a \o b) = Len(a) + Len(b)
         /\ \A i \in 1 .. Len(a) : (a \o b)[i] = a[i]
         /\ \A k \in 1 .. Len(b) : (a \o b)[Len(a) + k] = b[k]
  <1>1. a \o b \in Seq(S) /\ Len(a \o b) = Len(a) + Len(b)
    OBVIOUS
  <1>2. \A i \in 1 .. Len(a) : (a \o b)[i] = a[i]
    OBVIOUS
  <1>3. ASSUME NEW k \in 1 .. Len(b) PROVE (a \o b)[Len(a) + k] = b[k]
    <2>1. Len(a) + k \in 1 .. Len(a) + Len(b) /\ Len(a) + k > Len(a)
      OBVIOUS
    <2>2. (a \o b)[Len(a) + k] = b[Len(a) + k - Len(a)]
      BY <2>1
    <2> QED
      BY <2>2
  <1> QED
    BY <1>1, <1>2, <1>3

LEMMA SegmentFacts ==
  ASSUME NEW seg \in Segment
  PROVE  /\ Full(seg) \in Nat /\ Full(seg) >= 3 /\ Full(seg) = seg.size + HdrSize
         /\ Encode(seg) \in Seq(Byte) /\ Len(Encode(seg)) = Full(seg)
         /\ \A i \in 1 .. Full(seg) : Encode(seg)[i] = [seg |-> seg, pos |-> i]
  <1>1. HdrSize = 3 /\ seg.size \in Nat
    BY SarInAssumption DEF Segment
  <1>2. /\ Full(seg) \in Nat /\ Full(seg) >= 3 /\ Full(seg) = HdrSize + seg.size
        /\ Full(seg) = seg.size + HdrSize
    BY <1>1 DEF Full
  <1>3. Encode(seg) = [i \in 1 .. Full(seg) |-> [seg |-> seg, pos |-> i]]
    BY DEF Encode, Full
  <1>4. \A i \in 1 .. Full(seg) : [seg |-> seg, pos |-> i] \in Byte
    BY <1>2 DEF Byte
  <1> QED
    BY <1>2, <1>3, <1>4

\* A segment that is sent is put behind whole segments.
LEMMA FramedSend ==
  ASSUME NEW b \in Seq(Byte), Framed(b), NEW seg \in Segment
  PROVE  /\ Framed(b \o Encode(seg))
         /\ b \o Encode(seg) \in Seq(Byte)
         /\ Len(b \o Encode(seg)) = Len(b) + Full(seg)
         /\ \A i \in 1 .. Len(b) : (b \o Encode(seg))[i] = b[i]
         /\ \A k \in 1 .. Full(seg) :
              (b \o Encode(seg))[Len(b) + k] = [seg |-> seg, pos |-> k]
  <1> DEFINE e == Encode(seg)
             t == b \o e
  <1>1. /\ Full(seg) \in Nat /\ Full(seg) >= 3
        /\ e \in Seq(Byte) /\ Len(e) = Full(seg)
        /\ \A i \in 1 .. Full(seg) : e[i] = [seg |-> seg, pos |-> i]
    BY SegmentFacts
  <1> HIDE DEF e
  <1>2. /\ t \in Seq(Byte) /\ Len(t) = Len(b) + Full(seg)
        /\ \A i \in 1 .. Len(b) : t[i] = b[i]
        /\ \A k \in 1 .. Full(seg) : t[Len(b) + k] = e[k]
    <2>1. /\ b \o e \in Seq(Byte) /\ Len(b \o e) = Len(b) + Len(e)
          /\ \A i \in 1 .. Len(b) : (b \o e)[i] = b[i]
          /\ \A k \in 1 .. Len(e) : (b \o e)[Len(b) + k] = e[k]
      <3>1. b \in Seq(Byte) /\ e \in Seq(Byte)
        BY <1>1
      <3> QED
        BY <3>1, ConcatFacts
    <2>2. Len(e) = Full(seg)
      BY <1>1
    <2> QED
      BY <2>1, <2>2, Zenon
  <1>3. \A k \in 1 .. Full(seg) : t[Len(b) + k] = [seg |-> seg, pos |-> k]
    BY <1>1, <1>2
  <1> HIDE DEF t
  <1>4. ASSUME NEW i \in DOMAIN t
        PROVE  LET s == t[i].seg
                   start == i - t[i].pos
               IN  /\ s \in Segment
                   /\ t[i].pos \in 1 .. Full(s)
                   /\ start >= 0 /\ start + Full(s) <= Len(t)
                   /\ \A k \in 1 .. Full(s) : t[start + k] = [seg |-> s, pos |-> k]
    <2>1. CASE i \in 1 .. Len(b)
      <3> DEFINE s == b[i].seg
                 start == i - b[i].pos
      <3>1. t[i] = b[i]
        BY <1>2, <2>1
      <3>2. /\ s \in Segment
            /\ b[i].pos \in 1 .. Full(s)
            /\ start >= 0 /\ start + Full(s) <= Len(b)
            /\ \A k \in 1 .. Full(s) : b[start + k] = [seg |-> s, pos |-> k]
        BY <2>1 DEF Framed
      <3>3. Full(s) \in Nat
        BY <3>2, SegmentFacts
      <3>4. start \in Int /\ Len(b) \in Nat
        BY <3>2, <3>3, <2>1
      <3> HIDE DEF s, start
      <3>5. \A k \in 1 .. Full(s) : t[start + k] = [seg |-> s, pos |-> k]
        BY <1>2, <3>2, <3>3, <3>4
      <3>6. start + Full(s) <= Len(t)
        BY <1>1, <1>2, <3>2, <3>3, <3>4
      <3> QED
        BY <3>1, <3>2, <3>5, <3>6 DEF s, start
    <2>2. CASE i \notin 1 .. Len(b)
      <3>1. PICK k \in 1 .. Full(seg) : i = Len(b) + k
        <4>1. i \in Int /\ i >= Len(b) + 1 /\ i <= Len(b) + Full(seg)
          BY <1>1, <1>2, <2>2
        <4>2. i - Len(b) \in 1 .. Full(seg)
          BY <1>1, <4>1
        <4> QED
          BY <4>1, <4>2
      <3>2. t[i].seg = seg /\ t[i].pos = k /\ i - t[i].pos = Len(b)
        BY <1>1, <1>3, <3>1
      <3> QED
        BY <1>1, <1>2, <1>3, <3>1, <3>2
    <2> QED
      BY <2>1, <2>2
  <1>5. Framed(t)
    BY <1>4 DEF Framed
  <1> QED
    BY <1>2, <1>3, <1>5 DEF t, e

\* Whatever begins with the first byte of the stream begins with a header, and
\* the length of the segment is where the parser looks for it.
LEMMA FramedFirst ==
  ASSUME NEW b \in Seq(Byte), Framed(b), b # << >>
  PROVE  /\ First(b) \in Segment /\ b[1].pos = 1
         /\ Full(First(b)) <= Len(b)
         /\ \A k \in 1 .. Full(First(b)) : b[k] = [seg |-> First(b), pos |-> k]
  <1> DEFINE seg == b[1].seg
  <1>1. 1 \in DOMAIN b
    OBVIOUS
  <1>2. /\ seg \in Segment /\ b[1].pos \in 1 .. Full(seg)
        /\ 1 - b[1].pos >= 0 /\ 1 - b[1].pos + Full(seg) <= Len(b)
        /\ \A k \in 1 .. Full(seg) : b[1 - b[1].pos + k] = [seg |-> seg, pos |-> k]
    BY <1>1 DEF Framed
  <1>3. Full(seg) \in Nat
    BY <1>2, SegmentFacts
  <1>4. b[1].pos = 1
    BY <1>2, <1>3
  <1>5. \A k \in 1 .. Full(seg) : 1 - 1 + k = k
    BY <1>3
  <1> QED
    BY <1>2, <1>3, <1>4, <1>5 DEF First

\* What is left when the first segment is taken off
LEMMA FramedRest ==
  ASSUME NEW b \in Seq(Byte), Framed(b), b # << >>
  PROVE  LET n == Full(First(b))
         IN  /\ Framed(Rest(b)) /\ Rest(b) \in Seq(Byte)
             /\ Len(Rest(b)) = Len(b) - n
             /\ \A i \in 1 .. Len(b) - n : Rest(b)[i] = b[i + n]
  <1> DEFINE n == Full(First(b))
             t == Rest(b)
  <1>1. /\ First(b) \in Segment /\ n <= Len(b)
        /\ \A k \in 1 .. n : b[k] = [seg |-> First(b), pos |-> k]
    BY FramedFirst
  <1>2. n \in Nat /\ n = First(b).size + HdrSize
    BY <1>1, SegmentFacts
  <1>3. /\ t \in Seq(Byte) /\ Len(t) = Len(b) - n
        /\ \A i \in 1 .. Len(b) - n : t[i] = b[i + n]
    <2>1. t = SubSeq(b, n + 1, Len(b))
      BY <1>2 DEF Rest
    <2> HIDE DEF t, n
    <2>2. /\ t \in Seq(Byte) /\ Len(t) = Len(b) - n
          /\ \A i \in 1 .. Len(b) - n : t[i] = b[n + 1 + i - 1]
      BY <1>1, <1>2, <2>1
    <2>3. \A i \in 1 .. Len(b) - n : n + 1 + i - 1 = i + n
      BY <1>2
    <2> QED
      BY <2>2, <2>3
  <1> HIDE DEF t, n
  <1>4. ASSUME NEW i \in DOMAIN t
        PROVE  LET s == t[i].seg
                   start == i - t[i].pos
               IN  /\ s \in Segment
                   /\ t[i].pos \in 1 .. Full(s)
                   /\ start >= 0 /\ start + Full(s) <= Len(t)
                   /\ \A k \in 1 .. Full(s) : t[start + k] = [seg |-> s, pos |-> k]
    <2> DEFINE j == i + n
               s == b[j].seg
               pos == b[j].pos
               start == j - pos
    <2>1. i \in 1 .. Len(b) - n /\ t[i] = b[j] /\ j \in 1 .. Len(b) /\ j > n
      BY <1>1, <1>2, <1>3
    <2>2. /\ s \in Segment
          /\ pos \in 1 .. Full(s)
          /\ start >= 0 /\ start + Full(s) <= Len(b)
          /\ \A k \in 1 .. Full(s) : b[start + k] = [seg |-> s, pos |-> k]
      BY <2>1 DEF Framed
    <2>3. /\ Full(s) \in Nat /\ pos \in Int /\ j \in Int /\ j = i + n
          /\ start \in Int /\ j = start + pos
      <3>1. Full(s) \in Nat
        BY <2>2, SegmentFacts
      <3>2. pos \in Int
        BY <2>2, <3>1
      <3> HIDE DEF s, pos
      <3> QED
        BY <1>2, <2>1, <3>1, <3>2
    <2>4. ASSUME NEW k \in 1 .. n PROVE b[k].seg = First(b) /\ b[k].pos = k
      <3>1. b[k] = [seg |-> First(b), pos |-> k]
        BY <1>1, Zenon
      <3> QED
        BY <3>1
    <2> HIDE DEF s, pos, start, j
    <2>5. start >= n
      <3> SUFFICES ASSUME start < n PROVE FALSE
        BY <1>2, <2>3
      <3>1. start + 1 \in 1 .. n /\ 1 \in 1 .. Full(s)
        BY <1>2, <2>2, <2>3
      <3>2. b[start + 1] = [seg |-> s, pos |-> 1]
        BY <2>2, <3>1
      <3>3. s = First(b) /\ start + 1 = 1
        BY <2>4, <3>1, <3>2
      <3>4. Full(s) = n /\ start = 0
        BY <2>3, <3>3 DEF n
      <3> QED
        BY <1>2, <2>1, <2>2, <2>3, <3>4
    <2>6. \A k \in 1 .. Full(s) : t[start - n + k] = [seg |-> s, pos |-> k]
      <3> SUFFICES ASSUME NEW k \in 1 .. Full(s)
                   PROVE  t[start - n + k] = b[start + k]
        BY <2>2
      <3>1. start - n + k \in 1 .. Len(b) - n /\ start - n + k + n = start + k
        BY <1>2, <2>2, <2>3, <2>5
      <3> QED
        BY <1>3, <3>1
    <2>7. i - pos = start - n /\ start - n >= 0 /\ start - n + Full(s) <= Len(t)
      <3>1. i \in Int /\ n \in Int /\ Len(b) \in Int /\ Len(t) = Len(b) - n
        BY <1>2, <1>3, <2>1
      <3> HIDE DEF t
      <3> QED
        BY <2>2, <2>3, <2>5, <3>1
    <2>8. t[i].seg = s /\ t[i].pos = pos
      BY <2>1 DEF s, pos
    <2> QED
      BY <2>2, <2>6, <2>7, <2>8
  <1>5. Framed(t)
    BY <1>4 DEF Framed
  <1> QED
    BY <1>3, <1>5 DEF t, n

-----------------------------------------------------------------------------
(***************************************************************************)
(* The pieces: what the NFCC sends                                         *)
(***************************************************************************)
LEMMA SegmentType ==
  ASSUME NEW s \in Segment
  PROVE  /\ s.idx \in 1 .. MaxSegments /\ s.idx \in Nat /\ s.idx >= 1
         /\ s.pbf \in BOOLEAN
         /\ s.ch \in Channels \cup {Unknown}
  BY SarInAssumption DEF Segment, Channels

\* The first segment of a message, in a channel where none is unfinished
LEMMA OrderlyFirst ==
  ASSUME NEW P, P \subseteq Piece, NEW op, NEW c, NEW d, Orderly(P, op, c, d),
         NEW n \in Nat \ {0}, \A p \in P : p.at < n,
         NEW seg \in Segment, seg.idx = 1, seg.ch \in Channels,
         seg.pbf => MaxSegments > 1,
         \A p \in P : p.seg.msg # seg.msg,
         \A s \in op : s.msg # seg.msg /\ s.ch # seg.ch
  PROVE  Orderly(P \cup {[at |-> n, seg |-> seg]},
                 IF seg.pbf THEN op \cup {seg} ELSE op,
                 c \ {seg.msg},
                 IF seg.pbf THEN d ELSE d \cup {seg.msg})
  <1> DEFINE new == [at |-> n, seg |-> seg]
             Q == P \cup {new}
             op2 == IF seg.pbf THEN op \cup {seg} ELSE op
             c2 == c \ {seg.msg}
             d2 == IF seg.pbf THEN d ELSE d \cup {seg.msg}
  <1>1. /\ new.at = n /\ new.seg = seg /\ n > 0 /\ n \in Nat
        /\ \A q \in Q : q \in P \/ q = new
        /\ P \subseteq Q /\ new \in Q /\ Q \subseteq Piece
    BY DEF Piece
  <1>2. \A p \in P : p.at \in Nat /\ p.seg \in Segment
    BY DEF Piece
  <1>3. /\ \A s \in op2 : s \in op \/ (s = seg /\ seg.pbf)
        /\ \A m \in d2 : m \in d \/ (m = seg.msg /\ ~seg.pbf)
        /\ op \subseteq op2 /\ d \subseteq d2
        /\ seg.pbf => seg \in op2
    OBVIOUS
  <1> HIDE DEF new, Q, op2, c2, d2
  <1>4. HeldOnce(Q)
    BY <1>1, SegmentType DEF Orderly, HeldOnce
  <1>5. Ordered(Q)
    BY <1>1, <1>2 DEF Orderly, Ordered
  <1>6. OpenLast(Q, op2)
    <2>1. 1 <= 1 /\ (seg.pbf => seg.idx < MaxSegments)
      BY SarInAssumption
    <2> QED
      BY <1>1, <1>3, <2>1 DEF Orderly, OpenLast
  <1>7. ASSUME NEW s, NEW t, Intruder(s, t, d), s.msg # seg.msg
        PROVE  Intruder(s, t, d2)
    BY <1>3, <1>7 DEF Intruder
  <1>8. Gapless(Q, op2, c2, d2)
    <2>1. ASSUME NEW p \in Q, p.at > 0, p.seg.idx > 1
          PROVE  Backed(Before(Q, p.at), p.seg, p.seg.idx - 1, c2, d2)
      <3>1. p \in P /\ p.seg.msg # seg.msg
        BY <1>1, <2>1
      <3>2. Before(Q, p.at) = Before(P, p.at)
        BY <1>1, <1>2, <3>1 DEF Before
      <3>3. Backed(Before(P, p.at), p.seg, p.seg.idx - 1, c, d)
        BY <2>1, <3>1 DEF Orderly, Gapless
      <3>4. \A q \in Before(P, p.at) : q \in P
        BY DEF Before
      <3> QED
        BY <1>7, <3>1, <3>2, <3>3, <3>4 DEF Backed, c2
    <2>2. ASSUME NEW s \in op2 PROVE Backed(Q, s, s.idx, c2, d2)
      <3>1. CASE s \in op
        <4>1. Backed(P, s, s.idx, c, d) /\ s.msg # seg.msg /\ s.ch # seg.ch
          BY <3>1 DEF Orderly, Gapless
        <4> QED
          BY <1>1, <1>7, <4>1 DEF Backed, c2
      <3>2. CASE s = seg
        BY <1>1, <3>2 DEF Backed
      <3> QED
        BY <1>3, <3>1, <3>2
    <2> QED
      BY <2>1, <2>2 DEF Gapless
  <1>9. Continued(Q, op2)
    <2>1. ASSUME NEW p \in P, p.seg.pbf
          PROVE  Ends(Q, p.seg) \/ \E s \in op2 : s.msg = p.seg.msg
      BY <1>1, <1>3, <2>1 DEF Orderly, Continued, Ends
    <2> QED
      BY <1>1, <1>3, <2>1 DEF Continued
  <1>10. Unmixed(Q, d2)
    <2> SUFFICES ASSUME NEW p \in Q, NEW q \in Q,
                        p.at < q.at, p.seg.pbf, p.seg.ch = q.seg.ch,
                        p.seg.msg # q.seg.msg
                 PROVE  Ends(Before(Q, q.at), p.seg) \/ Intruder(q.seg, p.seg, d2)
      BY DEF Unmixed
    <2>1. p \in P
      BY <1>1, <1>2
    <2>2. CASE q \in P
      <3>1. Ends(Before(P, q.at), p.seg) \/ Intruder(q.seg, p.seg, d)
        BY <2>1, <2>2 DEF Orderly, Unmixed
      <3> QED
        BY <1>1, <1>7, <2>2, <3>1 DEF Ends, Before
    <2>3. CASE q = new
      <3>1. ~\E s \in op : s.msg = p.seg.msg
        <4> SUFFICES ASSUME NEW s \in op, s.msg = p.seg.msg PROVE FALSE
          OBVIOUS
        <4>1. p.seg.ch = s.ch
          BY <2>1 DEF Orderly, OpenLast
        <4> QED
          BY <1>1, <2>3, <4>1
      <3>2. Ends(P, p.seg)
        BY <2>1, <3>1 DEF Orderly, Continued
      <3> QED
        BY <1>1, <2>3, <3>2 DEF Ends, Before
    <2> QED
      BY <1>1, <2>2, <2>3
  <1>11. Coming(Q, d2)
    BY <1>1, <1>3 DEF Orderly, Coming
  <1> QED
    BY <1>4, <1>5, <1>6, <1>8, <1>9, <1>10, <1>11
    DEF Orderly, Q, new, op2, c2, d2

\* The segment that follows the latest one, s, of an unfinished message
LEMMA OrderlyNext ==
  ASSUME NEW P, P \subseteq Piece, NEW op, NEW c, NEW d, Orderly(P, op, c, d),
         NEW n \in Nat \ {0}, \A p \in P : p.at < n,
         NEW s \in op, NEW seg \in Segment,
         seg.idx = s.idx + 1, seg.msg = s.msg, seg.ch = s.ch, seg.key = s.key,
         seg.pbf => seg.idx < MaxSegments,
         NEW d2, d \subseteq d2,
         \A m \in d2 : m \in d \/ (m = seg.msg /\ ~seg.pbf)
  PROVE  Orderly(P \cup {[at |-> n, seg |-> seg]},
                 (op \ {s}) \cup (IF seg.pbf THEN {seg} ELSE {}), c, d2)
  <1> DEFINE new == [at |-> n, seg |-> seg]
             Q == P \cup {new}
             op2 == (op \ {s}) \cup (IF seg.pbf THEN {seg} ELSE {})
  <1>1. /\ new.at = n /\ new.seg = seg /\ n > 0 /\ n \in Nat
        /\ \A q \in Q : q \in P \/ q = new
        /\ P \subseteq Q /\ new \in Q /\ Q \subseteq Piece
    BY DEF Piece
  <1>2. \A p \in P : p.at \in Nat /\ p.seg \in Segment
    BY DEF Piece
  <1>3. /\ \A t \in op2 : (t \in op /\ t # s) \/ (t = seg /\ seg.pbf)
        /\ \A t \in op : t # s => t \in op2
        /\ seg.pbf => seg \in op2
    OBVIOUS
  <1>4. /\ s \in Segment /\ s.pbf /\ s.ch \in Channels
        /\ \A t \in op : s.ch = t.ch \/ s.msg = t.msg => s = t
        /\ \A p \in P : p.seg.msg = s.msg =>
              /\ p.seg.ch = s.ch /\ p.seg.key = s.key
              /\ p.seg.pbf /\ p.seg.idx <= s.idx
    BY DEF Orderly, OpenLast
  <1>5. s.idx \in Nat /\ s.idx >= 1
    BY <1>4, SegmentType
  <1> HIDE DEF new, Q, op2
  <1>6. HeldOnce(Q)
    BY <1>1, <1>4, SegmentType DEF Orderly, HeldOnce
  <1>7. Ordered(Q)
    <2>1. ASSUME NEW p \in P, p.seg.msg = seg.msg
          PROVE  /\ p.seg.ch = seg.ch /\ p.seg.key = seg.key /\ p.at < n
                 /\ p.seg.pbf /\ p.seg.idx < seg.idx
      <3>1. p.seg.idx \in Nat /\ p.seg.idx <= s.idx
        BY <1>2, <1>4, <2>1, SegmentType
      <3> QED
        BY <1>4, <1>5, <2>1, <3>1
    <2>2. \A p \in P : p.at # n /\ ~(n < p.at)
      BY <1>1, <1>2
    <2> QED
      BY <1>1, <2>1, <2>2 DEF Orderly, Ordered
  <1>8. OpenLast(Q, op2)
    <2>1. ASSUME NEW t \in op, t # s
          PROVE  /\ t \in Segment /\ t.pbf /\ t.ch \in Channels /\ t.idx < MaxSegments
                 /\ \A u \in op2 : t.ch = u.ch \/ t.msg = u.msg => t = u
                 /\ \A p \in Q : p.seg.msg = t.msg =>
                       /\ p.seg.ch = t.ch /\ p.seg.key = t.key
                       /\ p.seg.pbf /\ p.seg.idx <= t.idx
      BY <1>1, <1>3, <1>4, <2>1 DEF Orderly, OpenLast
    <2>2. ASSUME seg.pbf
          PROVE  /\ seg \in Segment /\ seg.pbf /\ seg.ch \in Channels
                 /\ seg.idx < MaxSegments
                 /\ \A u \in op2 : seg.ch = u.ch \/ seg.msg = u.msg => seg = u
                 /\ \A p \in Q : p.seg.msg = seg.msg =>
                       /\ p.seg.ch = seg.ch /\ p.seg.key = seg.key
                       /\ p.seg.pbf /\ p.seg.idx <= seg.idx
      <3>1. \A u \in op2 : seg.ch = u.ch \/ seg.msg = u.msg => seg = u
        BY <1>3, <1>4
      <3>2. ASSUME NEW p \in P, p.seg.msg = seg.msg
            PROVE  /\ p.seg.ch = seg.ch /\ p.seg.key = seg.key
                   /\ p.seg.pbf /\ p.seg.idx <= seg.idx
        <4>1. p.seg.idx \in Nat /\ p.seg.idx <= s.idx
          BY <1>2, <1>4, <3>2, SegmentType
        <4> QED
          BY <1>4, <1>5, <3>2, <4>1
      <3>3. seg.idx <= seg.idx
        BY SegmentType
      <3> QED
        BY <1>1, <1>4, <2>2, <3>1, <3>2, <3>3
    <2> QED
      BY <1>3, <2>1, <2>2 DEF OpenLast
  <1>9. ASSUME NEW t, NEW u, Intruder(t, u, d), t.msg # seg.msg \/ t.pbf
        PROVE  Intruder(t, u, d2)
    BY <1>9 DEF Intruder
  <1>10. ASSUME NEW p \in P, NEW u, Intruder(p.seg, u, d)
         PROVE  Intruder(p.seg, u, d2)
    <2>1. ~p.seg.pbf
      BY <1>10 DEF Intruder
    <2>2. p.seg.msg # seg.msg
      BY <1>4, <2>1
    <2> QED
      BY <1>9, <1>10, <2>2
  <1>11. Gapless(Q, op2, c, d2)
    <2>1. ASSUME NEW p \in P, p.at > 0, p.seg.idx > 1
          PROVE  Backed(Before(Q, p.at), p.seg, p.seg.idx - 1, c, d2)
      <3>1. Before(Q, p.at) = Before(P, p.at)
        BY <1>1, <1>2 DEF Before
      <3>2. Backed(Before(P, p.at), p.seg, p.seg.idx - 1, c, d)
        BY <2>1 DEF Orderly, Gapless
      <3>3. \A q \in Before(P, p.at) : q \in P
        BY DEF Before
      <3> QED
        BY <1>10, <3>1, <3>2, <3>3 DEF Backed
    <2>2. Backed(Before(Q, n), seg, seg.idx - 1, c, d2)
      <3>1. Before(Q, n) = P
        BY <1>1, <1>2 DEF Before
      <3>2. Backed(P, s, s.idx, c, d)
        BY DEF Orderly, Gapless
      <3>3. seg.idx - 1 = s.idx
        BY <1>5
      <3>4. Backed(P, seg, s.idx, c, d)
        BY <3>2 DEF Backed, Intruder
      <3> QED
        BY <1>10, <3>1, <3>3, <3>4 DEF Backed
    <2>3. ASSUME NEW t \in op, t # s PROVE Backed(Q, t, t.idx, c, d2)
      <3>1. Backed(P, t, t.idx, c, d) /\ seg.ch # t.ch
        BY <1>4, <2>3 DEF Orderly, Gapless
      <3> QED
        BY <1>1, <1>10, <3>1 DEF Backed
    <2>4. Backed(Q, seg, seg.idx, c, d2)
      BY <1>1 DEF Backed
    <2> QED
      BY <1>1, <1>3, <2>1, <2>2, <2>3, <2>4 DEF Gapless
  <1>12. Continued(Q, op2)
    <2>1. ASSUME NEW p \in P, p.seg.pbf
          PROVE  Ends(Q, p.seg) \/ \E t \in op2 : t.msg = p.seg.msg
      <3>1. CASE Ends(P, p.seg)
        BY <1>1, <3>1 DEF Ends
      <3>2. CASE \E t \in op : t.msg = p.seg.msg
        <4>1. PICK t \in op : t.msg = p.seg.msg
          BY <3>2
        <4>2. CASE t = s
          BY <1>1, <1>3, <4>1, <4>2, SegmentType DEF Ends
        <4>3. CASE t # s
          BY <1>3, <4>1, <4>3
        <4> QED
          BY <4>2, <4>3
      <3> QED
        BY <2>1, <3>1, <3>2 DEF Orderly, Continued
    <2> QED
      BY <1>1, <1>3, <2>1 DEF Continued
  <1>13. Unmixed(Q, d2)
    <2> SUFFICES ASSUME NEW p \in Q, NEW q \in Q,
                        p.at < q.at, p.seg.pbf, p.seg.ch = q.seg.ch,
                        p.seg.msg # q.seg.msg
                 PROVE  Ends(Before(Q, q.at), p.seg) \/ Intruder(q.seg, p.seg, d2)
      BY DEF Unmixed
    <2>1. p \in P
      BY <1>1, <1>2
    <2>2. CASE q \in P
      <3>1. Ends(Before(P, q.at), p.seg) \/ Intruder(q.seg, p.seg, d)
        BY <2>1, <2>2 DEF Orderly, Unmixed
      <3> QED
        BY <1>1, <1>10, <2>2, <3>1 DEF Ends, Before
    <2>3. CASE q = new
      <3>1. ~\E t \in op : t.msg = p.seg.msg
        <4> SUFFICES ASSUME NEW t \in op, t.msg = p.seg.msg PROVE FALSE
          OBVIOUS
        <4>1. p.seg.ch = t.ch
          BY <2>1 DEF Orderly, OpenLast
        <4> QED
          BY <1>1, <1>4, <2>3, <4>1
      <3>2. Ends(P, p.seg)
        BY <2>1, <3>1 DEF Orderly, Continued
      <3> QED
        BY <1>1, <2>3, <3>2 DEF Ends, Before
    <2> QED
      BY <1>1, <2>2, <2>3
  <1>14. Coming(Q, d2)
    BY <1>1, <1>4 DEF Orderly, Coming
  <1> QED
    BY <1>6, <1>7, <1>8, <1>11, <1>12, <1>13, <1>14 DEF Orderly, Q, new, op2

\* A segment that nobody expects
LEMMA OrderlyIntrude ==
  ASSUME NEW P, P \subseteq Piece, NEW op, NEW c, NEW d, Orderly(P, op, c, d),
         NEW n \in Nat \ {0}, \A p \in P : p.at < n,
         NEW seg \in Segment, seg.idx = 1, ~seg.pbf,
         \/ seg.ch = Unknown
         \/ seg.ch = Control /\ \E s \in op : s.ch = Control /\ s.key # seg.key,
         \A p \in P : p.seg.msg # seg.msg,
         \A s \in op : s.msg # seg.msg
  PROVE  Orderly(P \cup {[at |-> n, seg |-> seg]}, op, c \ {seg.msg}, d)
  <1> DEFINE new == [at |-> n, seg |-> seg]
             Q == P \cup {new}
             c2 == c \ {seg.msg}
  <1>1. /\ new.at = n /\ new.seg = seg /\ n > 0 /\ n \in Nat
        /\ \A q \in Q : q \in P \/ q = new
        /\ P \subseteq Q /\ new \in Q /\ Q \subseteq Piece
    BY DEF Piece
  <1>2. \A p \in P : p.at \in Nat /\ p.seg \in Segment
    BY DEF Piece
  <1>3. seg.msg \notin d
    BY DEF Orderly, Coming
  <1>4. Unknown \notin Channels
    BY SarInAssumption DEF Unknown, Channels, Cids, Control
  <1>5. ASSUME NEW s \in op, s.ch = seg.ch PROVE Intruder(seg, s, d)
    <2>1. seg.ch = Control
      BY <1>4, <1>5 DEF Orderly, OpenLast
    <2>2. PICK t \in op : t.ch = Control /\ t.key # seg.key
      BY <1>4, <2>1 DEF Channels
    <2>3. s = t
      BY <1>5, <2>1, <2>2 DEF Orderly, OpenLast
    <2> QED
      BY <1>3, <2>1, <2>2, <2>3 DEF Intruder
  <1> HIDE DEF new, Q, c2
  <1>6. HeldOnce(Q)
    <2>1. ~(seg.idx > 1)
      OBVIOUS
    <2> QED
      BY <1>1, <2>1 DEF Orderly, HeldOnce
  <1>7. Ordered(Q)
    BY <1>1, <1>2 DEF Orderly, Ordered
  <1>8. OpenLast(Q, op)
    BY <1>1 DEF Orderly, OpenLast
  <1>9. Gapless(Q, op, c2, d)
    <2>1. ASSUME NEW p \in Q, p.at > 0, p.seg.idx > 1
          PROVE  Backed(Before(Q, p.at), p.seg, p.seg.idx - 1, c2, d)
      <3>1. p \in P /\ p.seg.msg # seg.msg
        BY <1>1, <2>1
      <3>2. Before(Q, p.at) = Before(P, p.at)
        BY <1>1, <1>2, <3>1 DEF Before
      <3>3. Backed(Before(P, p.at), p.seg, p.seg.idx - 1, c, d)
        BY <2>1, <3>1 DEF Orderly, Gapless
      <3> QED
        BY <3>1, <3>2, <3>3 DEF Backed, c2
    <2>2. ASSUME NEW s \in op PROVE Backed(Q, s, s.idx, c2, d)
      <3>1. Backed(P, s, s.idx, c, d) /\ s.msg # seg.msg
        BY DEF Orderly, Gapless
      <3> QED
        BY <1>1, <1>5, <3>1 DEF Backed, c2
    <2> QED
      BY <2>1, <2>2 DEF Gapless
  <1>10. Continued(Q, op)
    BY <1>1 DEF Orderly, Continued, Ends
  <1>11. Unmixed(Q, d)
    <2> SUFFICES ASSUME NEW p \in Q, NEW q \in Q,
                        p.at < q.at, p.seg.pbf, p.seg.ch = q.seg.ch,
                        p.seg.msg # q.seg.msg
                 PROVE  Ends(Before(Q, q.at), p.seg) \/ Intruder(q.seg, p.seg, d)
      BY DEF Unmixed
    <2>1. p \in P
      BY <1>1, <1>2
    <2>2. CASE q \in P
      <3>1. Ends(Before(P, q.at), p.seg) \/ Intruder(q.seg, p.seg, d)
        BY <2>1, <2>2 DEF Orderly, Unmixed
      <3> QED
        BY <1>1, <2>2, <3>1 DEF Ends, Before
    <2>3. CASE q = new
      <3>1. CASE Ends(P, p.seg)
        BY <1>1, <2>3, <3>1 DEF Ends, Before
      <3>2. CASE \E s \in op : s.msg = p.seg.msg
        <4>1. PICK s \in op : s.msg = p.seg.msg
          BY <3>2
        <4>2. s.ch = p.seg.ch /\ s.key = p.seg.key
          BY <2>1, <4>1 DEF Orderly, OpenLast
        <4>3. Intruder(seg, s, d)
          BY <1>1, <1>5, <2>3, <4>2
        <4> QED
          BY <1>1, <2>3, <4>2, <4>3 DEF Intruder
      <3> QED
        BY <2>1, <3>1, <3>2 DEF Orderly, Continued
    <2> QED
      BY <1>1, <2>2, <2>3
  <1>12. Coming(Q, d)
    BY <1>1 DEF Orderly, Coming
  <1> QED
    BY <1>6, <1>7, <1>8, <1>9, <1>10, <1>11, <1>12 DEF Orderly, Q, new, c2

-----------------------------------------------------------------------------
(***************************************************************************)
(* The pieces: what the SAR takes out of the stream                        *)
(***************************************************************************)
IsFirst(f, P) == f \in P /\ f.at > 0 /\ \A p \in P : p.at = 0 \/ p = f \/ p.at > f.at

\* What comes next goes on with the unfinished packet of its channel, if there
\* is one, or else is an intruder.
LEMMA FirstFits ==
  ASSUME NEW P, P \subseteq Piece, NEW op, NEW c, NEW d, Orderly(P, op, c, d),
         NEW f, IsFirst(f, P), NEW h \in P, h.at = 0, h.seg.ch = f.seg.ch
  PROVE  \/ /\ h.seg.msg = f.seg.msg /\ h.seg.key = f.seg.key
            /\ f.seg.idx = h.seg.idx + 1
         \/ h.seg.msg # f.seg.msg /\ Intruder(f.seg, h.seg, d)
  <1>1. /\ f \in P /\ f.at > 0 /\ h.seg.pbf /\ h # f
        /\ f.seg \in Segment /\ h.seg \in Segment
    BY DEF IsFirst, Orderly, HeldOnce, Piece
  <1>2. \A p \in P : p.at < f.at => p.at = 0
    BY DEF IsFirst, Piece
  <1>3. CASE h.seg.msg = f.seg.msg
    <2>1. h.seg.key = f.seg.key /\ h.seg.idx < f.seg.idx
      BY <1>1, <1>3 DEF Orderly, Ordered
    <2>2. f.seg.idx > 1 /\ f.seg.idx \in Nat /\ h.seg.idx \in Nat
      BY <1>1, <2>1, SegmentType
    <2>3. Backed(Before(P, f.at), f.seg, f.seg.idx - 1, c, d)
      BY <1>1, <2>2 DEF Orderly, Gapless
    <2>4. h \in Before(P, f.at)
      BY <1>1 DEF Before
    <2>5. ~Intruder(h.seg, f.seg, d)
      BY <1>1 DEF Intruder
    <2>6. PICK p \in Before(P, f.at) : /\ p.seg.msg = f.seg.msg
                                       /\ p.seg.idx = f.seg.idx - 1
      BY <2>3, <2>4, <2>5 DEF Backed
    <2>7. p \in P /\ p.at = 0
      BY <1>2, <2>6 DEF Before
    <2>8. p = h
      BY <1>3, <2>6, <2>7 DEF Orderly, Ordered
    <2> QED
      BY <1>3, <2>1, <2>2, <2>6, <2>8
  <1>4. CASE h.seg.msg # f.seg.msg
    <2>1. Ends(Before(P, f.at), h.seg) \/ Intruder(f.seg, h.seg, d)
      BY <1>1, <1>4 DEF Orderly, Unmixed
    <2>2. ~Ends(Before(P, f.at), h.seg)
      BY <1>2 DEF Ends, Before, Orderly, HeldOnce
    <2> QED
      BY <1>4, <2>1, <2>2
  <1> QED
    BY <1>3, <1>4

\* Without an unfinished packet it is the first segment of a message, or a
\* message that has been cut.
LEMMA FirstBegins ==
  ASSUME NEW P, P \subseteq Piece, NEW op, NEW c, NEW d, Orderly(P, op, c, d),
         NEW f, IsFirst(f, P), \A h \in P : h.at = 0 => h.seg.ch # f.seg.ch
  PROVE  f.seg.idx = 1 \/ f.seg.msg \in c
  <1>1. f \in P /\ f.at > 0 /\ f.seg \in Segment
    BY DEF IsFirst, Piece
  <1>2. \A p \in P : p.at < f.at => p.at = 0
    BY DEF IsFirst, Piece
  <1> SUFFICES ASSUME f.seg.idx # 1 PROVE f.seg.msg \in c
    OBVIOUS
  <1>3. f.seg.idx > 1
    BY <1>1, SegmentType
  <1>4. Backed(Before(P, f.at), f.seg, f.seg.idx - 1, c, d)
    BY <1>1, <1>3 DEF Orderly, Gapless
  <1>5. ASSUME NEW p \in Before(P, f.at) PROVE p.seg.msg # f.seg.msg
    <2>1. p \in P /\ p.at = 0 /\ p # f
      BY <1>1, <1>2 DEF Before
    <2> QED
      BY <1>1, <2>1 DEF Orderly, Ordered
  <1> QED
    BY <1>4, <1>5 DEF Backed

\* A segment with more to follow becomes the latest one of its packet.
LEMMA OrderlyCollect ==
  ASSUME NEW P, P \subseteq Piece, NEW op, NEW c, NEW d, Orderly(P, op, c, d),
         NEW f, IsFirst(f, P), f.seg.pbf,
         \A h \in P : h.at = 0 /\ h.seg.ch = f.seg.ch => h.seg.msg = f.seg.msg
  PROVE  Orderly({p \in P : p # f /\ ~(p.at = 0 /\ p.seg.ch = f.seg.ch)}
                    \cup {[at |-> 0, seg |-> f.seg]}, op, c, d)
  <1> DEFINE new == [at |-> 0, seg |-> f.seg]
             Q == {p \in P : p # f /\ ~(p.at = 0 /\ p.seg.ch = f.seg.ch)} \cup {new}
  <1>1. /\ new.at = 0 /\ new.seg = f.seg
        /\ \A q \in Q : (q \in P /\ q # f /\ ~(q.at = 0 /\ q.seg.ch = f.seg.ch)) \/ q = new
        /\ \A p \in P : p # f /\ ~(p.at = 0 /\ p.seg.ch = f.seg.ch) => p \in Q
        /\ new \in Q
    OBVIOUS
  <1>2. /\ f \in P /\ f.at > 0
        /\ \A p \in P : /\ p.at \in Nat /\ p.seg \in Segment
                        /\ p.at = 0 \/ p = f \/ p.at > f.at
    BY DEF IsFirst, Piece
  <1> HIDE DEF new, Q
  <1>3. HeldOnce(P) /\ Ordered(P) /\ OpenLast(P, op) /\ Gapless(P, op, c, d)
        /\ Unmixed(P, d) /\ Continued(P, op) /\ Coming(P, d)
    BY DEF Orderly
  <1>4. \A p \in P : ~p.seg.pbf => p \in Q /\ p.at > 0
    BY <1>1, <1>2, <1>3 DEF HeldOnce
  <1>5. HeldOnce(Q)
    BY <1>1, <1>2, <1>3 DEF HeldOnce
  <1>6. Ordered(Q)
    <2>1. ASSUME NEW p \in Q, p # new, p.seg.msg = f.seg.msg
          PROVE  /\ p.seg.ch = f.seg.ch /\ p.seg.key = f.seg.key
                 /\ p.at > 0 /\ f.seg.idx < p.seg.idx
      BY <1>1, <1>2, <1>3, <2>1 DEF Ordered
    <2>2. ASSUME NEW p \in Q, NEW q \in Q, p.seg.msg = q.seg.msg, p # q
          PROVE  /\ p.seg.ch = q.seg.ch /\ p.seg.key = q.seg.key
                 /\ p.at # q.at
                 /\ p.at < q.at => p.seg.pbf /\ p.seg.idx < q.seg.idx
      <3>1. CASE p = new
        BY <1>1, <2>1, <2>2, <3>1
      <3>2. CASE q = new
        BY <1>1, <1>2, <2>1, <2>2, <3>2
      <3>3. CASE p # new /\ q # new
        BY <1>1, <1>3, <2>2, <3>3 DEF Ordered
      <3> QED
        BY <3>1, <3>2, <3>3
    <2> QED
      BY <2>2 DEF Ordered
  <1>7. OpenLast(Q, op)
    BY <1>1, <1>2, <1>3 DEF OpenLast
  <1>8. Gapless(Q, op, c, d)
    <2>1. ASSUME NEW r \in P, r.at = 0, r.seg.ch = f.seg.ch
          PROVE  /\ r.seg.msg = f.seg.msg /\ r.seg.idx < f.seg.idx
                 /\ r.seg.idx \in Nat /\ f.seg.idx \in Nat
      BY <1>2, <1>3, <2>1, SegmentType DEF Ordered
    <2>2. ASSUME NEW p \in Q, p.at > 0, p.seg.idx > 1
          PROVE  Backed(Before(Q, p.at), p.seg, p.seg.idx - 1, c, d)
      <3>1. p \in P /\ p # f /\ f.at < p.at /\ p.at \in Nat
        BY <1>1, <1>2, <2>2
      <3>2. Backed(Before(P, p.at), p.seg, p.seg.idx - 1, c, d)
        BY <1>3, <2>2, <3>1 DEF Gapless
      <3>3. ASSUME NEW r \in Before(P, p.at), r.seg.msg = p.seg.msg,
                   r.seg.idx = p.seg.idx - 1
            PROVE  \E q \in Before(Q, p.at) : /\ q.seg.msg = p.seg.msg
                                              /\ q.seg.idx = p.seg.idx - 1
        <4>1. r \in P /\ r.at < p.at
          BY DEF Before
        <4>2. CASE r = f
          BY <1>1, <2>2, <3>3, <4>2 DEF Before
        <4>3. CASE r # f /\ r.at = 0 /\ r.seg.ch = f.seg.ch
          <5>1. p.seg.msg = f.seg.msg /\ r.seg.idx < f.seg.idx
                /\ r.seg.idx \in Nat /\ f.seg.idx \in Nat
            BY <2>1, <3>3, <4>1, <4>3
          <5>2. f.seg.idx < p.seg.idx /\ p.seg.idx \in Nat
            BY <1>2, <1>3, <3>1, <5>1, SegmentType DEF Ordered
          <5> QED
            BY <3>3, <5>1, <5>2
        <4>4. CASE r # f /\ ~(r.at = 0 /\ r.seg.ch = f.seg.ch)
          BY <1>1, <3>3, <4>1, <4>4 DEF Before
        <4> QED
          BY <4>2, <4>3, <4>4
      <3>4. ASSUME \A r \in Before(P, p.at) : r.seg.ch = p.seg.ch => Intruder(r.seg, p.seg, d),
                   NEW q \in Before(Q, p.at), q.seg.ch = p.seg.ch
            PROVE  Intruder(q.seg, p.seg, d)
        <4>1. q \in Q /\ q.at < p.at
          BY DEF Before
        <4>2. CASE q = new
          <5>1. f \in Before(P, p.at)
            BY <1>2, <3>1 DEF Before
          <5> QED
            BY <1>1, <3>4, <4>2, <5>1
        <4>3. CASE q # new
          BY <1>1, <3>4, <4>1, <4>3 DEF Before
        <4> QED
          BY <4>2, <4>3
      <3> QED
        BY <3>2, <3>3, <3>4 DEF Backed
    <2>3. ASSUME NEW s \in op PROVE Backed(Q, s, s.idx, c, d)
      <3>1. Backed(P, s, s.idx, c, d)
        BY <1>3 DEF Gapless
      <3>2. ASSUME NEW r \in P, r.seg.msg = s.msg, r.seg.idx = s.idx
            PROVE  \E q \in Q : q.seg.msg = s.msg /\ q.seg.idx = s.idx
        <4>1. CASE r = f
          BY <1>1, <3>2, <4>1
        <4>2. CASE r # f /\ r.at = 0 /\ r.seg.ch = f.seg.ch
          <5>1. s.msg = f.seg.msg /\ r.seg.idx < f.seg.idx
                /\ r.seg.idx \in Nat /\ f.seg.idx \in Nat
            BY <2>1, <3>2, <4>2
          <5>2. f.seg.idx <= s.idx /\ s.idx \in Nat
            BY <1>2, <1>3, <5>1, SegmentType DEF OpenLast
          <5> QED
            BY <3>2, <5>1, <5>2
        <4>3. CASE r # f /\ ~(r.at = 0 /\ r.seg.ch = f.seg.ch)
          BY <1>1, <3>2, <4>3
        <4> QED
          BY <4>1, <4>2, <4>3
      <3>3. ASSUME \A r \in P : r.seg.ch = s.ch => Intruder(r.seg, s, d),
                   NEW q \in Q, q.seg.ch = s.ch
            PROVE  Intruder(q.seg, s, d)
        BY <1>1, <1>2, <3>3
      <3> QED
        BY <3>1, <3>2, <3>3 DEF Backed
    <2> QED
      BY <2>2, <2>3 DEF Gapless
  <1>9. Unmixed(Q, d)
    <2> SUFFICES ASSUME NEW p \in Q, NEW q \in Q,
                        p.at < q.at, p.seg.pbf, p.seg.ch = q.seg.ch,
                        p.seg.msg # q.seg.msg
                 PROVE  Ends(Before(Q, q.at), p.seg) \/ Intruder(q.seg, p.seg, d)
      BY DEF Unmixed
    <2>1. q # new /\ q \in P /\ f.at < q.at
      BY <1>1, <1>2
    <2>2. PICK r \in P : r.seg = p.seg /\ r.at < q.at
      BY <1>1, <1>2, <2>1
    <2>3. Ends(Before(P, q.at), p.seg) \/ Intruder(q.seg, p.seg, d)
      BY <1>3, <2>1, <2>2 DEF Unmixed
    <2> QED
      BY <1>4, <2>3 DEF Ends, Before
  <1>10. Continued(Q, op)
    <2>1. ASSUME NEW p \in Q, p.seg.pbf
          PROVE  Ends(Q, p.seg) \/ \E s \in op : s.msg = p.seg.msg
      <3>1. PICK r \in P : r.seg = p.seg
        BY <1>1, <1>2
      <3>2. Ends(P, p.seg) \/ \E s \in op : s.msg = p.seg.msg
        BY <1>3, <2>1, <3>1 DEF Continued
      <3> QED
        BY <1>4, <3>2 DEF Ends
    <2> QED
      BY <2>1 DEF Continued
  <1>11. Coming(Q, d)
    BY <1>3, <1>4 DEF Coming
  <1> QED
    BY <1>5, <1>6, <1>7, <1>8, <1>9, <1>10, <1>11 DEF Orderly, Q, new

\* A segment that completes a message, or that nobody expects, leaves with
\* what there is of its message.
LEMMA OrderlyTake ==
  ASSUME NEW P, P \subseteq Piece, NEW op, NEW c, NEW d, Orderly(P, op, c, d),
         NEW f, IsFirst(f, P), ~f.seg.pbf,
         NEW d2, d2 \subseteq d,
         f.seg.ch \in Channels => f.seg.msg \notin d2
  PROVE  Orderly({p \in P : p # f /\ ~(p.at = 0 /\ p.seg.msg = f.seg.msg)}, op, c, d2)
  <1> DEFINE Q == {p \in P : p # f /\ ~(p.at = 0 /\ p.seg.msg = f.seg.msg)}
  <1>1. \A q \in P : q \in Q <=> (q # f /\ ~(q.at = 0 /\ q.seg.msg = f.seg.msg))
    OBVIOUS
  <1>2. Q \subseteq P /\ f \notin Q
    OBVIOUS
  <1>3. /\ f \in P /\ f.at > 0
        /\ \A p \in P : /\ p.at \in Nat /\ p.seg \in Segment
                        /\ p.at = 0 \/ p = f \/ p.at > f.at
    BY DEF IsFirst, Piece
  <1> HIDE DEF Q
  <1>4. HeldOnce(P) /\ Ordered(P) /\ OpenLast(P, op) /\ Gapless(P, op, c, d)
        /\ Unmixed(P, d) /\ Continued(P, op) /\ Coming(P, d)
    BY DEF Orderly
  <1>5. ASSUME NEW p \in Q PROVE p.seg.msg # f.seg.msg
    BY <1>1, <1>2, <1>3, <1>4 DEF Ordered
  <1>6. ASSUME NEW s \in op PROVE s.msg # f.seg.msg
    BY <1>3, <1>4 DEF OpenLast
  <1>7. \A p \in P : p.seg.msg # f.seg.msg => p \in Q
    BY <1>1, <1>3
  <1>8. \A t, u : Intruder(t, u, d) => Intruder(t, u, d2)
    BY DEF Intruder
  <1>9. HeldOnce(Q) /\ Ordered(Q) /\ OpenLast(Q, op)
    BY <1>2, <1>4 DEF HeldOnce, Ordered, OpenLast
  <1>10. Gapless(Q, op, c, d2)
    <2>1. ASSUME NEW p \in Q, p.at > 0, p.seg.idx > 1
          PROVE  Backed(Before(Q, p.at), p.seg, p.seg.idx - 1, c, d2)
      <3>1. Backed(Before(P, p.at), p.seg, p.seg.idx - 1, c, d)
        BY <1>2, <1>4, <2>1 DEF Gapless
      <3> QED
        BY <1>2, <1>5, <1>7, <1>8, <3>1 DEF Backed, Before
    <2>2. ASSUME NEW s \in op PROVE Backed(Q, s, s.idx, c, d2)
      <3>1. Backed(P, s, s.idx, c, d)
        BY <1>4 DEF Gapless
      <3> QED
        BY <1>2, <1>6, <1>7, <1>8, <3>1 DEF Backed
    <2> QED
      BY <2>1, <2>2 DEF Gapless
  <1>11. Unmixed(Q, d2)
    <2> SUFFICES ASSUME NEW p \in Q, NEW q \in Q,
                        p.at < q.at, p.seg.pbf, p.seg.ch = q.seg.ch,
                        p.seg.msg # q.seg.msg
                 PROVE  Ends(Before(Q, q.at), p.seg) \/ Intruder(q.seg, p.seg, d2)
      BY DEF Unmixed
    <2>1. Ends(Before(P, q.at), p.seg) \/ Intruder(q.seg, p.seg, d)
      BY <1>2, <1>4 DEF Unmixed
    <2> QED
      BY <1>5, <1>7, <1>8, <2>1 DEF Ends, Before
  <1>12. Continued(Q, op)
    BY <1>2, <1>4, <1>5, <1>7 DEF Continued, Ends
  <1>13. Coming(Q, d2)
    <2>1. ASSUME NEW m \in d2
          PROVE  \E p \in Q : p.seg.msg = m /\ ~p.seg.pbf /\ p.seg.ch \in Channels
      <3>1. PICK p \in P : p.seg.msg = m /\ ~p.seg.pbf /\ p.seg.ch \in Channels
        BY <1>4 DEF Coming
      <3>2. p # f /\ p.at # 0
        BY <1>4, <3>1 DEF HeldOnce
      <3> QED
        BY <1>1, <3>1, <3>2
    <2> QED
      BY <2>1 DEF Coming
  <1> QED
    BY <1>9, <1>10, <1>11, <1>12, <1>13 DEF Orderly, Q

\* The unfinished packets are dropped: their messages are cut.
LEMMA OrderlyForget ==
  ASSUME NEW P, P \subseteq Piece, NEW op, NEW c, NEW d, Orderly(P, op, c, d),
         NEW c2, c \subseteq c2, \A p \in P : p.at = 0 => p.seg.msg \in c2,
         NEW d2, d2 \subseteq d
  PROVE  Orderly({p \in P : p.at > 0}, op, c2, d2)
  <1> DEFINE Q == {p \in P : p.at > 0}
  <1>1. Q \subseteq P /\ \A p \in P : p.at > 0 => p \in Q
    OBVIOUS
  <1>2. \A p \in P : /\ p.at \in Nat /\ p.seg \in Segment
                     /\ p.seg.idx \in Nat
    BY SegmentType DEF Piece
  <1> HIDE DEF Q
  <1>3. HeldOnce(P) /\ Ordered(P) /\ OpenLast(P, op) /\ Gapless(P, op, c, d)
        /\ Unmixed(P, d) /\ Continued(P, op) /\ Coming(P, d)
    BY DEF Orderly
  <1>4. \A p \in P : ~p.seg.pbf => p \in Q
    BY <1>1, <1>2, <1>3 DEF HeldOnce
  <1>5. \A t, u : Intruder(t, u, d) => Intruder(t, u, d2)
    BY DEF Intruder
  <1>6. HeldOnce(Q) /\ Ordered(Q) /\ OpenLast(Q, op)
    BY <1>1, <1>3 DEF HeldOnce, Ordered, OpenLast
  <1>7. Gapless(Q, op, c2, d2)
    <2>1. ASSUME NEW p \in Q, p.at > 0, p.seg.idx > 1
          PROVE  Backed(Before(Q, p.at), p.seg, p.seg.idx - 1, c2, d2)
      <3>1. p \in P /\ Backed(Before(P, p.at), p.seg, p.seg.idx - 1, c, d)
        BY <1>1, <1>3, <2>1 DEF Gapless
      <3>2. CASE p.seg.msg \in c /\ \A r \in Before(P, p.at) :
                    r.seg.ch = p.seg.ch => Intruder(r.seg, p.seg, d)
        BY <1>1, <1>5, <3>2 DEF Backed, Before
      <3>3. ASSUME NEW r \in Before(P, p.at), r.seg.msg = p.seg.msg,
                   r.seg.idx = p.seg.idx - 1
            PROVE  Backed(Before(Q, p.at), p.seg, p.seg.idx - 1, c2, d2)
        <4>1. r \in P /\ r.at < p.at
          BY DEF Before
        <4>2. CASE r.at > 0
          BY <1>1, <3>3, <4>1, <4>2 DEF Backed, Before
        <4>3. CASE r.at = 0
          <5>1. p.seg.msg \in c2
            BY <3>3, <4>1, <4>3
          <5>2. r.seg.pbf /\ r.seg.ch = p.seg.ch /\ r.seg.key = p.seg.key
            <6>1. r # p
              BY <1>2, <4>1
            <6> QED
              BY <1>3, <3>1, <3>3, <4>1, <6>1 DEF Ordered
          <5>3. ASSUME NEW q \in Before(Q, p.at), q.seg.ch = p.seg.ch
                PROVE  Intruder(q.seg, p.seg, d2)
            <6>1. q \in P /\ q.at > 0 /\ q.at < p.at
              BY <1>1 DEF Before, Q
            <6>2. q.seg.msg # p.seg.msg
              <7> SUFFICES ASSUME q.seg.msg = p.seg.msg PROVE FALSE
                OBVIOUS
              <7>1. r.seg.idx < q.seg.idx /\ q.seg.idx < p.seg.idx
                <8>1. r.at < q.at /\ r # q /\ q # p
                  BY <1>2, <3>1, <4>1, <4>3, <6>1
                <8> QED
                  BY <1>3, <3>1, <3>3, <4>1, <6>1, <8>1 DEF Ordered
              <7> QED
                BY <1>2, <3>1, <3>3, <4>1, <6>1, <7>1
            <6>3. Ends(Before(P, q.at), r.seg) \/ Intruder(q.seg, r.seg, d)
              BY <1>3, <3>3, <4>1, <4>3, <5>2, <5>3, <6>1, <6>2 DEF Unmixed
            <6>4. ~Ends(Before(P, q.at), r.seg)
              <7> SUFFICES ASSUME NEW l \in Before(P, q.at),
                                  l.seg.msg = r.seg.msg, ~l.seg.pbf
                           PROVE  FALSE
                BY DEF Ends
              <7>1. l \in P /\ l.at < p.at
                BY <1>2, <3>1, <6>1 DEF Before
              <7>2. l # p
                BY <1>2, <7>1
              <7> QED
                BY <1>3, <3>1, <3>3, <7>1, <7>2 DEF Ordered
            <6> QED
              BY <1>5, <5>2, <6>3, <6>4 DEF Intruder
          <5> QED
            BY <5>1, <5>3 DEF Backed
        <4> QED
          BY <1>2, <4>1, <4>2, <4>3
      <3> QED
        BY <3>1, <3>2, <3>3 DEF Backed
    <2>2. ASSUME NEW s \in op PROVE Backed(Q, s, s.idx, c2, d2)
      <3>1. Backed(P, s, s.idx, c, d)
        BY <1>3 DEF Gapless
      <3>2. CASE s.msg \in c /\ \A r \in P : r.seg.ch = s.ch => Intruder(r.seg, s, d)
        BY <1>1, <1>5, <3>2 DEF Backed
      <3>3. ASSUME NEW r \in P, r.seg.msg = s.msg, r.seg.idx = s.idx
            PROVE  Backed(Q, s, s.idx, c2, d2)
        <4>1. CASE r.at > 0
          BY <1>1, <3>3, <4>1 DEF Backed
        <4>2. CASE r.at = 0
          <5>1. s.msg \in c2
            BY <3>3, <4>2
          <5>2. r.seg.pbf /\ r.seg.ch = s.ch /\ r.seg.key = s.key /\ s.idx \in Nat
            BY <1>2, <1>3, <3>3 DEF OpenLast
          <5>3. ASSUME NEW q \in Q, q.seg.ch = s.ch
                PROVE  Intruder(q.seg, s, d2)
            <6>1. q \in P /\ q.at > 0
              BY <1>1 DEF Q
            <6>2. q.seg.msg # s.msg
              <7> SUFFICES ASSUME q.seg.msg = s.msg PROVE FALSE
                OBVIOUS
              <7>1. r.seg.idx < q.seg.idx /\ q.seg.idx <= s.idx
                BY <1>3, <3>3, <4>2, <6>1 DEF Ordered, OpenLast
              <7> QED
                BY <1>2, <3>3, <5>2, <6>1, <7>1
            <6>3. Ends(Before(P, q.at), r.seg) \/ Intruder(q.seg, r.seg, d)
              BY <1>3, <3>3, <4>2, <5>2, <5>3, <6>1, <6>2 DEF Unmixed
            <6>4. ~Ends(Before(P, q.at), r.seg)
              BY <1>3, <3>3 DEF Ends, Before, OpenLast
            <6> QED
              BY <1>5, <5>2, <6>3, <6>4 DEF Intruder
          <5> QED
            BY <5>1, <5>3 DEF Backed
        <4> QED
          BY <1>2, <4>1, <4>2
      <3> QED
        BY <3>1, <3>2, <3>3 DEF Backed
    <2> QED
      BY <2>1, <2>2 DEF Gapless
  <1>8. Unmixed(Q, d2)
    <2> SUFFICES ASSUME NEW p \in Q, NEW q \in Q,
                        p.at < q.at, p.seg.pbf, p.seg.ch = q.seg.ch,
                        p.seg.msg # q.seg.msg
                 PROVE  Ends(Before(Q, q.at), p.seg) \/ Intruder(q.seg, p.seg, d2)
      BY DEF Unmixed
    <2>1. Ends(Before(P, q.at), p.seg) \/ Intruder(q.seg, p.seg, d)
      BY <1>1, <1>3 DEF Unmixed
    <2> QED
      BY <1>4, <1>5, <2>1 DEF Ends, Before
  <1>9. Continued(Q, op) /\ Coming(Q, d2)
    BY <1>1, <1>3, <1>4 DEF Continued, Ends, Coming
  <1> QED
    BY <1>6, <1>7, <1>8, <1>9 DEF Orderly, Q

\* After a reset that loses the stream, too, there is nothing left.
LEMMA OrderlyDrop ==
  ASSUME NEW P, P \subseteq Piece, NEW op, NEW c, NEW d, Orderly(P, op, c, d),
         NEW c2, c \subseteq c2, \A p \in P : p.seg.msg \in c2
  PROVE  Orderly({}, op, c2, {})
  <1>1. ASSUME NEW s \in op PROVE s.msg \in c2
    <2>1. Backed(P, s, s.idx, c, d)
      BY DEF Orderly, Gapless
    <2> QED
      BY <2>1 DEF Backed
  <1>2. Gapless({}, op, c2, {})
    BY <1>1 DEF Gapless, Backed
  <1> QED
    BY <1>2 DEF Orderly, HeldOnce, Ordered, OpenLast, Unmixed, Continued, Coming

\* The stream moves up.
Moved(p, n) == [at |-> IF p.at = 0 THEN 0 ELSE p.at - n, seg |-> p.seg]

LEMMA OrderlyMove ==
  ASSUME NEW P, P \subseteq Piece, NEW op, NEW c, NEW d, Orderly(P, op, c, d),
         NEW n \in Nat, \A p \in P : p.at = 0 \/ p.at > n
  PROVE  Orderly({Moved(p, n) : p \in P}, op, c, d)
  <1> DEFINE Q == {Moved(p, n) : p \in P}
  <1>1. /\ \A p \in P : Moved(p, n) \in Q
        /\ \A q \in Q : \E p \in P : q = Moved(p, n)
    OBVIOUS
  <1>2. \A p \in P : p.at \in Nat /\ p.seg \in Segment
    BY DEF Piece
  <1>3. \A p \in P : /\ Moved(p, n).seg = p.seg
                     /\ Moved(p, n).at = 0 <=> p.at = 0
                     /\ Moved(p, n).at > 0 <=> p.at > 0
    BY <1>2 DEF Moved
  <1>4. \A p, q \in P : /\ Moved(p, n).at < Moved(q, n).at <=> p.at < q.at
                        /\ Moved(p, n).at = Moved(q, n).at <=> p.at = q.at
    BY <1>2 DEF Moved
  <1>5. \A p, q \in P : Moved(p, n) = Moved(q, n) <=> p = q
    <2> SUFFICES ASSUME NEW p \in P, NEW q \in P, Moved(p, n) = Moved(q, n)
                 PROVE  p = q
      OBVIOUS
    <2>1. p.at = q.at /\ p.seg = q.seg
      BY <1>3, <1>4
    <2> QED
      BY <2>1 DEF Piece
  <1> HIDE DEF Q
  <1>6. /\ HeldOnce(P) /\ Ordered(P) /\ OpenLast(P, op) /\ Gapless(P, op, c, d)
        /\ Unmixed(P, d) /\ Continued(P, op) /\ Coming(P, d)
    BY DEF Orderly
  <1>7. HeldOnce(Q)
    BY <1>1, <1>3, <1>5, <1>6 DEF HeldOnce
  <1>8. Ordered(Q)
    BY <1>1, <1>3, <1>4, <1>5, <1>6 DEF Ordered
  <1>9. OpenLast(Q, op)
    BY <1>1, <1>3, <1>6 DEF OpenLast
  <1>10. ASSUME NEW p \in P
         PROVE  /\ \A r \in Before(P, p.at) : Moved(r, n) \in Before(Q, Moved(p, n).at)
                /\ \A q \in Before(Q, Moved(p, n).at) :
                      \E r \in Before(P, p.at) : q = Moved(r, n)
    BY <1>1, <1>4 DEF Before
  <1>11. Gapless(Q, op, c, d)
    <2>1. ASSUME NEW p \in P, Moved(p, n).at > 0, p.seg.idx > 1
          PROVE  Backed(Before(Q, Moved(p, n).at), p.seg, p.seg.idx - 1, c, d)
      <3>1. Backed(Before(P, p.at), p.seg, p.seg.idx - 1, c, d)
        BY <1>3, <1>6, <2>1 DEF Gapless
      <3>2. \A r \in Before(P, p.at) : Moved(r, n).seg = r.seg
        BY <1>3 DEF Before
      <3> QED
        BY <1>10, <3>1, <3>2 DEF Backed
    <2>2. ASSUME NEW s \in op PROVE Backed(Q, s, s.idx, c, d)
      <3>1. Backed(P, s, s.idx, c, d)
        BY <1>6 DEF Gapless
      <3> QED
        BY <1>1, <1>3, <3>1 DEF Backed
    <2> QED
      BY <1>1, <1>3, <2>1, <2>2 DEF Gapless
  <1>12. Unmixed(Q, d)
    <2> SUFFICES ASSUME NEW p \in P, NEW q \in P,
                        p.at < q.at, p.seg.pbf, p.seg.ch = q.seg.ch,
                        p.seg.msg # q.seg.msg
                 PROVE  \/ Ends(Before(Q, Moved(q, n).at), p.seg)
                        \/ Intruder(q.seg, p.seg, d)
      BY <1>1, <1>3, <1>4 DEF Unmixed
    <2>1. Ends(Before(P, q.at), p.seg) \/ Intruder(q.seg, p.seg, d)
      BY <1>6 DEF Unmixed
    <2>2. \A r \in Before(P, q.at) : Moved(r, n).seg = r.seg
      BY <1>3 DEF Before
    <2> QED
      BY <1>10, <2>1, <2>2 DEF Ends
  <1>13. Continued(Q, op)
    BY <1>1, <1>3, <1>6 DEF Continued, Ends
  <1>14. Coming(Q, d)
    BY <1>1, <1>3, <1>6 DEF Coming
  <1> QED
    BY <1>7, <1>8, <1>9, <1>11, <1>12, <1>13, <1>14 DEF Orderly, Q

-----------------------------------------------------------------------------
(***************************************************************************)
(* The pieces of a stream                                                  *)
(***************************************************************************)
LEMMA PiecesType ==
  ASSUME NEW b \in Seq(Byte), Framed(b), NEW H, H \subseteq Segment
  PROVE  /\ PiecesOf(b, H) \subseteq Piece
         /\ \A p \in PiecesOf(b, H) : p.at < Len(b) + 1
         /\ \A p \in PiecesOf(b, H) :
              \/ p.at = 0 /\ p.seg \in H
              \/ /\ p.at > 0 /\ p.at \in DOMAIN b
                 /\ p.seg = b[p.at].seg /\ b[p.at].pos = 1
  <1>1. \A i \in DOMAIN b : b[i].seg \in Segment /\ i \in Nat /\ i > 0 /\ i <= Len(b)
    BY DEF Framed
  <1>2. Len(b) \in Nat
    OBVIOUS
  <1> QED
    BY <1>1, <1>2 DEF PiecesOf, Piece

LEMMA PiecesSend ==
  ASSUME NEW b \in Seq(Byte), Framed(b), NEW H, NEW seg \in Segment
  PROVE  PiecesOf(b \o Encode(seg), H)
            = PiecesOf(b, H) \cup {[at |-> Len(b) + 1, seg |-> seg]}
  <1> DEFINE t == b \o Encode(seg)
  <1>1. /\ t \in Seq(Byte) /\ Len(t) = Len(b) + Full(seg)
        /\ \A i \in 1 .. Len(b) : t[i] = b[i]
        /\ \A k \in 1 .. Full(seg) : t[Len(b) + k] = [seg |-> seg, pos |-> k]
    BY FramedSend
  <1>2. Full(seg) \in Nat /\ Full(seg) >= 3 /\ Len(b) \in Nat
    BY SegmentFacts
  <1> HIDE DEF t
  <1>3. DOMAIN t = 1 .. Len(b) + Full(seg) /\ DOMAIN b = 1 .. Len(b)
    BY <1>1
  <1>4. t[Len(b) + 1] = [seg |-> seg, pos |-> 1]
    BY <1>1, <1>2
  <1>5. ASSUME NEW i \in DOMAIN t, t[i].pos = 1
        PROVE  i \in DOMAIN b \/ i = Len(b) + 1
    <2> SUFFICES ASSUME i \notin 1 .. Len(b) PROVE i = Len(b) + 1
      BY <1>3
    <2>1. i \in Int /\ i - Len(b) \in 1 .. Full(seg)
      BY <1>2, <1>3
    <2>2. Len(b) + (i - Len(b)) = i
      BY <1>2, <2>1
    <2>3. t[i] = [seg |-> seg, pos |-> i - Len(b)]
      BY <1>1, <2>1, <2>2
    <2> QED
      BY <1>2, <1>5, <2>1, <2>3
  <1>6. \A i \in DOMAIN b : i \in DOMAIN t /\ t[i] = b[i]
    BY <1>1, <1>2, <1>3
  <1>7. Len(b) + 1 \in DOMAIN t /\ t[Len(b) + 1].pos = 1 /\ t[Len(b) + 1].seg = seg
    BY <1>2, <1>3, <1>4
  <1>8. {[at |-> i, seg |-> t[i].seg] : i \in {i \in DOMAIN t : t[i].pos = 1}}
          = {[at |-> i, seg |-> b[i].seg] : i \in {i \in DOMAIN b : b[i].pos = 1}}
              \cup {[at |-> Len(b) + 1, seg |-> seg]}
    <2>1. {i \in DOMAIN t : t[i].pos = 1}
            = {i \in DOMAIN b : b[i].pos = 1} \cup {Len(b) + 1}
      BY <1>5, <1>6, <1>7
    <2>2. \A i \in {i \in DOMAIN b : b[i].pos = 1} :
             [at |-> i, seg |-> t[i].seg] = [at |-> i, seg |-> b[i].seg]
      BY <1>6
    <2> DEFINE I == {i \in DOMAIN t : t[i].pos = 1}
               J == {i \in DOMAIN b : b[i].pos = 1}
               last == Len(b) + 1
    <2>3. t[last].seg = seg
      BY <1>7
    <2> SUFFICES {[at |-> i, seg |-> t[i].seg] : i \in I}
                   = {[at |-> i, seg |-> b[i].seg] : i \in J}
                        \cup {[at |-> last, seg |-> seg]}
      OBVIOUS
    <2> HIDE DEF I, J, last
    <2>4. I = J \cup {last}
      BY <2>1 DEF I, J, last
    <2>5. \A i \in J : t[i].seg = b[i].seg
      BY <1>6 DEF J
    <2> QED
      BY <2>3, <2>4, <2>5
  <1> QED
    BY <1>8 DEF PiecesOf, t

\* The first segment is the first piece, and without it the stream moves up.
LEMMA PiecesRest ==
  ASSUME NEW b \in Seq(Byte), Framed(b), b # << >>, NEW H, H \subseteq Segment, NEW H2
  PROVE  LET f == [at |-> 1, seg |-> First(b)]
             n == Full(First(b))
             P == PiecesOf(b, H)
             Q == {p \in P : p # f /\ p.at > 0} \cup {[at |-> 0, seg |-> s] : s \in H2}
         IN  /\ IsFirst(f, P) /\ n \in Nat
             /\ \A p \in P : p.at = 0 \/ p = f \/ p.at > n
             /\ PiecesOf(Rest(b), H2) = {Moved(p, n) : p \in Q}
  <1> DEFINE f == [at |-> 1, seg |-> First(b)]
             n == Full(First(b))
             P == PiecesOf(b, H)
             Old == {p \in P : p # f /\ p.at > 0}
             New == {[at |-> 0, seg |-> s] : s \in H2}
             t == Rest(b)
             heads == {[at |-> i, seg |-> t[i].seg] : i \in {i \in DOMAIN t : t[i].pos = 1}}
  <1>1. /\ First(b) \in Segment /\ b[1].pos = 1 /\ n <= Len(b)
        /\ \A k \in 1 .. n : b[k] = [seg |-> First(b), pos |-> k]
    BY FramedFirst
  <1>2. n \in Nat /\ n >= 3 /\ Len(b) \in Nat
    BY <1>1, SegmentFacts
  <1>3. /\ t \in Seq(Byte) /\ Len(t) = Len(b) - n
        /\ \A i \in 1 .. Len(b) - n : t[i] = b[i + n]
    BY FramedRest
  <1>4. /\ P \subseteq Piece
        /\ \A p \in P : \/ p.at = 0
                        \/ /\ p.at > 0 /\ p.at \in DOMAIN b
                           /\ p.seg = b[p.at].seg /\ b[p.at].pos = 1
    BY PiecesType
  <1>5. \A i \in DOMAIN b : b[i].pos = 1 => [at |-> i, seg |-> b[i].seg] \in P
    BY DEF PiecesOf
  <1>6. f \in P /\ f.at = 1 /\ f.seg = First(b)
    <2>1. 1 \in DOMAIN b
      OBVIOUS
    <2> QED
      BY <1>1, <1>5, <2>1 DEF First
  <1> HIDE DEF f, n, P, t
  <1>7. ASSUME NEW p \in P PROVE p.at = 0 \/ p = f \/ p.at > n
    <2> SUFFICES ASSUME p.at # 0, ~(p.at > n) PROVE p = f
      OBVIOUS
    <2>1. p.at \in 1 .. n /\ p.seg = b[p.at].seg /\ b[p.at].pos = 1
      BY <1>2, <1>4 DEF Piece
    <2>2. b[p.at] = [seg |-> First(b), pos |-> p.at]
      BY <1>1, <2>1
    <2>3. p.at = 1 /\ p.seg = First(b)
      BY <2>1, <2>2
    <2> QED
      BY <1>4, <1>6, <2>3 DEF Piece
  <1>8. IsFirst(f, P)
    <2>1. \A p \in P : p.at = 0 \/ p = f \/ p.at > f.at
      BY <1>2, <1>4, <1>6, <1>7 DEF Piece
    <2> QED
      BY <1>6, <2>1 DEF IsFirst
  <1>9. DOMAIN t = 1 .. Len(b) - n /\ DOMAIN b = 1 .. Len(b)
    BY <1>3
  <1>10. heads = {Moved(p, n) : p \in Old}
    <2>1. ASSUME NEW h \in heads PROVE \E p \in Old : h = Moved(p, n)
      <3>1. PICK i \in DOMAIN t : t[i].pos = 1 /\ h = [at |-> i, seg |-> t[i].seg]
        OBVIOUS
      <3> DEFINE p == [at |-> i + n, seg |-> b[i + n].seg]
      <3>2. i \in Nat /\ i > 0 /\ t[i] = b[i + n] /\ i + n \in DOMAIN b
        BY <1>2, <1>3, <1>9
      <3>3. p \in P
        BY <1>5, <3>1, <3>2
      <3>4. p.at = i + n /\ p.at > 1 /\ p.at # 0 /\ p.at - n = i
        BY <1>2, <3>2
      <3>5. p \in Old
        <4>1. p.at > 0 /\ p # f
          BY <1>2, <1>6, <3>2, <3>4
        <4> HIDE DEF p
        <4> QED
          BY <3>3, <4>1
      <3>6. h = Moved(p, n)
        BY <3>1, <3>2, <3>4 DEF Moved
      <3> QED
        BY <3>5, <3>6
    <2>2. ASSUME NEW p \in Old PROVE Moved(p, n) \in heads
      <3>1. /\ p \in P /\ p.at > n /\ p.at \in DOMAIN b
            /\ p.seg = b[p.at].seg /\ b[p.at].pos = 1
        BY <1>4, <1>7
      <3> DEFINE i == p.at - n
      <3>2. i \in DOMAIN t /\ i + n = p.at /\ p.at # 0
        BY <1>2, <1>9, <3>1
      <3>3. t[i] = b[p.at]
        BY <1>3, <1>9, <3>2
      <3>4. Moved(p, n) = [at |-> i, seg |-> t[i].seg]
        BY <3>1, <3>2, <3>3 DEF Moved
      <3> QED
        BY <3>1, <3>2, <3>3, <3>4
    <2> QED
      BY <2>1, <2>2
  <1>11. New = {Moved(p, n) : p \in New}
    BY DEF Moved
  <1>12. PiecesOf(t, H2) = heads \cup New
    BY DEF PiecesOf
  <1>13. PiecesOf(t, H2) = {Moved(p, n) : p \in Old \cup New}
    <2> HIDE DEF heads, Old, New
    <2> QED
      BY <1>10, <1>11, <1>12
  <1> QED
    BY <1>2, <1>7, <1>8, <1>13 DEF f, n, P, t

-----------------------------------------------------------------------------
(***************************************************************************)
(* The unfinished packets                                                  *)
(***************************************************************************)
LEMMA ChannelFacts ==
  /\ Control \notin Cids /\ Control # Unknown /\ Unknown \notin Channels
  /\ Control \in Channels /\ Cids \subseteq Channels
  /\ In(Control) = control_in
  /\ \A c \in Cids : In(c) = conn_in[c]
  BY SarInAssumption DEF Control, Unknown, Cids, Channels, In

LEMMA RunFacts ==
  ASSUME NEW in, NEW ch, NEW c, Run(in, ch, c), in # << >>
  PROVE  /\ Last(in) \in Segment /\ Last(in).pbf /\ Last(in).ch = ch
         /\ in[1].key = Last(in).key
         /\ in[1].idx = 1 \/ Last(in).msg \in c
         /\ {in[i].msg : i \in DOMAIN in} = {Last(in).msg}
  <1>1. in \in Seq(Segment) /\ Len(in) \in 1 .. Len(in) /\ 1 \in 1 .. Len(in)
        /\ DOMAIN in = 1 .. Len(in)
    BY DEF Run
  <1> QED
    BY <1>1 DEF Run, Last

LEMMA AppendFacts ==
  ASSUME NEW S, NEW s \in Seq(S), NEW e \in S
  PROVE  /\ Append(s, e) \in Seq(S) /\ Append(s, e) # << >>
         /\ Len(Append(s, e)) = Len(s) + 1 /\ Append(s, e)[Len(Append(s, e))] = e
         /\ \A i \in 1 .. Len(s) : Append(s, e)[i] = s[i]
  OBVIOUS

\* A packet grows by the segment that fits.
LEMMA RunGrows ==
  ASSUME NEW in, NEW ch, NEW c, Run(in, ch, c), NEW seg \in Segment, seg.ch = ch,
         in = << >> => seg.idx = 1 \/ seg.msg \in c,
         in # << >> => /\ Last(in).msg = seg.msg /\ Last(in).key = seg.key
                       /\ seg.idx = Last(in).idx + 1
  PROVE  LET r == Append(in, seg)
             n == Len(r)
         IN  /\ r \in Seq(Segment) /\ n = Len(in) + 1 /\ r # << >>
             /\ r[n] = seg /\ Last(r) = seg
             /\ \A i \in 1 .. n - 1 :
                   /\ r[i].msg = seg.msg /\ r[i].key = seg.key /\ r[i].ch = ch
                   /\ r[i].pbf /\ r[i + 1].idx = r[i].idx + 1
             /\ r[1].idx = 1 \/ seg.msg \in c
  <1> DEFINE r == Append(in, seg)
             n == Len(r)
  <1>1. in \in Seq(Segment) /\ Len(in) \in Nat
    BY DEF Run
  <1>2. /\ r \in Seq(Segment) /\ n = Len(in) + 1 /\ r # << >> /\ r[n] = seg
        /\ \A i \in 1 .. Len(in) : r[i] = in[i]
    BY <1>1, AppendFacts
  <1> HIDE DEF r, n
  <1>3. Last(r) = seg
    BY <1>2 DEF Last, n
  <1>4. ASSUME NEW i \in 1 .. Len(in)
        PROVE  /\ r[i].msg = seg.msg /\ r[i].key = seg.key /\ r[i].ch = ch
               /\ r[i].pbf /\ r[i + 1].idx = r[i].idx + 1
    <2>1. in # << >> /\ r[i] = in[i]
      BY <1>1, <1>2
    <2>2. /\ in[i].pbf /\ in[i].ch = ch
          /\ in[i].msg = Last(in).msg /\ in[i].key = Last(in).key
          /\ i < Len(in) => in[i + 1].idx = in[i].idx + 1
      BY DEF Run
    <2>3. CASE i < Len(in)
      <3>1. r[i + 1] = in[i + 1]
        BY <1>1, <1>2, <2>3
      <3> QED
        BY <2>1, <2>2, <2>3, <3>1
    <2>4. CASE i = Len(in)
      <3>1. r[i + 1] = seg /\ in[i] = Last(in)
        BY <1>1, <1>2, <2>4 DEF Last
      <3> QED
        BY <2>1, <2>2, <3>1
    <2> QED
      BY <1>1, <2>3, <2>4
  <1>5. r[1].idx = 1 \/ seg.msg \in c
    <2>1. CASE in = << >>
      BY <1>2, <2>1
    <2>2. CASE in # << >>
      <3>1. r[1] = in[1]
        BY <1>1, <1>2, <2>2
      <3> QED
        BY <2>2, <3>1 DEF Run
    <2> QED
      BY <2>1, <2>2
  <1>6. n - 1 = Len(in)
    BY <1>1, <1>2
  <1> QED
    BY <1>2, <1>3, <1>4, <1>5, <1>6 DEF r, n

\* Messages are not cut any less.
LEMMA RunCut ==
  ASSUME NEW in, NEW ch, NEW c, Run(in, ch, c), NEW c2,
         in # << >> /\ Last(in).msg \in c => Last(in).msg \in c2
  PROVE  Run(in, ch, c2)
  BY DEF Run

LEMMA RunEmpty ==
  ASSUME NEW ch, NEW c
  PROVE  Run(<< >>, ch, c)
  <1>1. << >> \in Seq(Segment)
    OBVIOUS
  <1> QED
    BY <1>1 DEF Run

LEMMA CollectedAfter ==
  ASSUME conn_in' = [c \in Cids |-> conn_in'[c]],
         \A ch \in Channels : Run(In(ch)', ch, cut'),
         packet' \in Seq(Segment)
  PROVE  Collected'
  BY DEF Collected

LEMMA HeldFacts ==
  ASSUME Collected
  PROVE  /\ Held \subseteq Segment
         /\ \A s \in Held : /\ s.ch \in Channels /\ In(s.ch) # << >>
                            /\ s = Last(In(s.ch)) /\ s.pbf
         /\ \A ch \in Channels : In(ch) # << >> => /\ Last(In(ch)) \in Held
                                                   /\ Last(In(ch)).ch = ch
         /\ Partial = {s.msg : s \in Held}
  <1>1. \A ch \in Channels : Run(In(ch), ch, cut)
    BY DEF Collected
  <1>2. ASSUME NEW ch \in Channels, In(ch) # << >>
        PROVE  /\ Last(In(ch)) \in Segment /\ Last(In(ch)).pbf
               /\ Last(In(ch)).ch = ch /\ Last(In(ch)) \in Held
               /\ {In(ch)[i].msg : i \in DOMAIN In(ch)} = {Last(In(ch)).msg}
    BY <1>1, <1>2, RunFacts DEF Held
  <1>3. ASSUME NEW s \in Held
        PROVE  /\ s.ch \in Channels /\ In(s.ch) # << >>
               /\ s = Last(In(s.ch)) /\ s.pbf /\ s \in Segment
    <2>1. PICK ch \in Channels : In(ch) # << >> /\ s = Last(In(ch))
      BY DEF Held
    <2> QED
      BY <1>2, <2>1
  <1>4. ASSUME NEW ch \in Channels, In(ch) = << >>
        PROVE  {In(ch)[i].msg : i \in DOMAIN In(ch)} = {}
    BY <1>4
  <1>5. Partial = UNION {{In(ch)[i].msg : i \in DOMAIN In(ch)} : ch \in Channels}
    <2>1. /\ In(Control) = control_in /\ \A c \in Cids : In(c) = conn_in[c]
      BY ChannelFacts
    <2> QED
      BY <2>1 DEF Partial, Channels
  <1>6. Partial \subseteq {s.msg : s \in Held}
    <2> SUFFICES ASSUME NEW m \in Partial PROVE \E s \in Held : m = s.msg
      OBVIOUS
    <2>1. PICK ch \in Channels : m \in {In(ch)[i].msg : i \in DOMAIN In(ch)}
      BY <1>5
    <2>2. In(ch) # << >>
      BY <1>4, <2>1
    <2> QED
      BY <1>2, <2>1, <2>2
  <1>7. {s.msg : s \in Held} \subseteq Partial
    <2> SUFFICES ASSUME NEW s \in Held PROVE s.msg \in Partial
      OBVIOUS
    <2>1. s.ch \in Channels /\ In(s.ch) # << >> /\ s = Last(In(s.ch))
      BY <1>3
    <2>2. s.msg \in {In(s.ch)[i].msg : i \in DOMAIN In(s.ch)}
      BY <1>2, <2>1
    <2> QED
      BY <1>5, <2>1, <2>2
  <1> QED
    BY <1>2, <1>3, <1>6, <1>7

\* The channels after a segment has been added, delivered, or forgotten
LEMMA AfterCollect ==
  ASSUME NEW ch \in Channels, NEW in, Collect(ch, in)
  PROVE  /\ \A c \in Channels : In(c)' = IF c = ch THEN in ELSE In(c)
         /\ conn_in' = [c \in Cids |-> conn_in'[c]]
  BY ChannelFacts DEF Collect, In, Channels

LEMMA AfterDeliver ==
  ASSUME NEW ch \in Channels, NEW in, NEW startOver \in BOOLEAN,
         Deliver(ch, in, startOver)
  PROVE  /\ \A c \in Channels :
              In(c)' = IF c = ch \/ startOver THEN << >> ELSE In(c)
         /\ conn_in' = [c \in Cids |-> conn_in'[c]]
  BY ChannelFacts DEF Deliver, In, Channels

LEMMA AfterForget ==
  ASSUME NEW lost, Forget(lost)
  PROVE  /\ \A c \in Channels : In(c)' = << >>
         /\ conn_in' = [c \in Cids |-> conn_in'[c]]
         /\ Held' = {}
  <1>1. /\ \A c \in Channels : In(c)' = << >>
        /\ conn_in' = [c \in Cids |-> conn_in'[c]]
    BY ChannelFacts DEF Forget, In, Channels
  <1> QED
    BY <1>1 DEF Held

-----------------------------------------------------------------------------
(***************************************************************************)
(* nci_sar_hal_handle_segment                                              *)
(***************************************************************************)
\* There is a segment to handle.
Ready ==
    /\ Framed(Stream) /\ Stream \in Seq(Byte) /\ Stream # << >>
    /\ Collected
    /\ Orderly(Pieces, open, cut, due)
    /\ PacketsAreWhole

Front == [at |-> 1, seg |-> First(Stream)]

LEMMA ReadyFacts ==
  ASSUME Ready
  PROVE  /\ First(Stream) \in Segment
         /\ Front \in Pieces /\ Front.at = 1 /\ Front.seg = First(Stream)
         /\ IsFirst(Front, Pieces) /\ Pieces \subseteq Piece
         /\ \A p \in Pieces : p.at \in Nat
         /\ \A p \in Pieces : p.at = 0 =>
               p.seg \in Held /\ p = [at |-> 0, seg |-> p.seg]
         /\ \A s \in Held : [at |-> 0, seg |-> s] \in Pieces
         /\ \A s \in Held : s.msg = First(Stream).msg => s.ch = First(Stream).ch
  <1>1. Held \subseteq Segment
    BY HeldFacts DEF Ready
  <1>2. Framed(Stream) /\ Stream \in Seq(Byte) /\ Stream # << >>
    BY DEF Ready
  <1>3. First(Stream) \in Segment
    BY <1>2, FramedFirst
  <1>4. IsFirst(Front, Pieces)
    BY <1>1, <1>2, PiecesRest DEF Pieces, Front
  <1>5. Pieces \subseteq Piece
    BY <1>1, <1>2, PiecesType DEF Pieces
  <1>6. Front \in Pieces /\ Front.at = 1 /\ Front.seg = First(Stream)
    BY <1>4 DEF IsFirst, Front
  <1>7. \A p \in Pieces : p.at = 0 => p.seg \in Held /\ p = [at |-> 0, seg |-> p.seg]
    <2>1. ASSUME NEW p \in Pieces, p.at = 0 PROVE p.seg \in Held
      BY <1>1, <1>2, <2>1, PiecesType DEF Pieces
    <2>2. ASSUME NEW p \in Pieces, p.at = 0 PROVE p = [at |-> 0, seg |-> p.seg]
      BY <1>5, <2>2 DEF Piece
    <2> QED
      BY <2>1, <2>2
  <1>8. ASSUME NEW s \in Held PROVE [at |-> 0, seg |-> s] \in Pieces
    <2> DEFINE H == Held
    <2>1. s \in H
      OBVIOUS
    <2> HIDE DEF H
    <2>2. [at |-> 0, seg |-> s] \in {[at |-> 0, seg |-> t] : t \in H}
      BY <2>1
    <2> QED
      BY <2>2 DEF Pieces, PiecesOf, H
  <1>9. ASSUME NEW s \in Held, s.msg = First(Stream).msg PROVE s.ch = First(Stream).ch
    <2> DEFINE h == [at |-> 0, seg |-> s]
    <2>1. h \in Pieces /\ h.at = 0 /\ h.seg = s /\ h # Front
      BY <1>6, <1>8
    <2> HIDE DEF h
    <2> QED
      BY <1>6, <1>9, <2>1 DEF Ready, Orderly, Ordered
  <1> QED
    BY <1>3, <1>4, <1>5, <1>6, <1>7, <1>8, <1>9 DEF Piece

\* It is enough to look at the pieces where they have been before the stream
\* has moved up.
LEMMA Shift ==
  ASSUME Ready, Stream' = Rest(Stream), Held' \subseteq Segment,
         Orderly({p \in Pieces : p # Front /\ p.at > 0}
                    \cup {[at |-> 0, seg |-> s] : s \in Held'}, open', cut', due')
  PROVE  Orderly(Pieces, open, cut, due)'
  <1> DEFINE n == Full(First(Stream))
             Q == {p \in Pieces : p # Front /\ p.at > 0}
                     \cup {[at |-> 0, seg |-> s] : s \in Held'}
  <1>1. Held \subseteq Segment
    BY HeldFacts DEF Ready
  <1>2. /\ n \in Nat
        /\ \A p \in Pieces : p.at = 0 \/ p = Front \/ p.at > n
        /\ PiecesOf(Rest(Stream), Held') = {Moved(p, n) : p \in Q}
    BY <1>1, PiecesRest DEF Ready, Pieces, Front
  <1>3. Q \subseteq Piece
    BY ReadyFacts DEF Piece
  <1>4. \A p \in Q : p.at = 0 \/ p.at > n
    BY <1>2
  <1>5. Pieces' = PiecesOf(Stream', Held')
    BY DEF Pieces, PiecesOf
  <1>6. Pieces' = {Moved(p, n) : p \in Q}
    BY <1>2, <1>5
  <1> HIDE DEF n, Q
  <1>7. Orderly({Moved(p, n) : p \in Q}, open', cut', due')
    <2>1. Orderly(Q, open', cut', due')
      BY DEF Q
    <2> QED
      BY <1>2, <1>3, <1>4, <2>1, OrderlyMove
  <1> QED
    BY <1>6, <1>7

LEMMA WholeStays ==
  ASSUME PacketsAreWhole, packet' = packet,
         \A i \in DOMAIN packet : packet[i].msg \in cut => packet[i].msg \in cut',
         packet \in Seq(Segment)
  PROVE  PacketsAreWhole'
  <1>1. packet # << >> => Len(packet) \in DOMAIN packet
    OBVIOUS
  <1> QED
    BY <1>1 DEF PacketsAreWhole

\* A segment that nobody expects is skipped. It is a message of its own.
LEMMA ErrorKeeps ==
  ASSUME Ready, Stream' = Rest(Stream), open' = open,
         NEW startOver \in BOOLEAN, Error(startOver),
         ~First(Stream).pbf,
         First(Stream).ch \in Channels => First(Stream).msg \notin due,
         \A s \in Held : s.msg # First(Stream).msg
  PROVE  Collected' /\ Orderly(Pieces, open, cut, due)' /\ PacketsAreWhole'
  <1> DEFINE P == Pieces
             Q == {p \in P : p # Front /\ ~(p.at = 0 /\ p.seg.msg = Front.seg.msg)}
  <1>1. /\ Front \in P /\ Front.at = 1 /\ Front.seg = First(Stream)
        /\ IsFirst(Front, P) /\ P \subseteq Piece
        /\ \A p \in P : p.at \in Nat
        /\ \A p \in P : p.at = 0 => p.seg \in Held /\ p = [at |-> 0, seg |-> p.seg]
        /\ \A s \in Held : [at |-> 0, seg |-> s] \in P
    BY ReadyFacts
  <1>2. /\ Held \subseteq Segment /\ Partial = {s.msg : s \in Held}
    BY HeldFacts DEF Ready
  <1>3. Orderly(P, open, cut, due) /\ Collected /\ PacketsAreWhole
    BY DEF Ready
  <1>4. Q = {p \in P : p # Front}
    BY <1>1
  <1>5. Orderly(Q, open, cut, due)
    <2> HIDE DEF P
    <2> QED
      BY <1>1, <1>3, OrderlyTake
  <1>6. Q \subseteq Piece
    BY <1>1
  <1>7. packet' = packet /\ cut \subseteq cut' /\ packet \in Seq(Segment)
    BY <1>3 DEF Error, Forget, Collected
  <1>8. PacketsAreWhole'
    BY <1>3, <1>7, WholeStays
  <1>9. CASE startOver
    <2>1. /\ Forget(Partial)
          /\ Held' = {} /\ conn_in' = [c \in Cids |-> conn_in'[c]]
          /\ \A c \in Channels : In(c)' = << >>
      BY <1>9, AfterForget DEF Error
    <2>2. Collected'
      BY <1>7, <2>1, CollectedAfter, RunEmpty
    <2>3. Orderly({p \in Q : p.at > 0}, open, cut', due')
      <3>1. due' \subseteq due
        BY <2>1 DEF Forget
      <3>2. \A p \in Q : p.at = 0 => p.seg.msg \in cut'
        BY <1>1, <1>2, <2>1 DEF Forget
      <3> HIDE DEF Q
      <3> QED
        BY <1>5, <1>6, <1>7, <3>1, <3>2, OrderlyForget
    <2>4. {p \in Q : p.at > 0}
            = {p \in P : p # Front /\ p.at > 0} \cup {[at |-> 0, seg |-> s] : s \in Held'}
      BY <1>4, <2>1
    <2>5. Orderly(Pieces, open, cut, due)'
      BY <2>1, <2>3, <2>4, Shift
    <2> QED
      BY <1>8, <2>2, <2>5
  <1>10. CASE ~startOver
    <2>1. /\ control_in' = control_in /\ conn_in' = conn_in
          /\ cut' = cut /\ due' = due
      BY <1>10 DEF Error
    <2>2. /\ \A c \in Channels : In(c)' = In(c)
          /\ Held' = Held
      BY <2>1 DEF In, Held
    <2>3. Collected'
      BY <1>3, <1>7, <2>1, <2>2 DEF Collected
    <2>4. Q = {p \in P : p # Front /\ p.at > 0}
                \cup {[at |-> 0, seg |-> s] : s \in Held'}
      <3> DEFINE H == {[at |-> 0, seg |-> s] : s \in Held}
      <3>1. \A p \in P : p.at = 0 <=> p \in H
        BY <1>1
      <3>2. H \subseteq P /\ Front \notin H
        BY <1>1
      <3> HIDE DEF H, P
      <3>3. {p \in P : p # Front} = {p \in P : p # Front /\ p.at > 0} \cup H
        BY <1>1, <3>1, <3>2
      <3> QED
        BY <1>4, <2>2, <3>3 DEF H
    <2>5. Orderly(Pieces, open, cut, due)'
      BY <1>2, <1>5, <2>1, <2>2, <2>4, Shift
    <2> QED
      BY <1>8, <2>3, <2>5
  <1> QED
    BY <1>9, <1>10

\* The segment goes on with the unfinished packet of its channel.
Fits ==
    LET seg == First(Stream)
        in == In(seg.ch)
    IN  /\ in = << >> => seg.idx = 1 \/ seg.msg \in cut
        /\ in # << >> => /\ Last(in).msg = seg.msg /\ Last(in).key = seg.key
                         /\ seg.idx = Last(in).idx + 1

LEMMA FitsFacts ==
  ASSUME Ready, NEW ch \in Channels, ch = First(Stream).ch,
         ch = Control /\ control_in # << >> => control_in[1].key = First(Stream).key
  PROVE  Fits
  <1> DEFINE P == Pieces
             seg == First(Stream)
  <1>1. /\ Front \in P /\ Front.at = 1 /\ Front.seg = seg
        /\ IsFirst(Front, P) /\ P \subseteq Piece
        /\ \A p \in P : p.at = 0 => p.seg \in Held
        /\ \A s \in Held : [at |-> 0, seg |-> s] \in P
    BY ReadyFacts
  <1>2. /\ \A s \in Held : In(s.ch) # << >>
        /\ In(ch) # << >> => Last(In(ch)) \in Held /\ Last(In(ch)).ch = ch
    BY HeldFacts DEF Ready
  <1>3. Orderly(P, open, cut, due) /\ Run(In(ch), ch, cut)
    BY DEF Ready, Collected
  <1> HIDE DEF P, seg
  <1>4. CASE In(ch) = << >>
    <2>1. \A h \in P : h.at = 0 => h.seg.ch # Front.seg.ch
      BY <1>1, <1>2, <1>4 DEF seg
    <2>2. seg.idx = 1 \/ seg.msg \in cut
      BY <1>1, <1>3, <2>1, FirstBegins
    <2> QED
      BY <1>4, <2>2 DEF Fits, seg
  <1>5. CASE In(ch) # << >>
    <2> DEFINE h == [at |-> 0, seg |-> Last(In(ch))]
    <2>1. h \in P /\ h.at = 0 /\ h.seg = Last(In(ch)) /\ h.seg.ch = Front.seg.ch
      BY <1>1, <1>2, <1>5 DEF seg
    <2>2. In(ch)[1].key = Last(In(ch)).key
      BY <1>3, <1>5, RunFacts
    <2> HIDE DEF h
    <2>3. \/ /\ h.seg.msg = Front.seg.msg /\ h.seg.key = Front.seg.key
             /\ Front.seg.idx = h.seg.idx + 1
          \/ h.seg.msg # Front.seg.msg /\ Intruder(Front.seg, h.seg, due)
      BY <1>1, <1>3, <2>1, FirstFits
    <2>4. ~Intruder(Front.seg, h.seg, due)
      <3> SUFFICES ASSUME ch = Control PROVE Front.seg.key = h.seg.key
        BY <1>1 DEF Intruder, seg
      <3>1. In(ch) = control_in
        BY ChannelFacts
      <3> QED
        BY <1>1, <1>5, <2>1, <2>2, <3>1 DEF seg
    <2> QED
      BY <1>1, <1>5, <2>1, <2>3, <2>4 DEF Fits, seg
  <1> QED
    BY <1>4, <1>5

LEMMA CollectKeeps ==
  ASSUME Ready, Stream' = Rest(Stream), open' = open, Fits,
         NEW ch \in Channels, ch = First(Stream).ch, First(Stream).pbf,
         Collect(ch, Append(In(ch), First(Stream)))
  PROVE  Collected' /\ Orderly(Pieces, open, cut, due)' /\ PacketsAreWhole'
  <1> DEFINE P == Pieces
             seg == First(Stream)
             r == Append(In(ch), seg)
             Q == {p \in P : p # Front /\ ~(p.at = 0 /\ p.seg.ch = Front.seg.ch)}
                     \cup {[at |-> 0, seg |-> Front.seg]}
  <1>1. /\ Front \in P /\ Front.at = 1 /\ Front.seg = seg /\ seg \in Segment
        /\ IsFirst(Front, P) /\ P \subseteq Piece
        /\ \A p \in P : p.at \in Nat
        /\ \A p \in P : p.at = 0 => p.seg \in Held /\ p = [at |-> 0, seg |-> p.seg]
        /\ \A s \in Held : [at |-> 0, seg |-> s] \in P
    BY ReadyFacts
  <1>2. /\ Held \subseteq Segment
        /\ \A s \in Held : s.ch \in Channels /\ In(s.ch) # << >> /\ s = Last(In(s.ch))
        /\ \A c \in Channels : In(c) # << >> => Last(In(c)) \in Held /\ Last(In(c)).ch = c
    BY HeldFacts DEF Ready
  <1>3. /\ Orderly(P, open, cut, due) /\ Collected /\ PacketsAreWhole
        /\ Run(In(ch), ch, cut) /\ \A c \in Channels : Run(In(c), c, cut)
    BY DEF Ready, Collected
  <1>4. /\ \A c \in Channels : In(c)' = IF c = ch THEN r ELSE In(c)
        /\ conn_in' = [c \in Cids |-> conn_in'[c]]
        /\ due' = due /\ cut' = cut /\ packet' = packet
    <2>1. due' = due /\ cut' = cut /\ packet' = packet
      BY DEF Collect
    <2> QED
      BY <2>1, AfterCollect
  <1>5. /\ In(ch) = << >> => seg.idx = 1 \/ seg.msg \in cut
        /\ In(ch) # << >> => /\ Last(In(ch)).msg = seg.msg /\ Last(In(ch)).key = seg.key
                             /\ seg.idx = Last(In(ch)).idx + 1
    BY DEF Fits
  <1>6. /\ r \in Seq(Segment) /\ r # << >> /\ Last(r) = seg /\ r[Len(r)] = seg
        /\ \A i \in 1 .. Len(r) - 1 :
              /\ r[i].msg = seg.msg /\ r[i].key = seg.key /\ r[i].ch = ch
              /\ r[i].pbf /\ r[i + 1].idx = r[i].idx + 1
        /\ r[1].idx = 1 \/ seg.msg \in cut
    <2> HIDE DEF seg
    <2>1. seg.ch = ch
      BY DEF seg
    <2> QED
      BY <1>1, <1>3, <1>5, <2>1, RunGrows
  <1>7. seg.pbf /\ seg.ch = ch
    OBVIOUS
  <1> HIDE DEF seg, r
  <1>8. Run(r, ch, cut)
    <2>1. \A i \in 1 .. Len(r) : i = Len(r) \/ i \in 1 .. Len(r) - 1
      BY <1>6
    <2>2. ASSUME NEW i \in 1 .. Len(r)
          PROVE  /\ r[i].pbf /\ r[i].ch = ch
                 /\ r[i].msg = Last(r).msg /\ r[i].key = Last(r).key
                 /\ i < Len(r) => r[i + 1].idx = r[i].idx + 1
      BY <1>6, <1>7, <2>1
    <2> QED
      BY <1>6, <2>2 DEF Run
  <1>9. Collected'
    <2>1. packet' \in Seq(Segment)
      BY <1>3, <1>4 DEF Collected
    <2>2. ASSUME NEW c \in Channels PROVE Run(In(c)', c, cut')
      BY <1>3, <1>4, <1>8
    <2> QED
      BY <1>4, <2>1, <2>2, CollectedAfter
  <1>10. PacketsAreWhole'
    BY <1>3, <1>4 DEF PacketsAreWhole
  <1>11. Orderly(Q, open, cut, due)
    <2>1. \A h \in P : h.at = 0 /\ h.seg.ch = Front.seg.ch => h.seg.msg = Front.seg.msg
      BY <1>1, <1>2, <1>5, <1>7
    <2>2. Front.seg.pbf
      BY <1>1, <1>7
    <2> HIDE DEF P
    <2> QED
      BY <1>1, <1>3, <2>1, <2>2, OrderlyCollect
  <1>12. Held' = {s \in Held : s.ch # ch} \cup {seg}
    <2>1. Held' = {Last(In(c)') : c \in {c \in Channels : In(c)' # << >>}}
      BY DEF Held
    <2>2. ASSUME NEW s \in Held' PROVE s = seg \/ (s \in Held /\ s.ch # ch)
      <3>1. PICK c \in Channels : In(c)' # << >> /\ s = Last(In(c)')
        BY <2>1
      <3> QED
        BY <1>2, <1>4, <1>6, <3>1
    <2>3. seg \in Held'
      BY <1>4, <1>6, <2>1
    <2>4. ASSUME NEW s \in Held, s.ch # ch PROVE s \in Held'
      BY <1>2, <1>4, <2>1, <2>4
    <2> QED
      BY <2>2, <2>3, <2>4
  <1>13. Q = {p \in P : p # Front /\ p.at > 0}
                \cup {[at |-> 0, seg |-> s] : s \in Held'}
    <2> DEFINE H == {[at |-> 0, seg |-> s] : s \in Held'}
               R == {p \in P : p # Front /\ p.at > 0} \cup H
               K == Held'
    <2>1. K = {s \in Held : s.ch # ch} \cup {seg} /\ H = {[at |-> 0, seg |-> s] : s \in K}
      BY <1>12
    <2> HIDE DEF K, H
    <2>2. ASSUME NEW p \in Q PROVE p \in R
      <3>1. CASE p \in P /\ p # Front /\ ~(p.at = 0 /\ p.seg.ch = Front.seg.ch)
        <4>1. CASE p.at = 0
          <5>1. p.seg \in K /\ p = [at |-> 0, seg |-> p.seg]
            BY <1>1, <1>7, <2>1, <3>1, <4>1
          <5> QED
            BY <2>1, <5>1
        <4>2. CASE p.at # 0
          BY <1>1, <3>1, <4>2
        <4> QED
          BY <4>1, <4>2
      <3>2. CASE p = [at |-> 0, seg |-> Front.seg]
        BY <1>1, <2>1, <3>2
      <3> QED
        BY <3>1, <3>2
    <2>3. ASSUME NEW p \in R PROVE p \in Q
      <3>1. CASE p \in P /\ p # Front /\ p.at > 0
        BY <3>1
      <3>2. CASE p \in H
        <4>1. PICK s \in K : p = [at |-> 0, seg |-> s]
          BY <2>1, <3>2
        <4>2. CASE s = seg
          BY <1>1, <4>1, <4>2
        <4>3. CASE s \in Held /\ s.ch # ch
          <5>1. p \in P /\ p.at = 0 /\ p.seg = s
            BY <1>1, <4>1, <4>3
          <5>2. p # Front /\ p.seg.ch # Front.seg.ch
            BY <1>1, <1>7, <4>3, <5>1
          <5> QED
            BY <5>1, <5>2
        <4> QED
          BY <2>1, <4>2, <4>3
      <3> QED
        BY <3>1, <3>2
    <2> QED
      BY <2>2, <2>3 DEF H
  <1>14. Held' \subseteq Segment
    BY <1>1, <1>2, <1>12
  <1>15. Orderly(Pieces, open, cut, due)'
    BY <1>4, <1>11, <1>13, <1>14, Shift
  <1> QED
    BY <1>9, <1>10, <1>15

LEMMA DeliverKeeps ==
  ASSUME Ready, Stream' = Rest(Stream), open' = open, Fits,
         NEW ch \in Channels, ch = First(Stream).ch, ~First(Stream).pbf,
         NEW startOver \in BOOLEAN,
         Deliver(ch, Append(In(ch), First(Stream)), startOver)
  PROVE  Collected' /\ Orderly(Pieces, open, cut, due)' /\ PacketsAreWhole'
  <1> DEFINE P == Pieces
             seg == First(Stream)
             r == Append(In(ch), seg)
             lost == IF startOver THEN Partial \ {seg.msg} ELSE {}
             Q == {p \in P : p # Front /\ ~(p.at = 0 /\ p.seg.msg = Front.seg.msg)}
  <1>1. /\ Front \in P /\ Front.at = 1 /\ Front.seg = seg /\ seg \in Segment
        /\ IsFirst(Front, P) /\ P \subseteq Piece
        /\ \A p \in P : p.at \in Nat
        /\ \A p \in P : p.at = 0 => p.seg \in Held /\ p = [at |-> 0, seg |-> p.seg]
        /\ \A s \in Held : [at |-> 0, seg |-> s] \in P
        /\ \A s \in Held : s.msg = seg.msg => s.ch = seg.ch
    BY ReadyFacts
  <1>2. /\ Held \subseteq Segment /\ Partial = {s.msg : s \in Held}
        /\ \A s \in Held : s.ch \in Channels /\ In(s.ch) # << >> /\ s = Last(In(s.ch))
        /\ \A c \in Channels : In(c) # << >> => Last(In(c)) \in Held /\ Last(In(c)).ch = c
    BY HeldFacts DEF Ready
  <1>3. /\ Orderly(P, open, cut, due) /\ Collected /\ PacketsAreWhole
        /\ Run(In(ch), ch, cut) /\ \A c \in Channels : Run(In(c), c, cut)
    BY DEF Ready, Collected
  <1>4. /\ In(ch) = << >> => seg.idx = 1 \/ seg.msg \in cut
        /\ In(ch) # << >> => /\ Last(In(ch)).msg = seg.msg /\ Last(In(ch)).key = seg.key
                             /\ seg.idx = Last(In(ch)).idx + 1
    BY DEF Fits
  <1>5. /\ r \in Seq(Segment) /\ r # << >> /\ r[Len(r)] = seg
        /\ \A i \in 1 .. Len(r) - 1 :
              r[i].msg = seg.msg /\ r[i].pbf /\ r[i + 1].idx = r[i].idx + 1
        /\ r[1].idx = 1 \/ seg.msg \in cut
    <2> HIDE DEF seg
    <2>1. seg.ch = ch
      BY DEF seg
    <2> QED
      BY <1>1, <1>3, <1>4, <2>1, RunGrows
  <1>6. /\ \A c \in Channels : In(c)' = IF c = ch \/ startOver THEN << >> ELSE In(c)
        /\ conn_in' = [c \in Cids |-> conn_in'[c]]
    BY AfterDeliver
  <1>7. /\ packet' = r /\ cut' = cut \cup lost
        /\ due' = due \ (lost \cup {seg.msg})
    BY <1>5 DEF Deliver
  <1>8. ~seg.pbf /\ seg.ch = ch
    OBVIOUS
  <1> HIDE DEF seg, r, lost
  <1>9. PacketsAreWhole'
    BY <1>5, <1>7, <1>8 DEF PacketsAreWhole
  <1>10. Collected'
    <2>1. packet' \in Seq(Segment)
      BY <1>5, <1>7
    <2>2. ASSUME NEW c \in Channels PROVE Run(In(c)', c, cut')
      <3>1. CASE c = ch \/ startOver
        BY <1>6, <3>1, RunEmpty
      <3>2. CASE ~(c = ch \/ startOver)
        <4>1. In(c)' = In(c) /\ Run(In(c), c, cut) /\ cut \subseteq cut'
          BY <1>3, <1>6, <1>7, <3>2
        <4>2. Run(In(c), c, cut')
          BY <4>1, RunCut
        <4> QED
          BY <4>1, <4>2
      <3> QED
        BY <3>1, <3>2
    <2> QED
      BY <1>6, <2>1, <2>2, CollectedAfter
  <1>11. Q \subseteq Piece
    BY <1>1
  <1>12. Orderly(Q, open, cut, due \ {seg.msg})
    <2>1. /\ due \ {seg.msg} \subseteq due
          /\ Front.seg.msg \notin due \ {seg.msg} /\ ~Front.seg.pbf
      BY <1>1, <1>8
    <2> HIDE DEF P
    <2> QED
      BY <1>1, <1>3, <2>1, OrderlyTake
  \* A packet of the channel is one of the same message.
  <1>13. \A s \in Held : s.ch = ch <=> s.msg = seg.msg
    BY <1>1, <1>2, <1>4, <1>8
  <1>14. CASE startOver
    <2>1. Held' = {}
      BY <1>6, <1>14 DEF Held
    <2>2. Orderly({p \in Q : p.at > 0}, open, cut', due')
      <3>1. due' \subseteq due \ {seg.msg} /\ cut \subseteq cut'
        BY <1>7
      <3>2. \A p \in Q : p.at = 0 => p.seg.msg \in cut'
        BY <1>1, <1>2, <1>7, <1>14 DEF lost
      <3> HIDE DEF Q
      <3> QED
        BY <1>11, <1>12, <3>1, <3>2, OrderlyForget
    <2>3. {p \in Q : p.at > 0}
            = {p \in P : p # Front /\ p.at > 0} \cup {[at |-> 0, seg |-> s] : s \in Held'}
      BY <1>1, <2>1
    <2>4. Orderly(Pieces, open, cut, due)'
      BY <2>1, <2>2, <2>3, Shift
    <2> QED
      BY <1>9, <1>10, <2>4
  <1>15. CASE ~startOver
    <2>1. cut' = cut /\ due' = due \ {seg.msg}
      BY <1>7, <1>15 DEF lost
    <2>2. Held' = {s \in Held : s.msg # seg.msg}
      <3>1. Held' = {Last(In(c)') : c \in {c \in Channels : In(c)' # << >>}}
        BY DEF Held
      <3>2. ASSUME NEW s \in Held' PROVE s \in Held /\ s.ch # ch
        <4>1. PICK c \in Channels : In(c)' # << >> /\ s = Last(In(c)')
          BY <3>1
        <4>2. c # ch /\ In(c)' = In(c)
          BY <1>6, <1>15, <4>1
        <4> QED
          BY <1>2, <4>1, <4>2
      <3>3. ASSUME NEW s \in Held, s.ch # ch PROVE s \in Held'
        <4>1. In(s.ch)' = In(s.ch) /\ In(s.ch) # << >> /\ s = Last(In(s.ch)) /\ s.ch \in Channels
          BY <1>2, <1>6, <1>15, <3>3
        <4> QED
          BY <3>1, <4>1
      <3> QED
        BY <1>13, <3>2, <3>3
    <2>3. Q = {p \in P : p # Front /\ p.at > 0}
                 \cup {[at |-> 0, seg |-> s] : s \in Held'}
      <3> DEFINE K == Held'
                 H == {[at |-> 0, seg |-> s] : s \in K}
      <3>1. \A s : s \in K <=> s \in Held /\ s.msg # seg.msg
        BY <2>2
      <3> HIDE DEF K
      <3>2. ASSUME NEW p \in P, p.at = 0, p.seg.msg # seg.msg PROVE p \in H
        BY <1>1, <3>1, <3>2
      <3>3. ASSUME NEW p \in H
            PROVE  p \in P /\ p # Front /\ p.at = 0 /\ p.seg.msg # seg.msg
        <4>1. PICK s \in K : p = [at |-> 0, seg |-> s]
          OBVIOUS
        <4>2. p.at = 0 /\ p.seg = s
          BY <4>1
        <4> QED
          BY <1>1, <3>1, <4>1, <4>2
      <3> HIDE DEF H
      <3>4. Q = {p \in P : p # Front /\ p.at > 0} \cup H
        BY <1>1, <3>2, <3>3
      <3> QED
        BY <3>4 DEF H, K
    <2>4. Held' \subseteq Segment
      BY <1>2, <2>2
    <2>5. Orderly(Pieces, open, cut, due)'
      BY <1>12, <2>1, <2>3, <2>4, Shift
    <2> QED
      BY <1>9, <1>10, <2>5
  <1> QED
    BY <1>14, <1>15

\* A segment has been handled.
LEMMA Handled ==
  ASSUME Ready, Stream' = Rest(Stream), open' = open,
         NEW startOver \in BOOLEAN, HandleSegment(First(Stream), startOver)
  PROVE  Collected' /\ Orderly(Pieces, open, cut, due)' /\ PacketsAreWhole'
  <1> DEFINE seg == First(Stream)
  <1>1. /\ seg \in Segment /\ Front \in Pieces /\ Front.at = 1 /\ Front.seg = seg
        /\ IsFirst(Front, Pieces) /\ Pieces \subseteq Piece
        /\ \A s \in Held : [at |-> 0, seg |-> s] \in Pieces
        /\ \A s \in Held : s.msg = seg.msg => s.ch = seg.ch
    BY ReadyFacts
  <1>2. /\ \A s \in Held : s.ch \in Channels /\ In(s.ch) # << >> /\ s = Last(In(s.ch))
        /\ \A c \in Channels : In(c) # << >> => Last(In(c)) \in Held /\ Last(In(c)).ch = c
        /\ Orderly(Pieces, open, cut, due)
        /\ Run(In(Control), Control, cut)
    BY HeldFacts, ChannelFacts DEF Ready, Collected
  <1>3. seg.ch \in Channels \cup {Unknown} /\ seg.pbf \in BOOLEAN
    BY <1>1, SegmentType
  <1>4. CASE seg.ch = Control
    <2>1. In(Control) = control_in /\ Control \in Channels
      BY ChannelFacts
    <2>2. HandleControlSegment(seg, startOver)
      BY <1>4 DEF HandleSegment
    <2>3. CASE control_in # << >> /\ control_in[1].key # seg.key /\ Error(startOver)
      <3> DEFINE h == [at |-> 0, seg |-> Last(control_in)]
      <3>1. h \in Pieces /\ h.at = 0 /\ h.seg = Last(control_in) /\ h.seg.ch = Front.seg.ch
        BY <1>1, <1>2, <1>4, <2>1, <2>3
      <3>2. h.seg.key # seg.key
        BY <1>2, <2>1, <2>3, <3>1, RunFacts
      <3> HIDE DEF h
      <3>3. h.seg.msg # seg.msg /\ Intruder(seg, h.seg, due)
        BY <1>1, <1>2, <3>1, <3>2, FirstFits
      <3>4. \A s \in Held : s.msg # seg.msg
        <4> SUFFICES ASSUME NEW s \in Held, s.msg = seg.msg PROVE FALSE
          OBVIOUS
        <4>1. s = Last(control_in)
          BY <1>1, <1>2, <1>4, <2>1
        <4> QED
          BY <3>1, <3>3, <4>1
      <3>5. ~seg.pbf /\ seg.msg \notin due
        BY <3>3 DEF Intruder
      <3> QED
        BY <2>3, <3>4, <3>5, ErrorKeeps
    <2>4. CASE /\ control_in # << >> => control_in[1].key = seg.key
               /\ IF seg.pbf
                  THEN ~startOver /\ Collect(Control, Append(control_in, seg))
                  ELSE Deliver(Control, Append(control_in, seg), startOver)
      <3>1. Fits
        BY <1>4, <2>1, <2>4, FitsFacts
      <3>2. CASE seg.pbf
        BY <1>4, <2>1, <2>4, <3>1, <3>2, CollectKeeps
      <3>3. CASE ~seg.pbf
        BY <1>4, <2>1, <2>4, <3>1, <3>3, DeliverKeeps
      <3> QED
        BY <3>2, <3>3
    <2> QED
      BY <2>2, <2>3, <2>4 DEF HandleControlSegment
  <1>5. CASE seg.ch # Control
    <2>1. HandleDataSegment(seg, startOver)
      BY <1>5 DEF HandleSegment
    <2>2. CASE seg.ch = Unknown /\ Error(startOver)
      <3>1. Unknown \notin Channels
        BY ChannelFacts
      <3>2. ~seg.pbf
        BY <1>1, <1>2, <2>2, <3>1 DEF Orderly, HeldOnce
      <3>3. \A s \in Held : s.msg # seg.msg
        BY <1>1, <1>2, <2>2, <3>1
      <3> QED
        BY <2>2, <3>1, <3>2, <3>3, ErrorKeeps
    <2>3. CASE seg.ch \in Cids
      <3>1. In(seg.ch) = conn_in[seg.ch] /\ seg.ch \in Channels /\ seg.ch # Unknown
        BY <2>3, ChannelFacts
      <3>2. Fits
        BY <1>5, <3>1, FitsFacts
      <3>3. IF seg.pbf THEN ~startOver /\ Collect(seg.ch, Append(conn_in[seg.ch], seg))
            ELSE Deliver(seg.ch, Append(conn_in[seg.ch], seg), startOver)
        BY <2>1, <3>1 DEF HandleDataSegment
      <3>4. CASE seg.pbf
        BY <3>1, <3>2, <3>3, <3>4, CollectKeeps
      <3>5. CASE ~seg.pbf
        BY <3>1, <3>2, <3>3, <3>5, DeliverKeeps
      <3> QED
        BY <3>4, <3>5
    <2> QED
      BY <2>1, <2>2, <2>3 DEF HandleDataSegment
  <1> QED
    BY <1>4, <1>5

-----------------------------------------------------------------------------
(***************************************************************************)
(* The borders in the stream                                               *)
(***************************************************************************)
LEMMA StreamFacts ==
  ASSUME Parsing
  PROVE  /\ Buffer \in Seq(Byte) /\ Stream \in Seq(Byte)
         /\ Len(Stream) = Len(Buffer) + Len(wire)
         /\ \A i \in 1 .. Len(Buffer) : Stream[i] = Buffer[i]
         /\ \A i \in 1 .. Len(wire) : Stream[Len(Buffer) + i] = wire[i]
         /\ Buffer = << >> => Stream = wire
  <1>1. Buffer \in Seq(Byte) /\ wire \in Seq(Byte)
    BY DEF Parsing, Buffer
  <1> HIDE DEF Buffer
  <1>2. Buffer = << >> => Stream = wire
    BY <1>1, ConcatEmptySeq DEF Stream
  <1> QED
    BY <1>1, <1>2, ConcatFacts DEF Stream

\* Whatever is parsed begins with the first byte of the stream.
LEMMA BufferBegins ==
  ASSUME Parsing, Framed(Stream), Buffer # << >>
  PROVE  /\ Stream # << >> /\ First(Buffer) = First(Stream)
         /\ Buffer[1].pos = 1
  <1>1. /\ Buffer \in Seq(Byte) /\ Stream \in Seq(Byte)
        /\ Len(Stream) = Len(Buffer) + Len(wire)
        /\ \A i \in 1 .. Len(Buffer) : Stream[i] = Buffer[i]
    BY StreamFacts
  <1>2. Len(wire) \in Nat
    BY DEF Parsing
  <1> HIDE DEF Buffer, Stream
  <1>3. 1 \in 1 .. Len(Buffer) /\ Len(Stream) > 0
    BY <1>1, <1>2
  <1>4. Stream # << >> /\ Stream[1] = Buffer[1]
    BY <1>1, <1>3
  <1>5. Stream[1].pos = 1
    BY <1>1, <1>4, FramedFirst
  <1> QED
    BY <1>4, <1>5 DEF First

LEMMA SuffixFacts ==
  ASSUME NEW S, NEW a \in Seq(S), NEW n \in Nat, n <= Len(a)
  PROVE  LET r == SubSeq(a, n + 1, Len(a))
         IN  /\ r \in Seq(S) /\ Len(r) = Len(a) - n
             /\ \A i \in 1 .. Len(a) - n : r[i] = a[n + i]
  <1> DEFINE r == SubSeq(a, n + 1, Len(a))
             l == Len(a)
  <1>1. /\ n + 1 \in Int /\ l \in Int /\ n + 1 > 0
    OBVIOUS
  <1>2. \A i \in n + 1 .. l : a[i] \in S
    BY <1>1
  <1>3. /\ r \in Seq(S) /\ Len(r) = IF n + 1 <= l THEN l - (n + 1) + 1 ELSE 0
        /\ \A i \in 1 .. l - (n + 1) + 1 : r[i] = a[n + 1 + i - 1]
    <2> HIDE DEF l
    <2>1. r = SubSeq(a, n + 1, l)
      BY DEF l
    <2> HIDE DEF r
    <2> QED
      BY <1>1, <1>2, <2>1, SubSeqProperties
  <1> HIDE DEF r
  <1>4. \A i \in 1 .. l - n : n + 1 + i - 1 = n + i
    OBVIOUS
  <1>5. l - (n + 1) + 1 = l - n
    OBVIOUS
  <1>6. Len(r) = l - n
    BY <1>3
  <1>7. \A i \in 1 .. l - n : r[i] = a[n + i]
    <2>1. ASSUME NEW i \in 1 .. l - n PROVE r[i] = a[n + i]
      <3>1. i \in 1 .. l - (n + 1) + 1
        BY <1>5
      <3>2. r[i] = a[n + 1 + i - 1]
        BY <1>3, <3>1, Zenon
      <3> QED
        BY <1>4, <3>2
    <2> QED
      BY <2>1
  <1>8. r \in Seq(S)
    BY <1>3
  <1> QED
    BY <1>6, <1>7, <1>8 DEF r

LEMMA SuffixConcat ==
  ASSUME NEW S, NEW a \in Seq(S), NEW b \in Seq(S), NEW n \in Nat, n <= Len(a)
  PROVE  /\ SubSeq(a, n + 1, Len(a)) \in Seq(S)
         /\ SubSeq(a, n + 1, Len(a)) \o b = SubSeq(a \o b, n + 1, Len(a \o b))
  <1> DEFINE r == SubSeq(a, n + 1, Len(a))
             w == a \o b
             t == SubSeq(w, n + 1, Len(w))
             x == r \o b
  <1>1. /\ r \in Seq(S) /\ Len(r) = Len(a) - n
        /\ \A i \in 1 .. Len(a) - n : r[i] = a[n + i]
    BY SuffixFacts
  <1>2. /\ w \in Seq(S) /\ Len(w) = Len(a) + Len(b)
        /\ \A i \in 1 .. Len(a) : w[i] = a[i]
        /\ \A k \in 1 .. Len(b) : w[Len(a) + k] = b[k]
    BY ConcatFacts
  <1>3. Len(a) \in Nat /\ Len(b) \in Nat
    OBVIOUS
  <1> HIDE DEF r, w
  <1>4. n <= Len(w)
    BY <1>2, <1>3
  <1>5. /\ t \in Seq(S) /\ Len(t) = Len(w) - n
        /\ \A i \in 1 .. Len(w) - n : t[i] = w[n + i]
    BY <1>2, <1>4, SuffixFacts
  <1>6. /\ x \in Seq(S) /\ Len(x) = Len(r) + Len(b)
        /\ \A i \in 1 .. Len(r) : x[i] = r[i]
        /\ \A k \in 1 .. Len(b) : x[Len(r) + k] = b[k]
    <2>1. r \in Seq(S) /\ b \in Seq(S)
      BY <1>1
    <2> QED
      BY <2>1, ConcatFacts
  <1> HIDE DEF t, x
  <1>7. Len(x) = Len(t) /\ Len(x) = Len(w) - n
    <2>1. /\ Len(r) = Len(a) - n /\ Len(w) = Len(a) + Len(b)
          /\ Len(t) = Len(w) - n /\ Len(x) = Len(r) + Len(b)
      BY <1>1, <1>2, <1>5, <1>6
    <2> QED
      BY <1>3, <2>1
  <1>8. ASSUME NEW i \in 1 .. Len(x) PROVE x[i] = t[i]
    <2>1. i \in Nat /\ i >= 1 /\ i <= Len(a) - n + Len(b)
      BY <1>1, <1>3, <1>6
    <2>2. t[i] = w[n + i]
      BY <1>5, <1>7
    <2>3. CASE i <= Len(a) - n
      <3>1. i \in 1 .. Len(a) - n /\ n + i \in 1 .. Len(a)
        BY <1>3, <2>1, <2>3
      <3>2. x[i] = r[i]
        BY <1>1, <1>6, <3>1
      <3> QED
        BY <1>1, <1>2, <2>2, <3>1, <3>2
    <2>4. CASE i > Len(a) - n
      <3> DEFINE k == i - (Len(a) - n)
      <3>1. /\ k \in 1 .. Len(b) /\ i = Len(a) - n + k /\ n + i = Len(a) + k
        BY <1>3, <2>1, <2>4
      <3> HIDE DEF k
      <3>2. x[i] = b[k]
        BY <1>1, <1>6, <3>1
      <3>3. w[n + i] = b[k]
        BY <1>2, <3>1
      <3> QED
        BY <2>2, <3>2, <3>3
    <2> QED
      BY <1>3, <2>1, <2>3, <2>4
  <1>9. x = t
    BY <1>5, <1>6, <1>7, <1>8, SeqEqual
  <1> QED
    BY <1>1, <1>9 DEF r, w, t, x

\* What the parser takes for a whole segment is the first one of the stream.
LEMMA BufferWhole ==
  ASSUME Parsing, Framed(Stream), Whole(Buffer)
  PROVE  /\ Stream # << >> /\ First(Buffer) = First(Stream)
         /\ Rest(Buffer) \in Seq(Byte) /\ Rest(Buffer) \o wire = Rest(Stream)
  <1> DEFINE n == Full(First(Stream))
  <1>1. /\ Buffer \in Seq(Byte) /\ Stream \in Seq(Byte) /\ wire \in Seq(Byte)
        /\ Len(Stream) = Len(Buffer) + Len(wire)
        /\ \A i \in 1 .. Len(Buffer) : Stream[i] = Buffer[i]
        /\ \A i \in 1 .. Len(wire) : Stream[Len(Buffer) + i] = wire[i]
    BY StreamFacts DEF Parsing
  <1>2. Len(Buffer) > 2 /\ Len(Buffer) >= Buffer[3].seg.size + HdrSize
    BY DEF Whole
  <1> HIDE DEF Buffer, Stream
  <1>3. Buffer # << >> /\ 3 \in 1 .. Len(Buffer)
    BY <1>1, <1>2
  <1>4. Stream # << >> /\ First(Buffer) = First(Stream)
    BY <1>3, BufferBegins
  <1>5. /\ First(Stream) \in Segment
        /\ \A k \in 1 .. n : Stream[k] = [seg |-> First(Stream), pos |-> k]
    BY <1>1, <1>4, FramedFirst
  <1>6. n \in Nat /\ n >= 3 /\ n = First(Stream).size + HdrSize
    BY <1>5, SegmentFacts
  <1>7. Buffer[3].seg = First(Stream)
    <2>1. Stream[3] = [seg |-> First(Stream), pos |-> 3]
      BY <1>5, <1>6
    <2>2. Buffer[3] = [seg |-> First(Stream), pos |-> 3]
      BY <1>1, <1>3, <2>1
    <2> QED
      BY <2>2
  <1>8. n <= Len(Buffer)
    BY <1>2, <1>6, <1>7
  <1>9. Rest(Buffer) = SubSeq(Buffer, n + 1, Len(Buffer))
    BY <1>4, <1>6 DEF Rest
  <1>10. Rest(Stream) = SubSeq(Buffer \o wire, n + 1, Len(Buffer \o wire))
    BY <1>6 DEF Rest, Stream
  <1>11. n \in Nat
    BY <1>6
  <1> HIDE DEF n
  <1>12. /\ SubSeq(Buffer, n + 1, Len(Buffer)) \in Seq(Byte)
         /\ SubSeq(Buffer, n + 1, Len(Buffer)) \o wire
              = SubSeq(Buffer \o wire, n + 1, Len(Buffer \o wire))
    BY <1>1, <1>8, <1>11, SuffixConcat
  <1> QED
    BY <1>4, <1>9, <1>10, <1>12

\* A read only moves the borders.
LEMMA SameStream ==
  ASSUME IInv, Stream' = Stream, Parsing',
         UNCHANGED <<control_in, conn_in, open, due, cut>>,
         packet' = packet \/ packet' = << >>
  PROVE  IInv'
  <1>1. /\ \A ch \in Channels : In(ch)' = In(ch)
        /\ Held' = Held
    BY DEF In, Held
  <1>2. Pieces' = Pieces
    BY <1>1 DEF Pieces, PiecesOf
  <1>3. Framed(Stream)' /\ Orderly(Pieces, open, cut, due)'
    BY <1>2 DEF IInv, Framed
  <1>4. Collected'
    <2>1. << >> \in Seq(Segment)
      OBVIOUS
    <2>2. packet' \in Seq(Segment)
      BY <2>1 DEF IInv, Collected
    <2>3. \A ch \in Channels : Run(In(ch)', ch, cut')
      BY <1>1 DEF IInv, Collected
    <2>4. conn_in' = [c \in Cids |-> conn_in'[c]]
      BY DEF IInv, Collected
    <2> QED
      BY <2>2, <2>3, <2>4, CollectedAfter
  <1>5. PacketsAreWhole'
    BY DEF IInv, PacketsAreWhole
  <1> QED
    BY <1>3, <1>4, <1>5 DEF IInv

LEMMA BytesAssociative ==
  ASSUME NEW a \in Seq(Byte), NEW b \in Seq(Byte), NEW c \in Seq(Byte)
  PROVE  (a \o b) \o c = a \o (b \o c)
  BY ConcatAssociative

LEMMA PrefixSuffix ==
  ASSUME NEW S, NEW w \in Seq(S), NEW n \in Nat, n <= Len(w)
  PROVE  /\ SubSeq(w, 1, n) \in Seq(S)
         /\ SubSeq(w, n + 1, Len(w)) \in Seq(S)
         /\ SubSeq(w, 1, n) \o SubSeq(w, n + 1, Len(w)) = w
  <1>1. SubSeq(w, n + 1, Len(w)) \in Seq(S)
    BY SuffixFacts
  <1>2. SubSeq(w, 1, n) \in Seq(S)
    OBVIOUS
  <1>3. /\ 1 \in 1 .. Len(w) + 1 /\ n \in 1 - 1 .. Len(w)
        /\ Len(w) \in n .. Len(w)
    OBVIOUS
  <1>4. SubSeq(w, 1, n) \o SubSeq(w, n + 1, Len(w)) = SubSeq(w, 1, Len(w))
    BY <1>3, ConcatAdjacentSubSeq
  <1>5. SubSeq(w, 1, Len(w)) = w
    BY SubSeqFull
  <1>6. SubSeq(w, 1, n) \o SubSeq(w, n + 1, Len(w)) = w
    BY <1>4, <1>5, Zenon
  <1> QED
    BY <1>1, <1>2, <1>6, Zenon

LEMMA ReadKeeps ==
  ASSUME IInv, NEW n \in Nat, Read(n)
  PROVE  IInv'
  <1> DEFINE data == SubSeq(wire, 1, n)
             rest == SubSeq(wire, n + 1, Len(wire))
  <1>1. /\ read_buf \in Seq(Byte) /\ wire \in Seq(Byte)
        /\ loop = "no" /\ bytes = << >> /\ n <= Len(wire) /\ wire' = rest
        /\ Stream = read_buf \o wire
    BY DEF IInv, Parsing, Read, Stream, Buffer
  <1>2. data \in Seq(Byte) /\ rest \in Seq(Byte) /\ data \o rest = wire
    BY <1>1, PrefixSuffix
  <1>3. UNCHANGED <<control_in, conn_in, open, due, cut, packet>>
    BY DEF Read
  <1>4. /\ read_buf = << >> => /\ loop' = "direct" /\ bytes' = data
                              /\ read_buf' = read_buf
        /\ read_buf # << >> => /\ loop' = "buffered" /\ bytes' = bytes
                              /\ read_buf' = read_buf \o data
    BY DEF Read
  <1> HIDE DEF data, rest
  <1>5. CASE read_buf = << >>
    <2>1. loop' = "direct" /\ bytes' = data /\ read_buf' = read_buf
      BY <1>4, <1>5
    <2>2. Stream' = data \o rest
      BY <1>1, <2>1 DEF Stream, Buffer
    <2>3. Stream = wire
      BY <1>1, <1>5, ConcatEmptySeq
    <2>4. Parsing'
      BY <1>1, <1>2, <1>5, <2>1 DEF Parsing
    <2> QED
      BY <1>2, <1>3, <2>2, <2>3, <2>4, SameStream
  <1>6. CASE read_buf # << >>
    <2>1. loop' = "buffered" /\ bytes' = bytes /\ read_buf' = read_buf \o data
      BY <1>4, <1>6
    <2>2. Stream' = (read_buf \o data) \o rest
      BY <1>1, <2>1 DEF Stream, Buffer
    <2>3. (read_buf \o data) \o rest = read_buf \o (data \o rest)
      <3>1. read_buf \in Seq(Byte) /\ data \in Seq(Byte) /\ rest \in Seq(Byte)
        BY <1>1, <1>2
      <3> QED
        BY <3>1, BytesAssociative
    <2>4. read_buf \o data \in Seq(Byte)
      BY <1>1, <1>2
    <2>5. Parsing'
      BY <1>1, <1>2, <2>1, <2>4 DEF Parsing
    <2>6. Stream' = Stream
      BY <1>1, <1>2, <2>2, <2>3
    <2> QED
      BY <1>3, <2>5, <2>6, SameStream
  <1> QED
    BY <1>5, <1>6

LEMMA KeepRestKeeps ==
  ASSUME IInv, KeepRest
  PROVE  IInv'
  <1>1. /\ read_buf = << >> /\ bytes \in Seq(Byte) /\ wire \in Seq(Byte)
        /\ Stream = bytes \o wire
    BY DEF IInv, Parsing, KeepRest, Stream, Buffer
  <1>2. << >> \o bytes = bytes
    BY <1>1, ConcatEmptySeq
  <1>3. read_buf' = bytes /\ bytes' = << >> /\ wire' = wire
    BY <1>1, <1>2 DEF KeepRest, nfcc
  <1>4. loop' = IF bytes = << >> THEN "no" ELSE "buffered"
    BY DEF KeepRest
  <1>5. Stream' = Stream
    BY <1>1, <1>3, <1>4 DEF Stream, Buffer
  <1>6. Parsing'
    <2>1. << >> \in Seq(Byte) /\ ~(Len(<< >>) > 2)
      OBVIOUS
    <2> QED
      BY <1>1, <1>3, <1>4, <2>1 DEF Parsing, Whole
  <1>7. UNCHANGED <<control_in, conn_in, open, due, cut>> /\ packet' = << >>
    BY DEF KeepRest, nfcc
  <1> QED
    BY <1>5, <1>6, <1>7, SameStream

LEMMA ReadDoneKeeps ==
  ASSUME IInv, ReadDone
  PROVE  IInv'
  <1>1. Stream' = Stream
    BY DEF ReadDone, nfcc, Stream, Buffer
  <1>2. Parsing'
    BY DEF IInv, Parsing, ReadDone, nfcc, Whole
  <1>3. UNCHANGED <<control_in, conn_in, open, due, cut>> /\ packet' = << >>
    BY DEF ReadDone, nfcc
  <1> QED
    BY <1>1, <1>2, <1>3, SameStream

\* The two loops of nci_sar_hal_client_read
LEMMA SegmentKeeps ==
  ASSUME IInv, NEW startOver \in BOOLEAN,
         DirectSegment(startOver) \/ BufferedSegment(startOver)
  PROVE  IInv'
  <1>1. Parsing /\ Framed(Stream)
    BY DEF IInv
  <1>2. /\ Whole(Buffer) /\ HandleSegment(First(Buffer), startOver)
        /\ Buffer' = Rest(Buffer) /\ wire' = wire /\ open' = open
    BY DEF DirectSegment, BufferedSegment, Buffer, nfcc
  <1>3. /\ Stream # << >> /\ First(Buffer) = First(Stream)
        /\ Rest(Buffer) \in Seq(Byte) /\ Rest(Buffer) \o wire = Rest(Stream)
    BY <1>1, <1>2, BufferWhole
  <1>4. Stream' = Rest(Stream)
    BY <1>2, <1>3 DEF Stream
  <1>5. Stream \in Seq(Byte)
    BY <1>1, StreamFacts
  <1>6. Framed(Stream)'
    <2>1. Framed(Rest(Stream))
      BY <1>1, <1>3, <1>5, FramedRest
    <2> QED
      BY <1>4, <2>1 DEF Framed
  <1>7. Parsing'
    <2>1. CASE DirectSegment(startOver)
      BY <1>1, <1>3, <2>1 DEF DirectSegment, Parsing, Buffer, nfcc
    <2>2. CASE BufferedSegment(startOver)
      BY <1>1, <1>3, <2>2 DEF BufferedSegment, Parsing, Buffer, nfcc
    <2> QED
      BY <2>1, <2>2
  <1>8. Ready
    BY <1>3, <1>5 DEF IInv, Ready
  <1>9. Collected' /\ Orderly(Pieces, open, cut, due)' /\ PacketsAreWhole'
    BY <1>2, <1>3, <1>4, <1>8, Handled
  <1> QED
    BY <1>6, <1>7, <1>9 DEF IInv

\* nci_sar_reset. Whatever it forgets is cut.
LEMMA ResetKeeps ==
  ASSUME IInv, NEW drop \in BOOLEAN, Reset(drop)
  PROVE  IInv'
  <1> DEFINE dropped == {wire[i].seg.msg : i \in DOMAIN wire}
             lost == Partial \cup (IF drop THEN dropped ELSE {})
  <1>1. /\ Framed(Stream) /\ Parsing /\ Collected /\ PacketsAreWhole
        /\ Orderly(Pieces, open, cut, due)
    BY DEF IInv
  <1>2. /\ loop = "no" /\ loop' = loop /\ read_buf' = read_buf /\ bytes' = bytes
        /\ drop => read_buf = << >>
        /\ wire' = (IF drop THEN << >> ELSE wire)
        /\ Forget(lost) /\ open' = open /\ packet' = packet
    BY DEF Reset
  <1>3. cut' = cut \cup lost /\ due' = due \ lost
    BY <1>2 DEF Forget
  <1>4. /\ \A c \in Channels : In(c)' = << >>
        /\ conn_in' = [c \in Cids |-> conn_in'[c]]
        /\ Held' = {}
    <2> HIDE DEF lost
    <2> QED
      BY <1>2, AfterForget
  <1>5. Partial \subseteq lost /\ (drop => dropped \subseteq lost)
    OBVIOUS
  <1> HIDE DEF lost
  <1>6. packet \in Seq(Segment)
    BY <1>1 DEF Collected
  <1>7. Collected'
    BY <1>2, <1>4, <1>6, CollectedAfter, RunEmpty
  <1>8. PacketsAreWhole'
    BY <1>1, <1>2, <1>3, <1>6, WholeStays
  <1>9. Held \subseteq Segment /\ Partial = {s.msg : s \in Held}
    BY <1>1, HeldFacts
  <1>10. /\ Pieces \subseteq Piece
         /\ \A p \in Pieces : \/ p.at = 0 /\ p.seg \in Held
                              \/ /\ p.at > 0 /\ p.at \in DOMAIN Stream
                                 /\ p.seg = Stream[p.at].seg /\ Stream[p.at].pos = 1
    BY <1>1, <1>9, StreamFacts, PiecesType DEF Pieces
  <1>11. \A p \in Pieces : p.at = 0 => p.seg.msg \in cut'
    BY <1>3, <1>5, <1>9, <1>10
  <1>12. Pieces' = PiecesOf(Stream', {})
    BY <1>4 DEF Pieces, PiecesOf
  <1>13. CASE ~drop
    <2>1. Stream' = Stream
      BY <1>2, <1>13 DEF Stream, Buffer
    <2>2. Parsing'
      BY <1>1, <1>2, <1>13 DEF Parsing, Whole
    <2>3. Framed(Stream)'
      BY <1>1, <2>1 DEF Framed
    <2>4. Pieces' = {p \in Pieces : p.at > 0}
      <3> DEFINE heads == {[at |-> i, seg |-> Stream[i].seg] :
                              i \in {i \in DOMAIN Stream : Stream[i].pos = 1}}
                 held == {[at |-> 0, seg |-> s] : s \in Held}
      <3>1. Pieces = heads \cup held
        BY DEF Pieces, PiecesOf
      <3>2. Pieces' = heads
        BY <1>12, <2>1 DEF PiecesOf
      <3>3. \A p \in held : p.at = 0
        OBVIOUS
      <3>4. \A p \in heads : p.at > 0
        <4>1. DOMAIN Stream = 1 .. Len(Stream)
          BY <1>1, StreamFacts
        <4>2. \A i \in DOMAIN Stream : i > 0
          BY <4>1
        <4> QED
          BY <4>2
      <3> HIDE DEF heads, held
      <3> QED
        BY <3>1, <3>2, <3>3, <3>4
    <2>5. due' \subseteq due /\ cut \subseteq cut'
      BY <1>3
    <2>6. Orderly({p \in Pieces : p.at > 0}, open, cut', due')
      BY <1>1, <1>10, <1>11, <2>5, OrderlyForget
    <2>7. Orderly(Pieces, open, cut, due)'
      BY <1>2, <2>4, <2>6
    <2> QED
      BY <1>7, <1>8, <2>2, <2>3, <2>7 DEF IInv
  <1>14. CASE drop
    <2>1. << >> \in Seq(Byte) /\ ~(Len(<< >>) > 2) /\ DOMAIN << >> = {}
      OBVIOUS
    <2>2. Stream = wire /\ wire \in Seq(Byte)
      <3>1. Buffer = << >>
        BY <1>2, <1>14 DEF Buffer
      <3> QED
        BY <1>1, <3>1, StreamFacts DEF Parsing
    <2>3. Parsing'
      BY <1>1, <1>2, <1>14, <2>1 DEF Parsing, Whole
    <2>4. Stream' = << >>
      <3>1. Buffer' = << >> /\ wire' = << >>
        BY <1>2, <1>14 DEF Buffer
      <3> QED
        BY <2>1, <2>3, <3>1, ConcatEmptySeq DEF Stream
    <2>5. Framed(Stream)'
      BY <2>1, <2>4 DEF Framed
    <2>6. Pieces' = {}
      BY <1>12, <2>1, <2>4 DEF PiecesOf
    <2>7. \A p \in Pieces : p.seg.msg \in lost
      <3>1. ASSUME NEW p \in Pieces, p.at > 0 PROVE p.seg.msg \in dropped
        <4>1. p.at \in DOMAIN wire /\ p.seg = wire[p.at].seg
          BY <1>10, <2>2, <3>1
        <4> QED
          BY <4>1
      <3>2. ASSUME NEW p \in Pieces, p.at = 0 PROVE p.seg.msg \in Partial
        BY <1>9, <1>10, <3>2
      <3> HIDE DEF dropped
      <3> QED
        BY <1>5, <1>10, <1>14, <3>1, <3>2
    <2>8. due' = {}
      <3>1. \A m \in due : \E p \in Pieces : p.seg.msg = m
        BY <1>1 DEF Orderly, Coming
      <3> QED
        BY <1>3, <2>7, <3>1
    <2>9. cut \subseteq cut' /\ \A p \in Pieces : p.seg.msg \in cut'
      BY <1>3, <2>7
    <2>10. Orderly({}, open, cut', {})
      BY <1>1, <1>10, <2>9, OrderlyDrop
    <2>11. Orderly(Pieces, open, cut, due)'
      BY <1>2, <2>6, <2>8, <2>10
    <2> QED
      BY <1>7, <1>8, <2>3, <2>5, <2>11 DEF IInv
  <1> QED
    BY <1>13, <1>14

-----------------------------------------------------------------------------
(***************************************************************************)
(* The NFCC                                                                *)
(***************************************************************************)
\* Nobody has a part of the message.
LEMMA FreshFacts ==
  ASSUME IInv, NEW m, m \notin InUse
  PROVE  /\ \A p \in Pieces : p.seg.msg # m
         /\ \A s \in open : s.msg # m
         /\ \A i \in DOMAIN packet : packet[i].msg # m
         /\ \A c \in Channels : In(c) # << >> => Last(In(c)).msg # m
  <1>1. Framed(Stream) /\ Parsing /\ Collected
    BY DEF IInv
  <1>2. /\ Held \subseteq Segment /\ Partial = {s.msg : s \in Held}
        /\ \A c \in Channels : In(c) # << >> => Last(In(c)) \in Held
    BY <1>1, HeldFacts
  <1>3. /\ \A s \in open : s.msg # m
        /\ \A i \in DOMAIN packet : packet[i].msg # m
        /\ \A s \in Held : s.msg # m
    BY <1>2 DEF InUse
  <1>4. /\ \A i \in DOMAIN wire : wire[i].seg.msg # m
        /\ \A i \in DOMAIN read_buf : read_buf[i].seg.msg # m
        /\ \A i \in DOMAIN bytes : bytes[i].seg.msg # m
    BY DEF InUse
  <1>5. ASSUME NEW i \in DOMAIN Stream PROVE Stream[i].seg.msg # m
    <2>1. /\ Buffer \in Seq(Byte) /\ Stream \in Seq(Byte) /\ wire \in Seq(Byte)
          /\ Len(Stream) = Len(Buffer) + Len(wire)
          /\ \A k \in 1 .. Len(Buffer) : Stream[k] = Buffer[k]
          /\ \A k \in 1 .. Len(wire) : Stream[Len(Buffer) + k] = wire[k]
      BY <1>1, StreamFacts DEF Parsing
    <2>2. \A k \in DOMAIN Buffer : Buffer[k].seg.msg # m
      BY <1>4 DEF Buffer
    <2> HIDE DEF Buffer, Stream
    <2>3. /\ DOMAIN Buffer = 1 .. Len(Buffer) /\ DOMAIN wire = 1 .. Len(wire)
          /\ DOMAIN Stream = 1 .. Len(Stream)
          /\ Len(Buffer) \in Nat /\ Len(wire) \in Nat
      BY <2>1
    <2>4. CASE i <= Len(Buffer)
      <3>1. i \in 1 .. Len(Buffer)
        BY <2>3, <2>4
      <3> QED
        BY <2>1, <2>2, <2>3, <3>1
    <2>5. CASE i > Len(Buffer)
      <3> DEFINE k == i - Len(Buffer)
      <3>1. k \in 1 .. Len(wire) /\ i = Len(Buffer) + k
        BY <2>1, <2>3, <2>5
      <3> HIDE DEF k
      <3> QED
        BY <1>4, <2>1, <2>3, <3>1
    <2> QED
      BY <2>3, <2>4, <2>5
  <1>6. \A p \in Pieces : \/ p.at = 0 /\ p.seg \in Held
                          \/ p.at \in DOMAIN Stream /\ p.seg = Stream[p.at].seg
    BY <1>1, <1>2, StreamFacts, PiecesType DEF Pieces
  <1> QED
    BY <1>2, <1>3, <1>5, <1>6

\* The new piece is the last one.
LEMMA TransmitFacts ==
  ASSUME IInv, NEW seg \in Segment, Transmit(seg)
  PROVE  LET n == Len(Stream) + 1
         IN  /\ Framed(Stream)' /\ Parsing'
             /\ n \in Nat \ {0} /\ Pieces \subseteq Piece
             /\ \A p \in Pieces : p.at < n
             /\ Pieces' = Pieces \cup {[at |-> n, seg |-> seg]}
             /\ \A c \in Channels : In(c)' = In(c)
             /\ conn_in' = conn_in /\ packet' = packet
             /\ cut' = IF seg.idx = 1 THEN cut \ {seg.msg} ELSE cut
  <1> DEFINE e == Encode(seg)
  <1>1. Framed(Stream) /\ Parsing /\ Collected
    BY DEF IInv
  <1>2. e \in Seq(Byte)
    BY SegmentFacts
  <1>3. /\ wire' = wire \o e /\ read_buf' = read_buf /\ bytes' = bytes /\ loop' = loop
        /\ control_in' = control_in /\ conn_in' = conn_in /\ packet' = packet
        /\ cut' = IF seg.idx = 1 THEN cut \ {seg.msg} ELSE cut
    BY DEF Transmit
  <1> HIDE DEF e
  <1>4. Buffer \in Seq(Byte) /\ wire \in Seq(Byte) /\ Stream \in Seq(Byte)
    BY <1>1, StreamFacts DEF Parsing
  <1>5. Stream' = Stream \o e
    <2>1. Stream' = Buffer \o (wire \o e)
      BY <1>3 DEF Stream, Buffer
    <2> HIDE DEF Buffer
    <2>2. (Buffer \o wire) \o e = Buffer \o (wire \o e)
      BY <1>2, <1>4, BytesAssociative
    <2> QED
      BY <2>1, <2>2 DEF Stream
  <1>6. Framed(Stream)'
    <2>1. Framed(Stream \o Encode(seg))
      <3> HIDE DEF Stream
      <3> QED
        BY <1>1, <1>4, FramedSend
    <2> QED
      BY <1>5, <2>1 DEF Framed, e
  <1>7. Parsing'
    <2>1. wire \o e \in Seq(Byte)
      BY <1>2, <1>4, ConcatFacts
    <2> QED
      BY <1>1, <1>3, <2>1 DEF Parsing, Whole
  <1>8. /\ \A c \in Channels : In(c)' = In(c)
        /\ Held' = Held
    BY <1>3 DEF In, Held
  <1>9. Held \subseteq Segment
    BY <1>1, HeldFacts
  <1>10. Pieces \subseteq Piece /\ \A p \in Pieces : p.at < Len(Stream) + 1
    BY <1>1, <1>4, <1>9, PiecesType DEF Pieces
  <1>11. Pieces' = Pieces \cup {[at |-> Len(Stream) + 1, seg |-> seg]}
    <2>1. Pieces' = PiecesOf(Stream', Held')
      BY DEF Pieces, PiecesOf
    <2>2. PiecesOf(Stream \o Encode(seg), Held)
            = PiecesOf(Stream, Held) \cup {[at |-> Len(Stream) + 1, seg |-> seg]}
      <3> HIDE DEF Stream
      <3> QED
        BY <1>1, <1>4, PiecesSend
    <2> QED
      BY <1>5, <1>8, <2>1, <2>2 DEF Pieces, e
  <1>12. Len(Stream) + 1 \in Nat \ {0}
    <2> HIDE DEF Stream
    <2> QED
      BY <1>4
  <1> QED
    BY <1>3, <1>6, <1>7, <1>8, <1>10, <1>11, <1>12

\* A new message
LEMMA FreshKeeps ==
  ASSUME IInv, NEW seg \in Segment, Transmit(seg), seg.idx = 1, seg.msg \notin InUse
  PROVE  Collected' /\ PacketsAreWhole'
  <1>1. /\ \A c \in Channels : In(c)' = In(c)
        /\ conn_in' = conn_in /\ packet' = packet
        /\ cut' = cut \ {seg.msg}
    BY TransmitFacts
  <1>2. /\ \A i \in DOMAIN packet : packet[i].msg # seg.msg
        /\ \A c \in Channels : In(c) # << >> => Last(In(c)).msg # seg.msg
    BY FreshFacts
  <1>3. Collected /\ PacketsAreWhole
    BY DEF IInv
  <1>4. packet \in Seq(Segment)
    BY <1>3 DEF Collected
  <1>5. ASSUME NEW c \in Channels PROVE Run(In(c)', c, cut')
    <2>1. Run(In(c), c, cut)
      BY <1>3 DEF Collected
    <2>2. Run(In(c), c, cut \ {seg.msg})
      BY <1>2, <2>1, RunCut
    <2> QED
      BY <1>1, <2>2
  <1>6. Collected'
    <2>1. conn_in' = [c \in Cids |-> conn_in'[c]]
      BY <1>1, <1>3 DEF Collected
    <2> QED
      BY <1>1, <1>4, <1>5, <2>1, CollectedAfter
  <1>7. PacketsAreWhole'
    BY <1>1, <1>2, <1>3, <1>4, WholeStays
  <1> QED
    BY <1>6, <1>7

LEMMA SendFirstKeeps ==
  ASSUME IInv, NEW ch \in {Control} \cup Cids, NEW key \in Keys, NEW pbf \in BOOLEAN,
         NEW size \in PayloadSizes, NEW msg \in Messages,
         SendFirst(ch, key, pbf, size, msg)
  PROVE  IInv'
  <1> DEFINE seg == [ch |-> ch, key |-> key, pbf |-> pbf, size |-> size,
                     msg |-> msg, idx |-> 1]
             n == Len(Stream) + 1
  <1>1. /\ \A s \in open : s.ch # ch
        /\ msg \notin InUse
        /\ pbf => MaxSegments > 1
        /\ Transmit(seg)
        /\ due' = IF pbf THEN due ELSE due \cup {msg}
        /\ open' = IF pbf THEN open \cup {seg} ELSE open
    BY DEF SendFirst, Complete
  <1>2. /\ seg \in Segment /\ seg.idx = 1 /\ seg.msg = msg /\ seg.ch = ch
        /\ seg.pbf = pbf /\ seg.ch \in Channels
    BY SarInAssumption DEF Segment, Channels
  <1> HIDE DEF seg
  <1>3. /\ Framed(Stream)' /\ Parsing'
        /\ n \in Nat \ {0} /\ Pieces \subseteq Piece /\ \A p \in Pieces : p.at < n
        /\ Pieces' = Pieces \cup {[at |-> n, seg |-> seg]}
        /\ cut' = cut \ {seg.msg}
    BY <1>1, <1>2, TransmitFacts
  <1>4. /\ \A p \in Pieces : p.seg.msg # msg
        /\ \A s \in open : s.msg # msg
    BY <1>1, FreshFacts
  <1>5. Collected' /\ PacketsAreWhole'
    BY <1>1, <1>2, FreshKeeps
  <1>6. Orderly(Pieces \cup {[at |-> n, seg |-> seg]},
                IF seg.pbf THEN open \cup {seg} ELSE open,
                cut \ {seg.msg},
                IF seg.pbf THEN due ELSE due \cup {seg.msg})
    <2>1. /\ Orderly(Pieces, open, cut, due)
          /\ seg.pbf => MaxSegments > 1
          /\ \A p \in Pieces : p.seg.msg # seg.msg
          /\ \A s \in open : s.msg # seg.msg /\ s.ch # seg.ch
      BY <1>1, <1>2, <1>4 DEF IInv
    <2> HIDE DEF n
    <2> QED
      BY <1>2, <1>3, <2>1, OrderlyFirst
  <1>7. Orderly(Pieces, open, cut, due)'
    <2>1. /\ open' = (IF seg.pbf THEN open \cup {seg} ELSE open)
          /\ due' = (IF seg.pbf THEN due ELSE due \cup {seg.msg})
      BY <1>1, <1>2
    <2> QED
      BY <1>3, <1>6, <2>1
  <1> QED
    BY <1>3, <1>5, <1>7 DEF IInv

LEMMA SendNextKeeps ==
  ASSUME IInv, NEW s \in open, NEW pbf \in BOOLEAN, NEW size \in PayloadSizes,
         SendNext(s, pbf, size)
  PROVE  IInv'
  <1> DEFINE seg == [s EXCEPT !.pbf = pbf, !.size = size, !.idx = s.idx + 1]
             n == Len(Stream) + 1
  <1>1. /\ pbf => seg.idx < MaxSegments
        /\ Transmit(seg)
        /\ IF s.msg \in cut THEN due' = due
           ELSE due' = IF seg.pbf THEN due ELSE due \cup {seg.msg}
        /\ open' = (open \ {s}) \cup (IF pbf THEN {seg} ELSE {})
    BY DEF SendNext, Complete
  <1>2. Orderly(Pieces, open, cut, due) /\ Collected /\ PacketsAreWhole
    BY DEF IInv
  <1>3. s \in Segment /\ s.idx < MaxSegments
    BY <1>2 DEF Orderly, OpenLast
  <1>4. s.idx \in 1 .. MaxSegments
    BY <1>3, SegmentType
  <1>5. /\ seg.ch = s.ch /\ seg.key = s.key /\ seg.msg = s.msg
        /\ seg.pbf = pbf /\ seg.idx = s.idx + 1
    BY <1>3 DEF Segment
  <1>6. s.idx + 1 \in 1 .. MaxSegments /\ s.idx + 1 # 1
    BY <1>3, <1>4, SarInAssumption
  <1>7. seg \in Segment
    BY <1>3, <1>6 DEF Segment
  <1> HIDE DEF seg
  <1>8. /\ Framed(Stream)' /\ Parsing'
        /\ n \in Nat \ {0} /\ Pieces \subseteq Piece /\ \A p \in Pieces : p.at < n
        /\ Pieces' = Pieces \cup {[at |-> n, seg |-> seg]}
        /\ \A c \in Channels : In(c)' = In(c)
        /\ conn_in' = conn_in /\ packet' = packet /\ cut' = cut
    BY <1>1, <1>5, <1>6, <1>7, TransmitFacts
  <1>9. Collected'
    <2>1. \A c \in Channels : Run(In(c)', c, cut')
      BY <1>2, <1>8 DEF Collected
    <2>2. conn_in' = [c \in Cids |-> conn_in'[c]] /\ packet' \in Seq(Segment)
      BY <1>2, <1>8 DEF Collected
    <2> QED
      BY <2>1, <2>2, CollectedAfter
  <1>10. PacketsAreWhole'
    BY <1>2, <1>8 DEF PacketsAreWhole
  <1>11. Orderly(Pieces \cup {[at |-> n, seg |-> seg]},
                 (open \ {s}) \cup (IF seg.pbf THEN {seg} ELSE {}), cut, due')
    <2>1. /\ due \subseteq due'
          /\ \A m \in due' : m \in due \/ (m = seg.msg /\ ~seg.pbf)
          /\ seg.pbf => seg.idx < MaxSegments
      BY <1>1, <1>5
    <2> HIDE DEF n
    <2> QED
      BY <1>2, <1>5, <1>7, <1>8, <2>1, OrderlyNext
  <1>12. Orderly(Pieces, open, cut, due)'
    BY <1>1, <1>5, <1>8, <1>11
  <1> QED
    BY <1>8, <1>9, <1>10, <1>12 DEF IInv

LEMMA IntrudeKeeps ==
  ASSUME IInv, NEW ch \in {Control, Unknown}, NEW key \in Keys,
         NEW size \in PayloadSizes, NEW msg \in Messages,
         Intrude(ch, key, size, msg)
  PROVE  IInv'
  <1> DEFINE seg == [ch |-> ch, key |-> key, pbf |-> FALSE, size |-> size,
                     msg |-> msg, idx |-> 1]
             n == Len(Stream) + 1
  <1>1. /\ ch = Unknown \/ \E s \in open : s.ch = Control /\ s.key # key
        /\ msg \notin InUse
        /\ Transmit(seg)
        /\ due' = due /\ open' = open
    BY DEF Intrude
  <1>2. /\ seg \in Segment /\ seg.idx = 1 /\ seg.msg = msg /\ seg.ch = ch
        /\ ~seg.pbf /\ seg.key = key
    BY SarInAssumption DEF Segment
  <1> HIDE DEF seg
  <1>3. /\ Framed(Stream)' /\ Parsing'
        /\ n \in Nat \ {0} /\ Pieces \subseteq Piece /\ \A p \in Pieces : p.at < n
        /\ Pieces' = Pieces \cup {[at |-> n, seg |-> seg]}
        /\ cut' = cut \ {seg.msg}
    BY <1>1, <1>2, TransmitFacts
  <1>4. /\ \A p \in Pieces : p.seg.msg # msg
        /\ \A s \in open : s.msg # msg
    BY <1>1, FreshFacts
  <1>5. Collected' /\ PacketsAreWhole'
    BY <1>1, <1>2, FreshKeeps
  <1>6. Orderly(Pieces \cup {[at |-> n, seg |-> seg]}, open, cut \ {seg.msg}, due)
    <2>1. /\ Orderly(Pieces, open, cut, due)
          /\ \/ seg.ch = Unknown
             \/ seg.ch = Control /\ \E s \in open : s.ch = Control /\ s.key # seg.key
          /\ \A p \in Pieces : p.seg.msg # seg.msg
          /\ \A s \in open : s.msg # seg.msg
      BY <1>1, <1>2, <1>4 DEF IInv
    <2> HIDE DEF n
    <2> QED
      BY <1>2, <1>3, <2>1, OrderlyIntrude
  <1>7. Orderly(Pieces, open, cut, due)'
    BY <1>1, <1>3, <1>6
  <1> QED
    BY <1>3, <1>5, <1>7 DEF IInv

LEMMA Begins ==
  ASSUME Init
  PROVE  IInv
  <1>1. << >> \in Seq(Byte) /\ << >> \in Seq(Segment) /\ DOMAIN << >> = {}
        /\ ~(Len(<< >>) > 2)
    OBVIOUS
  <1>2. Parsing
    BY <1>1 DEF Init, Parsing, Whole
  <1>3. Stream = << >>
    <2>1. Buffer = << >>
      BY DEF Init, Buffer
    <2> QED
      BY <1>2, <2>1, StreamFacts DEF Init
  <1>4. Framed(Stream)
    BY <1>1, <1>3 DEF Framed
  <1>5. \A c \in Channels : In(c) = << >>
    BY DEF Init, In, Channels
  <1>6. Collected
    <2>1. \A c \in Channels : Run(In(c), c, cut)
      BY <1>5, RunEmpty
    <2> QED
      BY <1>1, <2>1 DEF Init, Collected
  <1>7. Pieces = {}
    BY <1>1, <1>3, <1>5 DEF Pieces, PiecesOf, Held
  <1>8. Orderly({}, {}, {}, {})
    BY DEF Orderly, HeldOnce, Ordered, OpenLast, Gapless, Unmixed, Continued, Coming
  <1>9. Orderly(Pieces, open, cut, due)
    BY <1>7, <1>8 DEF Init
  <1>10. PacketsAreWhole
    BY DEF Init, PacketsAreWhole
  <1> QED
    BY <1>2, <1>4, <1>6, <1>9, <1>10 DEF IInv

-----------------------------------------------------------------------------
(***************************************************************************)
(* The stream consists of whole segments, the segments that are still in   *)
(* it go on with the unfinished packets, and those are what the NFCC has   *)
(* sent so far.                                                            *)
(***************************************************************************)
THEOREM StreamOfSegments == Spec => []IInv
  <1>1. Init => IInv
    BY Begins
  <1>2. IInv /\ [Next]_vars => IInv'
    <2> SUFFICES ASSUME IInv, [Next]_vars PROVE IInv'
      OBVIOUS
    <2>1. CASE Nfcc
      BY <2>1, SendFirstKeeps, SendNextKeeps, IntrudeKeeps DEF Nfcc
    <2>2. ASSUME NEW n \in 1 .. MaxWire, Read(n) PROVE IInv'
      BY <2>2, ReadKeeps
    <2>3. ASSUME NEW startOver \in BOOLEAN,
                 DirectSegment(startOver) \/ BufferedSegment(startOver)
          PROVE  IInv'
      BY <2>3, SegmentKeeps
    <2>4. CASE KeepRest
      BY <2>4, KeepRestKeeps
    <2>5. CASE ReadDone
      BY <2>5, ReadDoneKeeps
    <2>6. ASSUME NEW drop \in BOOLEAN, Reset(drop) PROVE IInv'
      BY <2>6, ResetKeeps
    <2>7. CASE UNCHANGED vars
      <3>1. Stream' = Stream /\ Parsing'
        BY <2>7 DEF vars, Stream, Buffer, IInv, Parsing, Whole
      <3> QED
        BY <2>7, <3>1, SameStream DEF vars
    <2> QED
      BY <2>1, <2>2, <2>3, <2>4, <2>5, <2>6, <2>7 DEF Next
  <1> QED
    BY <1>1, <1>2, PTL DEF Spec

(***************************************************************************)
(* However the HAL chops the stream into reads, nci_sar_hal_client_read    *)
(* parses read_buf and the HAL's buffer from the header of a segment.      *)
(***************************************************************************)
THEOREM AlwaysAtHeaders == Spec => []ParsedAtHeaders
  <1>1. IInv => ParsedAtHeaders
    <2> SUFFICES ASSUME IInv PROVE ParsedAtHeaders
      OBVIOUS
    <2>1. /\ Parsing /\ Framed(Stream)
          /\ read_buf # << >> => Buffer = read_buf
          /\ bytes # << >> => Buffer = bytes
      BY DEF IInv, Parsing, Buffer
    <2> QED
      BY <2>1, BufferBegins DEF ParsedAtHeaders
  <1> QED
    BY <1>1, StreamOfSegments, PTL

(***************************************************************************)
(* A packet that the client gets is made of all the segments of one        *)
(* message, in order; only a reset may cost it its first segments.         *)
(***************************************************************************)
THEOREM WholeOnArrival == Spec => []PacketsAreWhole
  <1>1. IInv => PacketsAreWhole
    BY DEF IInv
  <1> QED
    BY <1>1, StreamOfSegments, PTL

(***************************************************************************)
(* When everything has been read, nothing is due: what is left in read_buf *)
(* would be a part of a segment, and there is none.                        *)
(***************************************************************************)
THEOREM NothingLeft == Spec => []NothingStaysBehind
  <1>1. IInv => NothingStaysBehind
    <2> SUFFICES ASSUME IInv, loop = "no", wire = << >> PROVE due = {}
      BY DEF NothingStaysBehind
    <2>1. /\ Parsing /\ Framed(Stream) /\ Collected /\ Coming(Pieces, due)
          /\ HeldOnce(Pieces)
      BY DEF IInv, Orderly
    <2>2. read_buf \in Seq(Byte) /\ Buffer = read_buf /\ ~Whole(read_buf)
      BY <2>1 DEF Parsing, Buffer
    <2>3. Stream = read_buf
      BY <2>2, ConcatEmptySeq DEF Stream
    <2>4. read_buf = << >>
      <3> SUFFICES ASSUME read_buf # << >> PROVE FALSE
        OBVIOUS
      <3> DEFINE seg == First(read_buf)
      <3>1. /\ seg \in Segment /\ Full(seg) <= Len(read_buf)
            /\ \A k \in 1 .. Full(seg) : read_buf[k] = [seg |-> seg, pos |-> k]
        BY <2>1, <2>2, <2>3, FramedFirst
      <3> HIDE DEF seg
      <3>2. /\ Full(seg) \in Nat /\ Full(seg) >= 3 /\ Full(seg) = seg.size + HdrSize
        BY <3>1, SegmentFacts
      <3>3. read_buf[3].seg = seg
        <4>1. Full(seg) \in Nat /\ Full(seg) >= 3
          BY <3>2
        <4>2. 3 \in 1 .. Full(seg)
          BY <4>1
        <4>3. read_buf[3] = [seg |-> seg, pos |-> 3]
          BY <3>1, <4>2, Zenon
        <4> QED
          BY <4>3
      <3>4. Full(seg) <= Len(read_buf) /\ Len(read_buf) \in Nat
        BY <2>2, <3>1
      <3>5. Len(read_buf) > 2
        BY <3>2, <3>4
      <3>6. Len(read_buf) >= read_buf[3].seg.size + HdrSize
        BY <3>2, <3>3, <3>4
      <3> QED
        BY <2>2, <3>5, <3>6 DEF Whole
    <2>5. \A p \in Pieces : p.at = 0
      <3>1. Held \subseteq Segment /\ DOMAIN << >> = {}
        BY <2>1, HeldFacts
      <3> QED
        BY <2>1, <2>2, <2>3, <2>4, <3>1, PiecesType DEF Pieces
    <2> QED
      BY <2>1, <2>5 DEF Coming, HeldOnce
  <1> QED
    BY <1>1, StreamOfSegments, PTL
=============================================================================
