---------------------------- MODULE NciNtfProofs ----------------------------
(***************************************************************************)
(* Proofs about NciNtf, for any packets with any bytes in them, any        *)
(* sizes of structures and rounds of any length: what is copied fits in    *)
(* the block that has been allocated for it and says what the NFCC has     *)
(* announced, and the best target of a round is selected.                  *)
(***************************************************************************)
EXTENDS NciNtf, SequenceTheorems, WellFoundedInduction, TLAPS

-----------------------------------------------------------------------------
(***************************************************************************)
(* Shapes. The fields of a parsed parameter and the bytes of a part may be *)
(* anything; a pointer to no bytes is NULL.                                *)
(***************************************************************************)
IsPointer(d) == d.len \in Nat /\ (d.len = 0 <=> d = Null)
IsParam(p) == p = [fields |-> p.fields, data |-> p.data] /\ IsPointer(p.data)
IsNtf(n) ==
    /\ n = [ok |-> n.ok, id |-> n.id, protocol |-> n.protocol, mode |-> n.mode,
            bytes |-> n.bytes, param |-> n.param, last |-> n.last]
    /\ n.bytes.len \in Nat
    /\ IsParam(n.param)

IsSeq(s) == s \in Seq({s[i] : i \in DOMAIN s})

\* All of the parts are between two places of a block.
Within(parts, from, to) ==
    \A i \in DOMAIN parts : /\ parts[i].off \in Nat /\ parts[i].len \in Nat
                            /\ from <= parts[i].off
                            /\ parts[i].off + parts[i].len <= to

Apart(p, q) == p.off + p.len <= q.off \/ q.off + q.len <= p.off
Disjoint(parts) ==
    \A i, j \in DOMAIN parts : i < j => Apart(parts[i], parts[j])

\* CopiesFit, of one block
Fits(b) == Within(b.parts, 0, b.size) /\ Disjoint(b.parts)

Sizes(b) == /\ b.ntf \in Nat \ {0}
            /\ b.mode \in Nat \ {0}
            /\ b.activation \in Nat \ {0}

-----------------------------------------------------------------------------
(***************************************************************************)
(* Arithmetic and sequences                                                *)
(***************************************************************************)
LEMMA Aligned ==
  ASSUME NEW n \in Nat
  PROVE  Align8(n) \in Nat /\ n <= Align8(n) /\ (n % 8 = 0 => Align8(n) = n)
  BY DEF Align8

LEMMA ElementsFit ==
  ASSUME NEW size \in Nat, NEW n \in Nat, NEW i \in 1 .. n
  PROVE  /\ (i - 1) * size \in Nat
         /\ (i - 1) * size + size = i * size
         /\ i * size \in Nat
         /\ i * size <= size * n
  OBVIOUS

LEMMA IsSeqOf ==
  ASSUME NEW S, NEW s \in Seq(S)
  PROVE  IsSeq(s)
  BY DEF IsSeq

LEMMA Concatenation ==
  ASSUME NEW s, NEW t, IsSeq(s), IsSeq(t)
  PROVE  /\ IsSeq(s \o t)
         /\ \A k \in DOMAIN (s \o t) :
               \/ k \in DOMAIN s /\ (s \o t)[k] = s[k]
               \/ /\ k - Len(s) \in DOMAIN t /\ (s \o t)[k] = t[k - Len(s)]
                  /\ k \notin DOMAIN s
         /\ Len(s) \in Nat /\ DOMAIN s = 1 .. Len(s) /\ DOMAIN t \subseteq Nat
         /\ DOMAIN (s \o t) \subseteq Nat
  <1> DEFINE U == {s[i] : i \in DOMAIN s} \cup {t[i] : i \in DOMAIN t}
  <1>1. s \in Seq(U) /\ t \in Seq(U)
    <2>1. ASSUME NEW r, NEW S, r \in Seq(S), S \subseteq U PROVE r \in Seq(U)
      BY <2>1
    <2>2. s \in Seq({s[i] : i \in DOMAIN s}) /\ t \in Seq({t[i] : i \in DOMAIN t})
      BY DEF IsSeq
    <2>3. {s[i] : i \in DOMAIN s} \subseteq U /\ {t[i] : i \in DOMAIN t} \subseteq U
      OBVIOUS
    <2> HIDE DEF U
    <2> QED BY <2>1, <2>2, <2>3
  <1> HIDE DEF U
  <1>2. s \o t \in Seq(U)
    BY <1>1
  <1>3. IsSeq(s \o t)
    BY <1>2, IsSeqOf
  <1>4. /\ Len(s) \in Nat /\ Len(t) \in Nat
        /\ DOMAIN s = 1 .. Len(s) /\ DOMAIN t = 1 .. Len(t)
        /\ DOMAIN (s \o t) = 1 .. (Len(s) + Len(t))
    BY <1>1
  <1>5. ASSUME NEW k \in DOMAIN (s \o t), k <= Len(s)
        PROVE  k \in DOMAIN s /\ (s \o t)[k] = s[k]
    BY <1>1, <1>4, <1>5
  <1>6. ASSUME NEW k \in DOMAIN (s \o t), ~ (k <= Len(s))
        PROVE  /\ k - Len(s) \in DOMAIN t /\ (s \o t)[k] = t[k - Len(s)]
               /\ k \notin DOMAIN s
    BY <1>1, <1>4, <1>6
  <1> QED BY <1>3, <1>4, <1>5, <1>6

LEMMA ConcatenationGives ==
  ASSUME NEW s, NEW t, IsSeq(s), IsSeq(t)
  PROVE  /\ \A k \in DOMAIN s : k \in DOMAIN (s \o t) /\ (s \o t)[k] = s[k]
         /\ \A k \in DOMAIN t : /\ Len(s) + k \in DOMAIN (s \o t)
                                /\ (s \o t)[Len(s) + k] = t[k]
         /\ DOMAIN s = 1 .. Len(s) /\ DOMAIN t = 1 .. Len(t)
         /\ Len(s) \in Nat /\ Len(t) \in Nat
  <1> DEFINE U == {s[i] : i \in DOMAIN s} \cup {t[i] : i \in DOMAIN t}
  <1>1. ASSUME NEW r, NEW S, r \in Seq(S), S \subseteq U PROVE r \in Seq(U)
    BY <1>1
  <1>2. s \in Seq({s[i] : i \in DOMAIN s}) /\ t \in Seq({t[i] : i \in DOMAIN t})
    BY DEF IsSeq
  <1>3. {s[i] : i \in DOMAIN s} \subseteq U /\ {t[i] : i \in DOMAIN t} \subseteq U
    OBVIOUS
  <1> HIDE DEF U
  <1>4. s \in Seq(U) /\ t \in Seq(U)
    BY <1>1, <1>2, <1>3
  <1> QED BY <1>4

LEMMA PartsApart ==
  ASSUME NEW s, NEW t, IsSeq(s), IsSeq(t), Disjoint(s), Disjoint(t),
         \A i \in DOMAIN s, j \in DOMAIN t : Apart(s[i], t[j])
  PROVE  Disjoint(s \o t)
  <1> DEFINE u == s \o t
  <1> SUFFICES ASSUME NEW i \in DOMAIN u, NEW j \in DOMAIN u, i < j
               PROVE  Apart(u[i], u[j])
    BY DEF Disjoint
  <1>1. /\ \A k \in DOMAIN u :
              \/ k \in DOMAIN s /\ u[k] = s[k]
              \/ /\ k - Len(s) \in DOMAIN t /\ u[k] = t[k - Len(s)]
                 /\ k \notin DOMAIN s
        /\ Len(s) \in Nat /\ DOMAIN s = 1 .. Len(s) /\ DOMAIN t \subseteq Nat
        /\ DOMAIN u \subseteq Nat
    BY Concatenation
  <1> HIDE DEF u
  <1>2. CASE j \in DOMAIN s
    <2>1. i \in DOMAIN s
      BY <1>1, <1>2
    <2> QED BY <1>1, <1>2, <2>1 DEF Disjoint
  <1>3. CASE i \in DOMAIN s /\ j \notin DOMAIN s
    <2>1. u[i] = s[i] /\ u[j] = t[j - Len(s)] /\ j - Len(s) \in DOMAIN t
      BY <1>1, <1>3
    <2> QED BY <1>3, <2>1
  <1>4. CASE i \notin DOMAIN s /\ j \notin DOMAIN s
    <2>1. /\ u[i] = t[i - Len(s)] /\ i - Len(s) \in DOMAIN t
          /\ u[j] = t[j - Len(s)] /\ j - Len(s) \in DOMAIN t
      BY <1>1, <1>4
    <2>2. i - Len(s) < j - Len(s)
      BY <1>1
    <2> QED BY <2>1, <2>2 DEF Disjoint
  <1> QED BY <1>2, <1>3, <1>4

\* Parts that begin where the others end
LEMMA PartsBehind ==
  ASSUME NEW s, NEW t, IsSeq(s), IsSeq(t), Disjoint(s), Disjoint(t),
         NEW from \in Nat, NEW at \in Nat, NEW to \in Nat, from <= at, at <= to,
         Within(s, from, at), Within(t, at, to)
  PROVE  IsSeq(s \o t) /\ Within(s \o t, from, to) /\ Disjoint(s \o t)
  <1>1. \A i \in DOMAIN s, j \in DOMAIN t : Apart(s[i], t[j])
    BY DEF Within, Apart
  <1>2. Within(s \o t, from, to)
    <2> DEFINE u == s \o t
    <2>1. \A k \in DOMAIN u :
              \/ k \in DOMAIN s /\ u[k] = s[k]
              \/ k - Len(s) \in DOMAIN t /\ u[k] = t[k - Len(s)]
      BY Concatenation
    <2> HIDE DEF u
    <2>2. \A k \in DOMAIN s : /\ s[k].off \in Nat /\ s[k].len \in Nat
                              /\ from <= s[k].off /\ s[k].off + s[k].len <= to
      BY DEF Within
    <2>3. \A k \in DOMAIN t : /\ t[k].off \in Nat /\ t[k].len \in Nat
                              /\ from <= t[k].off /\ t[k].off + t[k].len <= to
      BY DEF Within
    <2>4. Within(u, from, to)
      BY <2>1, <2>2, <2>3 DEF Within
    <2> QED BY <2>4 DEF u
  <1> QED BY <1>1, <1>2, PartsApart, Concatenation

\* Within and Disjoint, of sequences that are written out
LEMMA NoParts ==
  IsSeq(<< >>) /\ Disjoint(<< >>) /\ \A from, to : Within(<< >>, from, to)
  <1>1. << >> \in Seq({}) /\ DOMAIN << >> = {}
    OBVIOUS
  <1>2. IsSeq(<< >>)
    BY <1>1, IsSeqOf
  <1> QED BY <1>1, <1>2 DEF Disjoint, Within

LEMMA OnePart ==
  ASSUME NEW p, NEW from \in Nat, NEW to \in Nat, p.off \in Nat, p.len \in Nat,
         from <= p.off, p.off + p.len <= to
  PROVE  IsSeq(<<p>>) /\ Within(<<p>>, from, to) /\ Disjoint(<<p>>)
  <1>1. <<p>> \in Seq({p}) /\ DOMAIN <<p>> = {1}
    OBVIOUS
  <1>2. IsSeq(<<p>>)
    BY <1>1, IsSeqOf
  <1>3. Within(<<p>>, from, to)
    BY <1>1 DEF Within
  <1>4. Disjoint(<<p>>)
    BY <1>1 DEF Disjoint
  <1> QED BY <1>2, <1>3, <1>4

LEMMA TwoParts ==
  ASSUME NEW p, NEW q, NEW from \in Nat, NEW to \in Nat,
         p.off \in Nat, p.len \in Nat, q.off \in Nat, q.len \in Nat,
         from <= p.off, p.off + p.len <= q.off, q.off + q.len <= to
  PROVE  IsSeq(<<p, q>>) /\ Within(<<p, q>>, from, to) /\ Disjoint(<<p, q>>)
  <1>1. <<p, q>> \in Seq({p, q}) /\ DOMAIN <<p, q>> = {1, 2}
    OBVIOUS
  <1>2. IsSeq(<<p, q>>)
    BY <1>1, IsSeqOf
  <1>3. \A i \in DOMAIN <<p, q>> : <<p, q>>[i] = p \/ <<p, q>>[i] = q
    BY <1>1
  <1>4. Within(<<p, q>>, from, to)
    BY <1>1, <1>3 DEF Within
  <1>5. \A i, j \in DOMAIN <<p, q>> :
            i < j => <<p, q>>[i] = p /\ <<p, q>>[j] = q
    <2>1. \A i, j \in {1, 2} : i < j => i = 1 /\ j = 2
      OBVIOUS
    <2>2. <<p, q>>[1] = p /\ <<p, q>>[2] = q
      OBVIOUS
    <2> QED BY <1>1, <2>1, <2>2
  <1>6. Disjoint(<<p, q>>)
    BY <1>5 DEF Disjoint, Apart
  <1> QED BY <1>2, <1>4, <1>6

-----------------------------------------------------------------------------
(***************************************************************************)
(* Copies of parameters                                                    *)
(***************************************************************************)
LEMMA NullIs == Null.len = 0
  BY DEF Null

LEMMA BlockPointer ==
  ASSUME NEW off, NEW len \in Nat \ {0}
  PROVE  InBlock(off, len).len = len /\ IsPointer(InBlock(off, len))
  BY DEF IsPointer, Null, InBlock

\* Bytes take as much of a block as the pointer that leads to them says.
LEMMA BytesPart ==
  ASSUME NEW off, NEW data, NEW mem, data.len \in Nat
  PROVE  /\ Part(off, Read(data, mem)).off = off
         /\ Part(off, Read(data, mem)).len = data.len
  <1>1. Len(Read(data, mem)) = data.len
    BY DEF Read
  <1> QED BY <1>1 DEF Part

LEMMA StructPartIs ==
  ASSUME NEW off, NEW len
  PROVE  StructPart(off, len).off = off /\ StructPart(off, len).len = len
  BY DEF StructPart

\* nci_mode_param_size and nci_mode_param_copy_impl agree, and the copy does
\* not leave the memory that its size stands for.
LEMMA ModeParamCopyFits ==
  ASSUME NEW param, IsParam(param), Sizes(build), NEW mode, NEW mem, NEW at \in Nat
  PROVE  LET copy == ModeParamCopy(param, mode, mem, at)
         IN  /\ param # Nothing => copy.size = ModeParamSize(param, mode)
             /\ copy.size \in Nat
             /\ IsParam(copy.param)
             /\ IsSeq(copy.parts)
             /\ Within(copy.parts, at, at + copy.size)
             /\ Disjoint(copy.parts)
  <1> DEFINE copy == ModeParamCopy(param, mode, mem, at)
             far == Align8(build.mode)
             struct == StructPart(at, build.mode)
  <1>1. /\ build.mode \in Nat /\ far \in Nat /\ build.mode <= far
        /\ param.data.len \in Nat
        /\ Align8(param.data.len) \in Nat /\ param.data.len <= Align8(param.data.len)
    BY Aligned DEF Sizes, IsParam, IsPointer
  <1>2. struct.off = at /\ struct.len = build.mode
    BY StructPartIs
  <1>3. CASE mode \notin CopiedModes
    <2>1. copy = [size |-> 0, param |-> Nothing, parts |-> << >>]
      BY <1>3 DEF ModeParamCopy
    <2>2. IsParam(Nothing)
      BY DEF Nothing, Struct, IsParam, IsPointer, Null
    <2>3. IsSeq(<< >>) /\ Within(<< >>, at, at + 0) /\ Disjoint(<< >>)
      BY NoParts
    <2>4. ModeParamSize(param, mode) = 0
      BY <1>3 DEF ModeParamSize
    <2> HIDE DEF copy
    <2>5. copy.size = 0 /\ copy.param = Nothing /\ copy.parts = << >>
      BY <2>1
    <2> QED BY <2>2, <2>3, <2>4, <2>5 DEF copy
  <1>4. CASE mode \in CopiedModes /\ mode \in ModesWithData /\ param.data # Null
    <2> DEFINE bytes == Part(at + far, Read(param.data, mem))
               moved == [param EXCEPT !.data = InBlock(at + far, param.data.len)]
    <2>1. copy = [size |-> far + Align8(param.data.len), param |-> moved,
                  parts |-> <<struct, bytes>>]
      BY <1>4 DEF ModeParamCopy
    <2>2. bytes.off = at + far /\ bytes.len = param.data.len
      BY <1>1, BytesPart
    <2>3. param.data.len \in Nat \ {0}
      BY <1>4 DEF IsParam, IsPointer
    <2>4. IsParam(moved)
      <3>1. IsPointer(InBlock(at + far, param.data.len))
        BY <2>3, BlockPointer
      <3>2. moved = [fields |-> param.fields,
                     data |-> InBlock(at + far, param.data.len)]
        BY DEF IsParam
      <3> QED BY <3>1, <3>2 DEF IsParam
    <2> HIDE DEF copy, bytes, moved, struct
    <2>5. LET to == at + (far + Align8(param.data.len))
          IN  /\ IsSeq(<<struct, bytes>>) /\ Within(<<struct, bytes>>, at, to)
              /\ Disjoint(<<struct, bytes>>)
      <3> DEFINE to == at + (far + Align8(param.data.len))
      <3>1. /\ struct.off \in Nat /\ struct.len \in Nat
            /\ bytes.off \in Nat /\ bytes.len \in Nat
            /\ at <= struct.off /\ struct.off + struct.len <= bytes.off
            /\ bytes.off + bytes.len <= to /\ to \in Nat
        BY <1>1, <1>2, <2>2
      <3> HIDE DEF to
      <3>2. /\ IsSeq(<<struct, bytes>>) /\ Within(<<struct, bytes>>, at, to)
            /\ Disjoint(<<struct, bytes>>)
        BY <3>1, TwoParts
      <3> QED BY <3>2 DEF to
    <2>6. param # Nothing => ModeParamSize(param, mode) = far + Align8(param.data.len)
      BY <1>4, <2>3 DEF ModeParamSize
    <2>7. /\ copy.size = far + Align8(param.data.len) /\ copy.param = moved
          /\ copy.parts = <<struct, bytes>>
      BY <2>1
    <2> QED BY <1>1, <2>4, <2>5, <2>6, <2>7 DEF copy
  <1>5. CASE mode \in CopiedModes /\ ~ (mode \in ModesWithData /\ param.data # Null)
    <2>1. copy = [size |-> build.mode, param |-> param, parts |-> <<struct>>]
      BY <1>5 DEF ModeParamCopy
    <2>2. param # Nothing => ModeParamSize(param, mode) = build.mode
      <3>1. mode \in ModesWithData => param.data.len = 0
        BY <1>5, NullIs
      <3> QED BY <1>5, <3>1 DEF ModeParamSize
    <2> HIDE DEF copy, struct
    <2>3. /\ IsSeq(<<struct>>) /\ Within(<<struct>>, at, at + build.mode)
          /\ Disjoint(<<struct>>)
      <3>1. /\ struct.off \in Nat /\ struct.len \in Nat /\ at <= struct.off
            /\ struct.off + struct.len <= at + build.mode /\ at + build.mode \in Nat
        BY <1>1, <1>2
      <3> QED BY <3>1, OnePart
    <2>4. copy.size = build.mode /\ copy.param = param /\ copy.parts = <<struct>>
      BY <2>1
    <2> QED BY <1>1, <2>2, <2>3, <2>4 DEF copy
  <1> QED BY <1>3, <1>4, <1>5

-----------------------------------------------------------------------------
(***************************************************************************)
(* Copies of notifications: elements of the array from `lo` to `hi`, and   *)
(* what they point to from `from` to `to`.                                 *)
(***************************************************************************)
Placed(parts, lo, hi, from, to) ==
    \A i \in DOMAIN parts :
        /\ parts[i].off \in Nat /\ parts[i].len \in Nat
        /\ \/ lo <= parts[i].off /\ parts[i].off + parts[i].len <= hi
           \/ from <= parts[i].off /\ parts[i].off + parts[i].len <= to

LEMMA ConcatenationAll ==
  ASSUME NEW s, NEW t, IsSeq(s), IsSeq(t), NEW lo, NEW hi, NEW from, NEW to,
         Placed(s, lo, hi, from, to), Placed(t, lo, hi, from, to)
  PROVE  Placed(s \o t, lo, hi, from, to)
  <1> DEFINE u == s \o t
             OK(p) == /\ p.off \in Nat /\ p.len \in Nat
                      /\ \/ lo <= p.off /\ p.off + p.len <= hi
                         \/ from <= p.off /\ p.off + p.len <= to
  <1>1. \A k \in DOMAIN u :
            \/ k \in DOMAIN s /\ u[k] = s[k]
            \/ k - Len(s) \in DOMAIN t /\ u[k] = t[k - Len(s)]
    BY Concatenation
  <1>2. (\A k \in DOMAIN s : OK(s[k])) /\ (\A k \in DOMAIN t : OK(t[k]))
    BY DEF Placed
  <1> HIDE DEF u, OK
  <1>3. \A k \in DOMAIN u : OK(u[k])
    BY <1>1, <1>2
  <1> QED BY <1>3 DEF Placed, OK, u

\* The parts of another element
LEMMA PlacedBehind ==
  ASSUME NEW s, NEW t, IsSeq(s), IsSeq(t), Disjoint(s), Disjoint(t),
         NEW lo \in Nat, NEW mid \in Nat, NEW hi \in Nat,
         NEW from \in Nat, NEW at \in Nat, NEW to \in Nat,
         lo <= mid, mid <= hi, hi <= from, from <= at, at <= to,
         Placed(s, lo, mid, from, at), Placed(t, mid, hi, at, to)
  PROVE  IsSeq(s \o t) /\ Placed(s \o t, lo, hi, from, to) /\ Disjoint(s \o t)
  <1>1. \A i \in DOMAIN s, j \in DOMAIN t : Apart(s[i], t[j])
    BY DEF Placed, Apart
  <1>2. Placed(s, lo, hi, from, to) /\ Placed(t, lo, hi, from, to)
    BY DEF Placed
  <1>3. Placed(s \o t, lo, hi, from, to)
    BY <1>2, ConcatenationAll
  <1> QED BY <1>1, <1>3, PartsApart, Concatenation

NtfWith(n, bytes, param) == [n EXCEPT !.bytes = bytes, !.param = param]

LEMMA NtfWithIs ==
  ASSUME NEW n, IsNtf(n), NEW bytes, NEW param
  PROVE  NtfWith(n, bytes, param) =
            [ok |-> n.ok, id |-> n.id, protocol |-> n.protocol, mode |-> n.mode,
             bytes |-> bytes, param |-> param, last |-> n.last]
  <1> DEFINE m == [n EXCEPT !.bytes = bytes]
  <1>1. m = [ok |-> n.ok, id |-> n.id, protocol |-> n.protocol, mode |-> n.mode,
             bytes |-> bytes, param |-> n.param, last |-> n.last]
    BY DEF IsNtf
  <1> HIDE DEF m
  <1>2. [m EXCEPT !.param = param] =
            [ok |-> n.ok, id |-> n.id, protocol |-> n.protocol, mode |-> n.mode,
             bytes |-> bytes, param |-> param, last |-> n.last]
    BY <1>1
  <1> QED BY <1>2 DEF m, NtfWith

LEMMA NtfCopyFits ==
  ASSUME NEW src, IsNtf(src.struct), Sizes(build), NEW at \in Nat, NEW ptr \in Nat,
         at + build.ntf <= ptr
  PROVE  LET next == NtfCopy(src, at, ptr)
         IN  /\ Need(src.struct) \in Nat
             /\ next.end = ptr + Need(src.struct)
             /\ IsNtf(next.entry)
             /\ next.entry.id = src.struct.id
             /\ next.entry.protocol = src.struct.protocol
             /\ IsSeq(next.parts)
             /\ Placed(next.parts, at, at + build.ntf, ptr, next.end)
             /\ Disjoint(next.parts)
  <1> DEFINE ntf == src.struct
             next == NtfCopy(src, at, ptr)
             struct == StructPart(at, build.ntf)
             bytes == Part(ptr, Read(ntf.bytes, src.mem))
             past == ptr + Align8(ntf.bytes.len)
             param == ModeParamCopy(ntf.param, ntf.mode, src.mem, past)
             one == <<struct>>
             two == <<struct, bytes>>
  <1>1. /\ build.ntf \in Nat /\ ntf.bytes.len \in Nat
        /\ Align8(ntf.bytes.len) \in Nat /\ ntf.bytes.len <= Align8(ntf.bytes.len)
        /\ IsParam(ntf.param)
    BY Aligned DEF Sizes, IsNtf
  <1>2. struct.off = at /\ struct.len = build.ntf
    BY StructPartIs
  <1>3. bytes.off = ptr /\ bytes.len = ntf.bytes.len
    BY <1>1, BytesPart
  <1>4. past \in Nat /\ ptr <= past
    BY <1>1
  <1>5. Align8(0) = 0
    BY DEF Align8
  <1>6. /\ IsSeq(one) /\ Disjoint(one)
        /\ \A to \in Nat : Placed(one, at, at + build.ntf, ptr, to)
    <2>1. Within(one, at, at + build.ntf) /\ IsSeq(one) /\ Disjoint(one)
      <3>1. /\ struct.off \in Nat /\ struct.len \in Nat /\ at <= struct.off
            /\ struct.off + struct.len <= at + build.ntf /\ at + build.ntf \in Nat
        BY <1>1, <1>2
      <3> HIDE DEF struct
      <3> QED BY <3>1, OnePart
    <2> HIDE DEF one
    <2> QED BY <2>1 DEF Within, Placed
  <1>7. /\ IsSeq(two) /\ Disjoint(two)
        /\ \A to \in Nat : past <= to => Placed(two, at, at + build.ntf, ptr, to)
    <2>1. Within(two, at, past) /\ IsSeq(two) /\ Disjoint(two)
      <3>1. /\ struct.off \in Nat /\ struct.len \in Nat /\ at <= struct.off
            /\ struct.off + struct.len <= bytes.off
            /\ bytes.off \in Nat /\ bytes.len \in Nat
            /\ bytes.off + bytes.len <= past
        BY <1>1, <1>2, <1>3
      <3> HIDE DEF struct, bytes, past
      <3> QED BY <1>4, <3>1, TwoParts
    <2>2. \A i \in DOMAIN two : two[i] = struct \/ two[i] = bytes
      <3>1. DOMAIN two = {1, 2} /\ two[1] = struct /\ two[2] = bytes
        OBVIOUS
      <3> HIDE DEF two
      <3> QED BY <3>1
    <2>3. ASSUME NEW to \in Nat, past <= to, NEW i \in DOMAIN two
          PROVE  \/ at <= two[i].off /\ two[i].off + two[i].len <= at + build.ntf
                 \/ ptr <= two[i].off /\ two[i].off + two[i].len <= to
      <3>1. CASE two[i] = struct
        <4> HIDE DEF two, struct
        <4> QED BY <1>1, <1>2, <3>1
      <3>2. CASE two[i] = bytes
        <4> HIDE DEF two, bytes
        <4> QED BY <1>1, <1>3, <2>3, <3>2
      <3> QED BY <2>2, <2>3, <3>1, <3>2
    <2> HIDE DEF two, past
    <2>4. \A i \in DOMAIN two : two[i].off \in Nat /\ two[i].len \in Nat
      BY <2>1 DEF Within
    <2> QED BY <2>1, <2>3, <2>4 DEF Placed
  <1>8. CASE ntf.bytes.len = 0
    <2>1. next = [entry |-> ntf, end |-> ptr, parts |-> one] /\ Need(ntf) = 0
      BY <1>8 DEF NtfCopy, Need
    <2> HIDE DEF next, one, ntf
    <2>2. next.entry = ntf /\ next.end = ptr /\ next.parts = one
      BY <2>1
    <2> QED BY <1>6, <2>1, <2>2 DEF next, ntf
  <1>9. CASE ntf.bytes.len # 0 /\ ntf.param = Nothing
    <2> DEFINE entry == [ntf EXCEPT !.bytes = InBlock(ptr, ntf.bytes.len)]
    <2>1. next = [entry |-> entry, end |-> past, parts |-> two]
      BY <1>9 DEF NtfCopy
    <2>2. Need(ntf) = Align8(ntf.bytes.len)
      BY <1>1, <1>5, <1>9 DEF Need, ModeParamSize
    <2>3. IsNtf(entry) /\ entry.id = ntf.id /\ entry.protocol = ntf.protocol
      <3>1. InBlock(ptr, ntf.bytes.len).len = ntf.bytes.len
        BY DEF InBlock
      <3>2. entry = [ok |-> ntf.ok, id |-> ntf.id, protocol |-> ntf.protocol,
                     mode |-> ntf.mode, bytes |-> InBlock(ptr, ntf.bytes.len),
                     param |-> ntf.param, last |-> ntf.last]
        BY DEF IsNtf
      <3> HIDE DEF entry, ntf
      <3> QED BY <1>1, <3>1, <3>2 DEF IsNtf
    <2> HIDE DEF next, two, entry, ntf
    <2>4. next.entry = entry /\ next.end = past /\ next.parts = two
      BY <2>1
    <2>5. /\ Need(ntf) \in Nat /\ past = ptr + Need(ntf)
          /\ Placed(two, at, at + build.ntf, ptr, past)
      BY <1>1, <1>4, <1>7, <2>2
    <2> HIDE DEF past
    <2> QED BY <1>7, <2>3, <2>4, <2>5 DEF next, ntf
  <1>10. CASE ntf.bytes.len # 0 /\ ntf.param # Nothing
    <2> DEFINE entry == NtfWith(ntf, InBlock(ptr, ntf.bytes.len), param.param)
               end == past + Align8(param.size)
    <2>1. next = [entry |-> entry, end |-> end, parts |-> two \o param.parts]
      BY <1>10 DEF NtfCopy, NtfWith
    <2>2. /\ param.size = ModeParamSize(ntf.param, ntf.mode)
          /\ param.size \in Nat
          /\ IsParam(param.param)
          /\ IsSeq(param.parts)
          /\ Within(param.parts, past, past + param.size)
          /\ Disjoint(param.parts)
      <3> HIDE DEF ntf, past
      <3> QED BY <1>1, <1>4, <1>10, ModeParamCopyFits
    <2>3. Need(ntf) = Align8(ntf.bytes.len) + Align8(param.size)
      BY <1>10, <2>2 DEF Need
    <2>4. Align8(param.size) \in Nat /\ param.size <= Align8(param.size)
      BY <2>2, Aligned
    <2>5. IsNtf(entry) /\ entry.id = ntf.id /\ entry.protocol = ntf.protocol
      <3>1. InBlock(ptr, ntf.bytes.len).len = ntf.bytes.len
        BY DEF InBlock
      <3>2. entry = [ok |-> ntf.ok, id |-> ntf.id, protocol |-> ntf.protocol,
                     mode |-> ntf.mode, bytes |-> InBlock(ptr, ntf.bytes.len),
                     param |-> param.param, last |-> ntf.last]
        <4> HIDE DEF param, ntf
        <4>1. IsNtf(ntf)
          BY DEF ntf
        <4> QED BY <4>1, NtfWithIs
      <3> HIDE DEF entry, ntf, param
      <3> QED BY <1>1, <2>2, <3>1, <3>2 DEF IsNtf
    <2> HIDE DEF next, two, entry, ntf, param
    <2>6. /\ Need(ntf) \in Nat /\ end = ptr + Need(ntf) /\ end \in Nat
          /\ past <= end /\ past + param.size <= end
      BY <1>1, <1>4, <2>2, <2>3, <2>4
    <2>7. Placed(two, at, at + build.ntf, ptr, end)
      BY <1>7, <2>6
    <2>8. Placed(param.parts, at, at + build.ntf, ptr, end)
      <3> HIDE DEF past, end
      <3> QED BY <1>4, <2>2, <2>6 DEF Within, Placed
    <2>9. \A i \in DOMAIN two, j \in DOMAIN param.parts : Apart(two[i], param.parts[j])
      <3>1. Placed(two, at, at + build.ntf, ptr, past)
        BY <1>4, <1>7
      <3> HIDE DEF past, end
      <3> QED BY <1>1, <1>4, <2>2, <3>1 DEF Placed, Within, Apart
    <2>10. /\ IsSeq(two \o param.parts) /\ Disjoint(two \o param.parts)
           /\ Placed(two \o param.parts, at, at + build.ntf, ptr, end)
      <3> HIDE DEF end, past
      <3>1. IsSeq(two \o param.parts)
        BY <1>7, <2>2, Concatenation
      <3>2. Disjoint(two \o param.parts)
        BY <1>7, <2>2, <2>9, PartsApart
      <3>3. Placed(two \o param.parts, at, at + build.ntf, ptr, end)
        BY <1>7, <2>2, <2>7, <2>8, ConcatenationAll
      <3> QED BY <3>1, <3>2, <3>3
    <2>11. next.entry = entry /\ next.end = end /\ next.parts = two \o param.parts
      BY <2>1
    <2> HIDE DEF end, past
    <2> QED BY <2>5, <2>6, <2>10, <2>11 DEF next, ntf
  <1> QED BY <1>8, <1>9, <1>10

-----------------------------------------------------------------------------
(***************************************************************************)
(* What is read in a copy. Where no parts overlap, a pointer to bytes that *)
(* are a part of the block leads to just these bytes.                      *)
(***************************************************************************)
Sound(parts) ==
    /\ IsSeq(parts) /\ Disjoint(parts)
    /\ \A i \in DOMAIN parts : parts[i].off \in Nat /\ parts[i].len \in Nat

Containing(parts, some) ==
    \A k \in DOMAIN some : \E i \in DOMAIN parts : parts[i] = some[k]

LEMMA ReadNothing ==
  ASSUME NEW data, data.len = 0, NEW mem, NEW other, NEW mem2, other.len = 0
  PROVE  Read(data, mem) = Read(other, mem2)
  <1>1. 1 .. 0 = {}
    OBVIOUS
  <1>2. \A f, g : DOMAIN f = {} /\ DOMAIN g = {} /\ f = [i \in {} |-> f[i]]
                     /\ g = [i \in {} |-> g[i]] => f = g
    OBVIOUS
  <1> QED BY <1>1 DEF Read

LEMMA ReadShape ==
  ASSUME NEW data, data.len \in Nat, NEW mem
  PROVE  /\ DOMAIN Read(data, mem) = 1 .. data.len
         /\ Read(data, mem) = [i \in 1 .. data.len |-> Read(data, mem)[i]]
         /\ Len(Read(data, mem)) = data.len
  BY DEF Read

LEMMA InBoth ==
  ASSUME NEW off \in Nat, NEW len \in Nat, NEW k \in 1 .. len,
         NEW a \in Nat, NEW l \in Nat, off + k - 1 \in a .. a + l - 1
  PROVE  ~ (a + l <= off \/ off + len <= a)
  OBVIOUS

LEMMA ReadPart ==
  ASSUME NEW parts, Sound(parts), NEW i \in DOMAIN parts, NEW off \in Nat,
         NEW bytes, NEW len \in Nat \ {0}, bytes = [k \in 1 .. len |-> bytes[k]],
         parts[i] = Part(off, bytes), NEW q
  PROVE  Read(InBlock(off, len), Memory(q, parts)) = bytes
  <1> DEFINE At(x) == {p \in ToSet(parts) :
                          p.bytes # << >> /\ x \in p.off .. p.off + p.len - 1}
             own == Part(off, bytes)
  <1>1. /\ own.off = off /\ own.len = len /\ own.bytes = bytes
        /\ own.bytes # << >> /\ own \in ToSet(parts)
    <2>1. Len(bytes) = len /\ DOMAIN bytes # {}
      <3>1. 1 \in 1 .. len
        OBVIOUS
      <3> QED BY <3>1
    <2> QED BY <2>1 DEF Part, ToSet
  <1>2. DOMAIN parts \subseteq Nat
    BY Concatenation DEF Sound
  <1>3. ASSUME NEW k \in 1 .. len PROVE At(off + k - 1) = {own}
    <2>1. off + k - 1 \in own.off .. own.off + own.len - 1
      <3> HIDE DEF own
      <3> QED BY <1>1
    <2>2. ASSUME NEW p \in At(off + k - 1) PROVE p = own
      <3>1. PICK j \in DOMAIN parts : p = parts[j]
        BY DEF ToSet
      <3>2. CASE j # i
        <4>1. Apart(parts[j], parts[i]) \/ Apart(parts[i], parts[j])
          BY <1>2, <3>2 DEF Sound, Disjoint
        <4>2. off + k - 1 \in p.off .. p.off + p.len - 1 /\ p.off \in Nat /\ p.len \in Nat
          BY <3>1 DEF Sound
        <4> HIDE DEF own, At
        <4>3. parts[i] = own
          BY DEF own
        <4>4. p.off + p.len <= off \/ off + len <= p.off
          BY <1>1, <3>1, <4>1, <4>3 DEF Apart
        <4> QED BY <4>2, <4>4, InBoth
      <3> QED BY <3>1, <3>2
    <2> QED BY <1>1, <2>1, <2>2
  <1>4. ASSUME NEW k \in 1 .. len
        PROVE  Read(InBlock(off, len), Memory(q, parts))[k] = bytes[k]
    <2> DEFINE x == off + k - 1
    <2>1. Read(InBlock(off, len), Memory(q, parts))[k] =
            IF At(x) = {} THEN 0
            ELSE LET p == CHOOSE p \in At(x) : TRUE IN p.bytes[x - p.off + 1]
      BY DEF Read, InBlock, Memory
    <2>2. At(x) = {own}
      BY <1>3
    <2>3. (CHOOSE p \in {own} : TRUE) = own
      OBVIOUS
    <2>4. x - own.off + 1 = k
      <3> HIDE DEF own
      <3> QED BY <1>1
    <2> HIDE DEF x, At, own
    <2> QED BY <1>1, <2>1, <2>2, <2>3, <2>4
  <1>5. InBlock(off, len).len = len
    BY DEF InBlock
  <1>6. Read(InBlock(off, len), Memory(q, parts))
           = [k \in 1 .. len |-> Read(InBlock(off, len), Memory(q, parts))[k]]
    BY <1>5, ReadShape
  <1> QED BY <1>4, <1>6

\* A parameter of a mode that is copied, with data only where they are copied
FitsMode(param, mode) ==
    /\ mode \notin CopiedModes => param = Nothing
    /\ mode \notin ModesWithData => param.data = Null

LEMMA ModeParamCopyReads ==
  ASSUME NEW param, IsParam(param), Sizes(build), NEW mode, FitsMode(param, mode),
         NEW mem, NEW at \in Nat, NEW parts, Sound(parts),
         Containing(parts, ModeParamCopy(param, mode, mem, at).parts), NEW q
  PROVE  LET copy == ModeParamCopy(param, mode, mem, at)
         IN  /\ copy.param.fields = param.fields
             /\ Read(copy.param.data, Memory(q, parts)) = Read(param.data, mem)
             /\ FitsMode(copy.param, mode)
  <1> DEFINE copy == ModeParamCopy(param, mode, mem, at)
             far == Align8(build.mode)
             struct == StructPart(at, build.mode)
  <1>1. /\ far \in Nat /\ at + far \in Nat /\ param.data.len \in Nat
        /\ param = [fields |-> param.fields, data |-> param.data]
        /\ param.data.len = 0 <=> param.data = Null
    BY Aligned DEF Sizes, IsParam, IsPointer
  <1>3. CASE mode \notin CopiedModes
    <2>1. copy = [size |-> 0, param |-> Nothing, parts |-> << >>]
      BY <1>3 DEF ModeParamCopy
    <2>2. param = Nothing
      BY <1>3 DEF FitsMode
    <2> HIDE DEF copy
    <2>3. copy.param = param /\ param.data = Null
      BY <2>1, <2>2 DEF Nothing, Struct
    <2> QED BY <2>3, NullIs, ReadNothing DEF copy
  <1>4. CASE mode \in CopiedModes /\ mode \in ModesWithData /\ param.data # Null
    <2> DEFINE to == at + far
               bytes == Read(param.data, mem)
               part == Part(to, bytes)
               moved == [param EXCEPT !.data = InBlock(to, param.data.len)]
    <2>1. copy = [size |-> far + Align8(param.data.len), param |-> moved,
                  parts |-> <<struct, part>>]
      BY <1>4 DEF ModeParamCopy
    <2>2. moved = [fields |-> param.fields, data |-> InBlock(to, param.data.len)]
      BY <1>1
    <2> HIDE DEF copy, moved, part, struct
    <2>3. copy.parts = <<struct, part>> /\ copy.param = moved
      BY <2>1
    <2>4. \E i \in DOMAIN parts : parts[i] = part
      <3>1. 2 \in DOMAIN copy.parts /\ copy.parts[2] = part
        BY <2>3
      <3> QED BY <3>1 DEF Containing, copy
    <2>5. param.data.len \in Nat \ {0}
      BY <1>1, <1>4
    <2>6. bytes = [k \in 1 .. param.data.len |-> bytes[k]]
      BY <1>1, ReadShape
    <2> HIDE DEF bytes, to
    <2>7. Read(InBlock(to, param.data.len), Memory(q, parts)) = bytes
      BY <1>1, <2>4, <2>5, <2>6, ReadPart DEF part, to
    <2>9. /\ copy.param.fields = param.fields
          /\ copy.param.data = InBlock(to, param.data.len)
      BY <2>2, <2>3
    <2> QED BY <1>4, <2>7, <2>9 DEF copy, bytes, FitsMode
  <1>5. CASE mode \in CopiedModes /\ ~ (mode \in ModesWithData /\ param.data # Null)
    <2>1. copy = [size |-> build.mode, param |-> param, parts |-> <<struct>>]
      BY <1>5 DEF ModeParamCopy
    <2>2. param.data = Null
      BY <1>5 DEF FitsMode
    <2> HIDE DEF copy, struct
    <2>3. copy.param = param
      BY <2>1
    <2> QED BY <2>2, <2>3, NullIs, ReadNothing DEF copy
  <1> QED BY <1>3, <1>4, <1>5

\* What a notification says, its pointers being followed
Content(n, mem) ==
    [id |-> n.id, protocol |-> n.protocol, mode |-> n.mode,
     bytes |-> Read(n.bytes, mem), fields |-> n.param.fields,
     data |-> Read(n.param.data, mem), last |-> n.last]

WellMade(n) ==
    /\ n.bytes.len = 0 => n.bytes = Null /\ n.param = Nothing
    /\ FitsMode(n.param, n.mode)

LEMMA NtfCopyReads ==
  ASSUME NEW src, IsNtf(src.struct), WellMade(src.struct), Sizes(build),
         NEW at \in Nat, NEW ptr \in Nat, NEW parts, Sound(parts),
         Containing(parts, NtfCopy(src, at, ptr).parts)
  PROVE  LET entry == NtfCopy(src, at, ptr).entry
         IN  /\ WellMade(entry)
             /\ \A q : Content(entry, Memory(q, parts)) = Content(src.struct, src.mem)
  <1> DEFINE ntf == src.struct
             len == ntf.bytes.len
             next == NtfCopy(src, at, ptr)
             struct == StructPart(at, build.ntf)
             read == Read(ntf.bytes, src.mem)
             bytes == Part(ptr, read)
             past == ptr + Align8(len)
             param == ModeParamCopy(ntf.param, ntf.mode, src.mem, past)
             two == <<struct, bytes>>
             there == InBlock(ptr, len)
  <1>1. len \in Nat /\ past \in Nat /\ IsParam(ntf.param)
    BY Aligned DEF IsNtf
  <1>2. Nothing.data = Null
    BY DEF Nothing, Struct
  <1>3. read = [k \in 1 .. len |-> read[k]]
    BY <1>1, ReadShape
  <1>4. ASSUME len # 0, \E i \in DOMAIN parts : parts[i] = bytes
        PROVE  \A q : Read(there, Memory(q, parts)) = read
    <2>1. len \in Nat \ {0}
      BY <1>1, <1>4
    <2> HIDE DEF read, len
    <2> QED BY <1>3, <1>4, <2>1, ReadPart
  <1>5. /\ len = 0 => ntf.bytes = Null /\ ntf.param = Nothing
        /\ FitsMode(ntf.param, ntf.mode)
    BY DEF WellMade
  <1>6. CASE len = 0
    <2>1. next = [entry |-> ntf, end |-> ptr, parts |-> <<struct>>]
      BY <1>6 DEF NtfCopy
    <2> HIDE DEF next
    <2>2. next.entry = ntf
      BY <2>1
    <2>3. WellMade(ntf)
      OBVIOUS
    <2>4. ASSUME NEW q PROVE Content(ntf, Memory(q, parts)) = Content(ntf, src.mem)
      <3>1. ntf.bytes.len = 0 /\ ntf.param.data.len = 0
        BY <1>2, <1>5, <1>6, NullIs
      <3>2. /\ Read(ntf.bytes, Memory(q, parts)) = Read(ntf.bytes, src.mem)
            /\ Read(ntf.param.data, Memory(q, parts)) = Read(ntf.param.data, src.mem)
        BY <3>1, ReadNothing
      <3> QED BY <3>2 DEF Content
    <2> QED BY <2>2, <2>3, <2>4 DEF next
  <1>7. CASE len # 0 /\ ntf.param = Nothing
    <2> DEFINE entry == [ntf EXCEPT !.bytes = there]
    <2>1. next = [entry |-> entry, end |-> past, parts |-> two]
      BY <1>7 DEF NtfCopy
    <2>2. entry = [ok |-> ntf.ok, id |-> ntf.id, protocol |-> ntf.protocol,
                   mode |-> ntf.mode, bytes |-> there, param |-> ntf.param,
                   last |-> ntf.last]
      BY DEF IsNtf
    <2> HIDE DEF next, entry, two
    <2>3. next.entry = entry /\ next.parts = two
      BY <2>1
    <2>4. \E i \in DOMAIN parts : parts[i] = bytes
      <3>1. 2 \in DOMAIN next.parts /\ next.parts[2] = bytes
        BY <2>3 DEF two
      <3> QED BY <3>1 DEF Containing, next
    <2>5. \A q : Read(there, Memory(q, parts)) = read
      BY <1>4, <1>7, <2>4
    <2>6. \A q : Read(ntf.param.data, Memory(q, parts)) = Read(ntf.param.data, src.mem)
      BY <1>2, <1>7, NullIs, ReadNothing
    <2>7. there.len = len
      BY DEF InBlock
    <2> HIDE DEF there
    <2>8. /\ entry.bytes = there /\ entry.param = ntf.param /\ entry.mode = ntf.mode
          /\ entry.id = ntf.id /\ entry.protocol = ntf.protocol /\ entry.last = ntf.last
      BY <2>2
    <2>9. WellMade(entry)
      BY <1>2, <1>5, <1>7, <2>7, <2>8 DEF WellMade
    <2>10. \A q : Content(entry, Memory(q, parts)) = Content(ntf, src.mem)
      BY <2>5, <2>6, <2>8 DEF Content
    <2> QED BY <2>3, <2>9, <2>10 DEF next
  <1>8. CASE len # 0 /\ ntf.param # Nothing
    <2> DEFINE entry == NtfWith(ntf, there, param.param)
    <2>1. next = [entry |-> entry, end |-> past + Align8(param.size),
                  parts |-> two \o param.parts]
      BY <1>8 DEF NtfCopy, NtfWith
    <2>2. entry = [ok |-> ntf.ok, id |-> ntf.id, protocol |-> ntf.protocol,
                   mode |-> ntf.mode, bytes |-> there, param |-> param.param,
                   last |-> ntf.last]
      <3> HIDE DEF param, there
      <3> QED BY NtfWithIs
    <2>3. IsSeq(two) /\ IsSeq(param.parts)
      <3>1. IsSeq(two)
        <4>1. two \in Seq({struct, bytes})
          OBVIOUS
        <4> QED BY <4>1, IsSeqOf
      <3>2. IsSeq(param.parts)
        <4> HIDE DEF past, ntf
        <4> QED BY <1>1, ModeParamCopyFits
      <3> QED BY <3>1, <3>2
    <2>4. Len(two) = 2 /\ two[2] = bytes
      OBVIOUS
    <2> HIDE DEF next, entry, two
    <2>5. next.entry = entry /\ next.parts = two \o param.parts
      BY <2>1
    <2>6. \E i \in DOMAIN parts : parts[i] = bytes
      <3>1. 2 \in DOMAIN next.parts /\ next.parts[2] = bytes
        <4> HIDE DEF param, bytes
        <4> QED BY <2>3, <2>4, <2>5, ConcatenationGives
      <3> QED BY <3>1 DEF Containing, next
    <2>7. Containing(parts, param.parts)
      <3> SUFFICES ASSUME NEW k \in DOMAIN param.parts
                   PROVE  \E i \in DOMAIN parts : parts[i] = param.parts[k]
        BY DEF Containing
      <3> HIDE DEF param
      <3> DEFINE both == two \o param.parts
      <3>1. Len(two) + k \in DOMAIN both /\ both[Len(two) + k] = param.parts[k]
        BY <2>3, ConcatenationGives
      <3> HIDE DEF both
      <3>2. 2 + k \in DOMAIN next.parts /\ next.parts[2 + k] = param.parts[k]
        BY <2>4, <2>5, <3>1 DEF both
      <3> QED BY <3>2 DEF Containing, next
    <2>8. \A q : Read(there, Memory(q, parts)) = read
      BY <1>4, <1>8, <2>6
    <2>9. /\ param.param.fields = ntf.param.fields
          /\ \A q : Read(param.param.data, Memory(q, parts))
                        = Read(ntf.param.data, src.mem)
          /\ FitsMode(param.param, ntf.mode)
      <3> HIDE DEF past, ntf
      <3> QED BY <1>1, <1>5, <2>7, ModeParamCopyReads
    <2>10. there.len = len
      BY DEF InBlock
    <2> HIDE DEF there, param
    <2>11. /\ entry.bytes = there /\ entry.param = param.param /\ entry.mode = ntf.mode
           /\ entry.id = ntf.id /\ entry.protocol = ntf.protocol /\ entry.last = ntf.last
      BY <2>2
    <2>12. WellMade(entry)
      BY <1>2, <1>8, <2>9, <2>10, <2>11 DEF WellMade
    <2>13. \A q : Content(entry, Memory(q, parts)) = Content(ntf, src.mem)
      BY <2>8, <2>9, <2>11 DEF Content
    <2> QED BY <2>5, <2>12, <2>13 DEF next
  <1> QED BY <1>6, <1>7, <1>8

-----------------------------------------------------------------------------
(***************************************************************************)
(* The loops: over the notifications, to find out how much memory their    *)
(* copies need, again to copy them, and over the targets. What holds after *)
(* the n first turns is shown by the least n that it does not hold of.     *)
(***************************************************************************)
LEMMA LeastNatural ==
  ASSUME NEW T, T \subseteq Nat, T # {}
  PROVE  \E n \in T : \A m \in T : ~ (m < n)
  <1> DEFINE R == OpToRel(<, Nat)
  <1>1. IsWellFoundedOn(R, Nat)
    BY NatLessThanWellFounded, Zenon
  <1>2. \A m, n \in Nat : m < n => <<m, n>> \in R
    BY DEF OpToRel
  <1> HIDE DEF R
  <1>3. \E n \in T : \A m \in T : ~ (<<m, n>> \in R)
    BY <1>1, WFMin
  <1> QED BY <1>2, <1>3

\* What a turn does
Turn(loop, done, list, i) ==
    CASE loop = "size" -> done + Need(list[i].struct)
      [] loop = "copy" -> CopyNext(done, list[i], (i - 1) * build.ntf)
      [] loop = "head" -> Insert(done, list[i])

\* f is what there is after each of the n first turns.
Turns(f, loop, first, list, n) ==
    f = [i \in 0 .. n |-> IF i = 0 THEN first ELSE Turn(loop, f[i - 1], list, i)]

LEMMA TurnsExist ==
  ASSUME NEW loop, NEW first, NEW list, NEW n \in Nat
  PROVE  \E f : Turns(f, loop, first, list, n)
  <1> DEFINE T == {m \in Nat : ~ \E f : Turns(f, loop, first, list, m)}
  <1>1. SUFFICES ASSUME T # {} PROVE FALSE
    OBVIOUS
  <1>2. PICK m \in T : \A j \in T : ~ (j < m)
    BY <1>1, LeastNatural
  <1>3. m \in Nat /\ ~ \E f : Turns(f, loop, first, list, m)
    OBVIOUS
  <1>4. CASE m = 0
    <2>1. Turns([i \in 0 .. 0 |-> first], loop, first, list, 0)
      BY DEF Turns
    <2> QED BY <1>3, <1>4, <2>1
  <1>5. CASE m # 0
    <2>1. m - 1 \in Nat /\ m - 1 < m
      BY <1>3, <1>5
    <2>2. PICK g : Turns(g, loop, first, list, m - 1)
      BY <1>2, <2>1
    <2> DEFINE next == Turn(loop, g[m - 1], list, m)
               f == [i \in 0 .. m |-> IF i = m THEN next ELSE g[i]]
    <2>3. \A i \in 0 .. m - 1 : g[i] = IF i = 0 THEN first
                                       ELSE Turn(loop, g[i - 1], list, i)
      BY <2>2 DEF Turns
    <2> HIDE DEF next
    <2>4. (\A i \in 0 .. m - 1 : f[i] = g[i]) /\ f[m] = next
      BY <1>3
    <2>5. f = [i \in 0 .. m |-> f[i]]
      OBVIOUS
    <2> HIDE DEF f
    <2>6. ASSUME NEW i \in 0 .. m
          PROVE  f[i] = IF i = 0 THEN first ELSE Turn(loop, f[i - 1], list, i)
      <3>1. CASE i = m
        <4>1. f[i - 1] = g[m - 1]
          BY <2>1, <2>4, <3>1
        <4> QED BY <1>5, <2>4, <3>1, <4>1 DEF next
      <3>2. CASE i # m
        <4>1. i \in 0 .. m - 1
          BY <1>3, <3>2
        <4>2. i # 0 => f[i - 1] = g[i - 1]
          BY <1>3, <2>4, <4>1
        <4> QED BY <2>3, <2>4, <4>1, <4>2
      <3> QED BY <3>1, <3>2
    <2>7. Turns(f, loop, first, list, m)
      BY <2>5, <2>6 DEF Turns
    <2> QED BY <1>3, <2>7
  <1> QED BY <1>4, <1>5

LEMMA TurnsAre ==
  ASSUME NEW loop, NEW first, NEW list, NEW n \in Nat, NEW f,
         Turns(f, loop, first, list, n)
  PROVE  /\ f[0] = first
         /\ \A i \in 1 .. n : f[i] = Turn(loop, f[i - 1], list, i)
  <1>1. \A i \in 0 .. n : f[i] = IF i = 0 THEN first
                                 ELSE Turn(loop, f[i - 1], list, i)
    BY DEF Turns
  <1> QED BY <1>1

LEMMA AppendFacts ==
  ASSUME NEW s, IsSeq(s), NEW e
  PROVE  /\ IsSeq(Append(s, e))
         /\ Len(s) \in Nat /\ Len(Append(s, e)) = Len(s) + 1
         /\ DOMAIN s = 1 .. Len(s) /\ DOMAIN Append(s, e) = 1 .. Len(s) + 1
         /\ \A i \in 1 .. Len(s) : Append(s, e)[i] = s[i]
         /\ Append(s, e)[Len(s) + 1] = e
  <1> DEFINE S == {s[i] : i \in DOMAIN s}
             U == S \cup {e}
  <1>1. s \in Seq(S)
    BY DEF IsSeq
  <1> HIDE DEF S
  <1>2. s \in Seq(U) /\ e \in U
    BY <1>1
  <1> HIDE DEF U
  <1>3. Append(s, e) \in Seq(U)
    BY <1>2
  <1>4. IsSeq(Append(s, e))
    BY <1>3, IsSeqOf
  <1> QED BY <1>2, <1>4

\* Copies of the same targets
Matches(entries, list) ==
    /\ Len(entries) = Len(list)
    /\ \A i \in 1 .. Len(list) : /\ entries[i].id = list[i].id
                                 /\ entries[i].protocol = list[i].protocol

Sources(srcs) == /\ IsSeq(srcs)
                 /\ \A i \in 1 .. Len(srcs) : IsNtf(srcs[i].struct)

\* entry is what NtfCopy makes of src, and `parts` has what it points to.
CopyOf(entry, src, parts) ==
    \E at, ptr \in Nat : /\ entry = NtfCopy(src, at, ptr).entry
                         /\ Containing(parts, NtfCopy(src, at, ptr).parts)

LEMMA ContainingMore ==
  ASSUME NEW s, NEW t, IsSeq(s), IsSeq(t)
  PROVE  /\ Containing(s \o t, t)
         /\ \A entry, src : CopyOf(entry, src, s) => CopyOf(entry, src, s \o t)
  <1> DEFINE u == s \o t
  <1>1. /\ \A k \in DOMAIN s : k \in DOMAIN u /\ u[k] = s[k]
        /\ \A k \in DOMAIN t : Len(s) + k \in DOMAIN u /\ u[Len(s) + k] = t[k]
    BY ConcatenationGives
  <1> HIDE DEF u
  <1>2. Containing(u, t)
    BY <1>1 DEF Containing
  <1>3. \A some : Containing(s, some) => Containing(u, some)
    BY <1>1 DEF Containing
  <1>4. \A entry, src : CopyOf(entry, src, s) => CopyOf(entry, src, u)
    BY <1>3 DEF CopyOf
  <1> QED BY <1>2, <1>4 DEF u

\* What the second loop has copied after n turns, `size` being what the first
\* one has counted by then
Copied(done, size, srcs, n) ==
    /\ size \in Nat /\ done.end = size
    /\ Align8(build.ntf * Len(srcs)) <= size
    /\ IsSeq(done.entries) /\ Len(done.entries) = n
    /\ \A i \in 1 .. n : /\ IsNtf(done.entries[i])
                         /\ done.entries[i].id = srcs[i].struct.id
                         /\ done.entries[i].protocol = srcs[i].struct.protocol
                         /\ CopyOf(done.entries[i], srcs[i], done.parts)
    /\ IsSeq(done.parts)
    /\ Placed(done.parts, 0, n * build.ntf, Align8(build.ntf * Len(srcs)), size)
    /\ Disjoint(done.parts)

LEMMA CopyNextFits ==
  ASSUME NEW srcs, Sources(srcs), Sizes(build), NEW done, NEW size,
         NEW n \in 1 .. Len(srcs), Copied(done, size, srcs, n - 1)
  PROVE  Copied(CopyNext(done, srcs[n], (n - 1) * build.ntf),
                size + Need(srcs[n].struct), srcs, n)
  <1> DEFINE whole == build.ntf * Len(srcs)
             array == Align8(whole)
             at == (n - 1) * build.ntf
             after == n * build.ntf
             ntf == build.ntf
             src == srcs[n]
             next == NtfCopy(src, at, done.end)
             need == Need(src.struct)
             more == size + need
             result == CopyNext(done, src, at)
  <1>1. Len(srcs) \in Nat /\ n \in Nat /\ n - 1 \in Nat /\ n # 0
    BY DEF Sources, IsSeq
  <1>2. /\ at \in Nat /\ ntf \in Nat /\ at + ntf = after /\ at <= after
        /\ after \in Nat /\ after <= whole /\ whole \in Nat
    <2>1. ntf \in Nat
      BY DEF Sizes
    <2>2. whole \in Nat
      BY <1>1, <2>1
    <2>3. at \in Nat /\ at + ntf = after /\ after \in Nat /\ after <= whole
      BY <1>1, <2>1, ElementsFit
    <2> HIDE DEF at, after, whole, ntf
    <2> QED BY <2>1, <2>2, <2>3
  <1> HIDE DEF whole
  <1>3. array \in Nat /\ after <= array
    <2>1. array \in Nat /\ whole <= array
      BY <1>2, Aligned
    <2> HIDE DEF array, after
    <2> QED BY <1>2, <2>1
  <1>4. size \in Nat /\ done.end = size /\ array <= size
    BY DEF Copied, whole
  <1>5. IsNtf(src.struct)
    BY DEF Sources
  <1>6. Placed(done.parts, 0, at, array, size) /\ IsSeq(done.parts) /\ Disjoint(done.parts)
    BY DEF Copied, whole
  <1> HIDE DEF array
  <1>11. /\ need \in Nat
         /\ next.end = done.end + need
         /\ IsNtf(next.entry)
         /\ next.entry.id = src.struct.id
         /\ next.entry.protocol = src.struct.protocol
         /\ IsSeq(next.parts)
         /\ Placed(next.parts, at, at + ntf, done.end, next.end)
         /\ Disjoint(next.parts)
    <2>1. done.end \in Nat /\ at + ntf <= done.end
      <3> HIDE DEF at, after, ntf
      <3> QED BY <1>2, <1>3, <1>4
    <2> HIDE DEF at, src
    <2> QED BY <1>2, <1>5, <2>1, NtfCopyFits
  <1>7. /\ result.entries = Append(done.entries, next.entry)
        /\ result.end = next.end
        /\ result.parts = done.parts \o next.parts
    BY DEF CopyNext
  <1> HIDE DEF result, next, need, at, after, ntf
  <1>8. more \in Nat /\ result.end = more /\ array <= more /\ size <= more
    <2>1. array \in Nat /\ size \in Nat /\ need \in Nat /\ array <= size
      BY <1>3, <1>4, <1>11
    <2>2. result.end = more
      BY <1>4, <1>7, <1>11
    <2>3. more \in Nat /\ array <= more /\ size <= more
      BY <2>1
    <2> QED BY <2>2, <2>3
  <1>9. /\ IsSeq(result.entries) /\ Len(result.entries) = n
        /\ \A i \in 1 .. n : /\ IsNtf(result.entries[i])
                             /\ result.entries[i].id = srcs[i].struct.id
                             /\ result.entries[i].protocol = srcs[i].struct.protocol
                             /\ CopyOf(result.entries[i], srcs[i], result.parts)
    <2>1. /\ IsSeq(done.entries) /\ Len(done.entries) = n - 1
          /\ \A i \in 1 .. n - 1 :
                /\ IsNtf(done.entries[i])
                /\ done.entries[i].id = srcs[i].struct.id
                /\ done.entries[i].protocol = srcs[i].struct.protocol
                /\ CopyOf(done.entries[i], srcs[i], done.parts)
      BY DEF Copied
    <2>2. /\ IsSeq(result.entries)
          /\ Len(result.entries) = (n - 1) + 1
          /\ \A i \in 1 .. n - 1 : result.entries[i] = done.entries[i]
          /\ result.entries[(n - 1) + 1] = next.entry
      BY <1>7, <2>1, AppendFacts
    <2>3. (n - 1) + 1 = n /\ \A i \in 1 .. n : i = n \/ i \in 1 .. n - 1
      BY <1>1
    <2>4. /\ \A entry, s : CopyOf(entry, s, done.parts) => CopyOf(entry, s, result.parts)
          /\ Containing(result.parts, next.parts)
      BY <1>6, <1>7, <1>11, ContainingMore
    <2>5. CopyOf(next.entry, src, result.parts)
      <3>1. done.end \in Nat
        BY <1>4
      <3> QED BY <1>2, <2>4, <3>1 DEF CopyOf, next
    <2>6. srcs[n] = src
      OBVIOUS
    <2> HIDE DEF src
    <2> QED BY <1>11, <2>1, <2>2, <2>3, <2>4, <2>5, <2>6
  <1>10. /\ IsSeq(result.parts) /\ Disjoint(result.parts)
         /\ Placed(result.parts, 0, after, array, more)
    <2>1. Placed(next.parts, at, after, size, more)
      <3>1. next.end = more
        BY <1>7, <1>8
      <3> HIDE DEF more
      <3> QED BY <1>2, <1>4, <1>11, <3>1
    <2>2. 0 \in Nat /\ 0 <= at
      BY <1>2
    <2> HIDE DEF more
    <2>3. /\ IsSeq(done.parts \o next.parts) /\ Disjoint(done.parts \o next.parts)
          /\ Placed(done.parts \o next.parts, 0, after, array, more)
      BY <1>2, <1>3, <1>4, <1>6, <1>11, <1>8, <2>1, <2>2, PlacedBehind
    <2> QED BY <1>7, <2>3
  <1> QED BY <1>8, <1>9, <1>10 DEF Copied, array, result, after, whole, need, at

\* nci_discovery_ntf_copy_array: however many notifications there are, their
\* copies fill the block that has been allocated for them, and no more.
LEMMA NtfCopyArrayFits ==
  ASSUME NEW srcs, Sources(srcs), Sizes(build)
  PROVE  LET block == NtfCopyArray(srcs)
         IN  /\ Fits(block)
             /\ IsSeq(block.entries) /\ Len(block.entries) = Len(srcs)
             /\ \A i \in 1 .. Len(srcs) :
                   /\ IsNtf(block.entries[i])
                   /\ block.entries[i].id = srcs[i].struct.id
                   /\ block.entries[i].protocol = srcs[i].struct.protocol
                   /\ CopyOf(block.entries[i], srcs[i], block.parts)
             /\ Sound(block.parts)
  <1> DEFINE count == Len(srcs)
             whole == build.ntf * count
             array == Align8(whole)
             start == [entries |-> << >>, end |-> array, parts |-> << >>]
             block == NtfCopyArray(srcs)
  <1>1. count \in Nat
    BY DEF Sources, IsSeq
  <1>2. array \in Nat /\ whole \in Nat /\ whole <= array /\ count * build.ntf = whole
    <2>1. build.ntf \in Nat
      BY DEF Sizes
    <2>2. whole \in Nat /\ count * build.ntf = whole
      BY <1>1, <2>1
    <2> HIDE DEF whole
    <2> QED BY <2>2, Aligned
  <1>3. PICK size, copy : /\ Turns(size, "size", array, srcs, count)
                          /\ Turns(copy, "copy", start, srcs, count)
                          /\ block = [size |-> size[count],
                                      entries |-> copy[count].entries,
                                      parts |-> copy[count].parts]
    <2> DEFINE s == CHOOSE f : Turns(f, "size", array, srcs, count)
               c == CHOOSE f : Turns(f, "copy", start, srcs, count)
    <2>1. Turns(s, "size", array, srcs, count) /\ Turns(c, "copy", start, srcs, count)
      <3> HIDE DEF count, array, start
      <3>1. \E f : Turns(f, "size", array, srcs, count)
        BY <1>1, TurnsExist, Zenon
      <3>2. \E f : Turns(f, "copy", start, srcs, count)
        BY <1>1, TurnsExist, Zenon
      <3> QED BY <3>1, <3>2
    <2>2. block = [size |-> s[count], entries |-> c[count].entries,
                   parts |-> c[count].parts]
      BY DEF NtfCopyArray, Turns, Turn
    <2> QED BY <2>1, <2>2
  <1> HIDE DEF block, start, array, whole
  <1>4. \A i \in 0 .. count : Copied(copy[i], size[i], srcs, i)
    <2> DEFINE T == {i \in Nat : i <= count /\ ~Copied(copy[i], size[i], srcs, i)}
    <2> SUFFICES ASSUME T # {} PROVE FALSE
      BY <1>1
    <2>1. PICK n \in T : \A m \in T : ~ (m < n)
      BY LeastNatural
    <2>2. n \in Nat /\ n <= count /\ ~Copied(copy[n], size[n], srcs, n)
      OBVIOUS
    <2>3. CASE n = 0
      <3>1. size[0] = array /\ copy[0] = start
        <4> HIDE DEF count
        <4> QED BY <1>1, <1>3 DEF Turns
      <3>2. start.entries = << >> /\ start.end = array /\ start.parts = << >>
        BY DEF start
      <3>3. Placed(<< >>, 0, 0 * build.ntf, array, array)
        BY DEF Placed
      <3>4. Copied(start, array, srcs, 0)
        BY <1>2, <3>2, <3>3, NoParts DEF Copied, array, whole
      <3> QED BY <2>2, <2>3, <3>1, <3>4
    <2>4. CASE n # 0
      <3>1. n \in 1 .. count /\ n - 1 \in Nat /\ n - 1 < n /\ n - 1 <= count
        BY <1>1, <2>2, <2>4
      <3>2. Copied(copy[n - 1], size[n - 1], srcs, n - 1)
        BY <2>1, <3>1
      <3>3. /\ size[n] = Turn("size", size[n - 1], srcs, n)
            /\ copy[n] = Turn("copy", copy[n - 1], srcs, n)
        BY <1>1, <1>3, <3>1, TurnsAre
      <3>4. /\ size[n] = size[n - 1] + Need(srcs[n].struct)
            /\ copy[n] = CopyNext(copy[n - 1], srcs[n], (n - 1) * build.ntf)
        BY <3>3 DEF Turn
      <3> QED BY <2>2, <3>1, <3>2, <3>4, CopyNextFits
    <2> QED BY <2>3, <2>4
  <1>5. Copied(copy[count], size[count], srcs, count)
    BY <1>1, <1>4
  <1>6. /\ block.size = size[count] /\ block.entries = copy[count].entries
        /\ block.parts = copy[count].parts
    BY <1>3
  <1>7. Within(block.parts, 0, block.size)
    <2>1. /\ Placed(block.parts, 0, count * build.ntf, array, block.size)
          /\ block.size \in Nat /\ array <= block.size
      BY <1>5, <1>6 DEF Copied, array, whole
    <2>2. Placed(block.parts, 0, whole, array, block.size)
      BY <1>2, <2>1
    <2>3. block.size \in Nat /\ array <= block.size
      BY <2>1
    <2>4. array \in Nat /\ whole \in Nat /\ whole <= array
      BY <1>2
    <2> QED BY <2>2, <2>3, <2>4 DEF Placed, Within
  <1>8. Sound(block.parts)
    BY <1>5, <1>6, <1>7 DEF Copied, Within, Sound
  <1> QED BY <1>5, <1>6, <1>7, <1>8 DEF Copied, Fits, block

-----------------------------------------------------------------------------
(***************************************************************************)
(* Copies for the client                                                   *)
(***************************************************************************)
LEMMA NoBlockFits == Fits(NoBlock)
  <1>1. NoBlock.parts = << >>
    BY DEF NoBlock
  <1> QED BY <1>1, NoParts DEF Fits

LEMMA ModeParamBlockFits ==
  ASSUME NEW src, IsParam(src.struct), src.struct # Nothing, Sizes(build), NEW mode
  PROVE  Fits(ModeParamBlock(mode, src))
  <1> DEFINE copy == ModeParamCopy(src.struct, mode, src.mem, 0)
             block == ModeParamBlock(mode, src)
  <1>1. /\ copy.size = ModeParamSize(src.struct, mode)
        /\ copy.size \in Nat
        /\ Within(copy.parts, 0, 0 + copy.size)
        /\ Disjoint(copy.parts)
    BY ModeParamCopyFits
  <1>2. block = [size |-> ModeParamSize(src.struct, mode), entries |-> <<copy.param>>,
                 parts |-> copy.parts]
    BY DEF ModeParamBlock
  <1> HIDE DEF copy, block
  <1>3. block.size = copy.size /\ block.parts = copy.parts
    BY <1>1, <1>2
  <1>4. 0 + copy.size = copy.size
    BY <1>1
  <1> QED BY <1>1, <1>3, <1>4 DEF Fits, block

\* nci_util_copy_activation_param: where the size of the structure is not
\* aligned, it has to be a multiple of eight.
LEMMA ActivationParamCopyFits ==
  ASSUME NEW src, IsParam(src.struct), Sizes(build), build.activation % 8 = 0,
         NEW intf, NEW mode
  PROVE  Fits(ActivationParamCopy(intf, mode, src))
  <1> DEFINE param == src.struct
             struct == StructPart(0, build.activation)
             far == Align8(build.activation)
             bytes == Part(far, Read(param.data, src.mem))
             block == ActivationParamCopy(intf, mode, src)
             need == ActivationParamSize(intf, mode, param)
  <1>1. /\ build.activation \in Nat /\ far = build.activation
        /\ param.data.len \in Nat
        /\ Align8(param.data.len) \in Nat /\ param.data.len <= Align8(param.data.len)
    BY Aligned DEF Sizes, IsParam, IsPointer
  <1>2. struct.off = 0 /\ struct.len = build.activation
    BY StructPartIs
  <1>3. CASE param.data = Null
    <2>1. block = [size |-> need, entries |-> <<param>>, parts |-> <<struct>>]
      BY <1>3 DEF ActivationParamCopy
    <2>2. need = build.activation
      BY <1>3, NullIs DEF ActivationParamSize
    <2> HIDE DEF block, need, struct
    <2>3. block.size = build.activation /\ block.parts = <<struct>>
      BY <2>1, <2>2
    <2>4. Within(<<struct>>, 0, build.activation) /\ Disjoint(<<struct>>)
      BY <1>1, <1>2, OnePart
    <2> QED BY <2>3, <2>4 DEF Fits, block
  <1>4. CASE param.data # Null
    <2> DEFINE to == far + Align8(param.data.len)
    <2>1. block.size = need /\ block.parts = <<struct, bytes>>
      BY <1>4 DEF ActivationParamCopy
    <2>2. need = to
      <3>1. param.data.len # 0
        BY <1>4 DEF IsParam, IsPointer
      <3> QED BY <1>1, <3>1 DEF ActivationParamSize
    <2>3. bytes.off = far /\ bytes.len = param.data.len
      BY <1>1, BytesPart
    <2> HIDE DEF block, need, struct, bytes
    <2>4. /\ struct.off \in Nat /\ struct.len \in Nat
          /\ bytes.off \in Nat /\ bytes.len \in Nat
          /\ 0 <= struct.off /\ struct.off + struct.len <= bytes.off
          /\ bytes.off + bytes.len <= to /\ to \in Nat
      BY <1>1, <1>2, <2>3
    <2> HIDE DEF to
    <2>5. Within(<<struct, bytes>>, 0, to) /\ Disjoint(<<struct, bytes>>)
      BY <2>4, TwoParts
    <2> QED BY <2>1, <2>2, <2>5 DEF Fits, block
  <1> QED BY <1>3, <1>4

-----------------------------------------------------------------------------
(***************************************************************************)
(* What the parsers return                                                 *)
(***************************************************************************)
LEMMA StructShape ==
  ASSUME NEW fields, NEW data, IsPointer(data)
  PROVE  IsParam(Struct(fields, data))
  BY DEF Struct, IsParam

LEMMA Pointers ==
  /\ IsPointer(Null)
  /\ \A off : \A len \in Nat \ {0} : IsPointer(InBuffer(off, len))
  /\ \A off : \A len \in Nat : IsPointer(BytesOf(off, len))
  BY DEF IsPointer, Null, InBuffer, BytesOf

LEMMA NothingShape == IsParam(Nothing)
  BY Pointers, StructShape DEF Nothing

LEMMA ByteIs ==
  ASSUME NEW pkt \in Seq(Nat), NEW i \in Nat, i < Len(pkt)
  PROVE  Byte(pkt, i) \in Nat
  BY DEF Byte

LEMMA ModeParamShape ==
  ASSUME NEW pkt \in Seq(Nat), NEW o \in Nat, o < Len(pkt), NEW mode, NEW len
  PROVE  IsParam(ModeParam(mode, pkt, o, len))
  <1> DEFINE n == Byte(pkt, o)
  <1>1. n \in Nat
    BY ByteIs
  <1>2. IsParam(PollAParam(pkt, o, len))
    BY Pointers, StructShape, NothingShape DEF PollAParam
  <1>3. IsParam(PollBParam(pkt, o, len))
    <2>1. n >= 11 => IsPointer(InBuffer(o + 9, n - 8))
      BY <1>1, Pointers
    <2> QED BY <2>1, StructShape, NothingShape DEF PollBParam
  <1>4. IsParam(PollFParam(pkt, o, len))
    BY Pointers, StructShape, NothingShape DEF PollFParam
  <1>5. IsParam(ListenFParam(pkt, o, len))
    <2>1. IsPointer(BytesOf(o + 1, n))
      BY <1>1, Pointers
    <2> QED BY <2>1, StructShape, NothingShape DEF ListenFParam
  <1>6. IsParam(PollVParam(pkt, o, len))
    BY Pointers, StructShape, NothingShape DEF PollVParam
  <1> QED BY <1>2, <1>3, <1>4, <1>5, <1>6, NothingShape DEF ModeParam

LEMMA IsoDepPollAShape ==
  ASSUME NEW pkt \in Seq(Nat), NEW o \in Nat, o < Len(pkt), NEW len
  PROVE  IsParam(IsoDepPollAParam(pkt, o, len))
  <1> DEFINE n == Byte(pkt, o)
             t0 == Byte(pkt, o + 1)
             ta == o + 2
             tb == ta + (IF Bit(t0, 16) THEN 1 ELSE 0)
             tc == tb + (IF Bit(t0, 32) THEN 1 ELSE 0)
             t1 == tc + (IF Bit(t0, 64) THEN 1 ELSE 0)
             end == o + 1 + n
  <1>1. n \in Nat
    BY ByteIs
  <1>2. t1 \in Nat /\ end \in Nat
    <2>1. ASSUME NEW i \in Nat, NEW f
          PROVE  i + (IF Bit(t0, f) THEN 1 ELSE 0) \in Nat
      <3>1. CASE Bit(t0, f)
        BY <3>1
      <3>2. CASE ~Bit(t0, f)
        BY <3>2
      <3> QED BY <3>1, <3>2
    <2>2. ta \in Nat /\ end \in Nat
      BY <1>1
    <2> HIDE DEF t0, ta, end
    <2>3. tb \in Nat
      BY <2>1, <2>2
    <2> HIDE DEF tb
    <2>4. tc \in Nat
      BY <2>1, <2>3
    <2> HIDE DEF tc
    <2> QED BY <2>1, <2>2, <2>4
  <1>3. t1 <= end => IsPointer(BytesOf(t1, end - t1))
    <2> HIDE DEF t1, end
    <2>1. t1 <= end => end - t1 \in Nat
      BY <1>2
    <2> QED BY <2>1, Pointers
  <1> QED BY <1>3, StructShape, NothingShape DEF IsoDepPollAParam

LEMMA ActivationParamShape ==
  ASSUME NEW pkt \in Seq(Nat), NEW o \in Nat, o < Len(pkt), NEW intf, NEW mode, NEW len
  PROVE  IsParam(ActivationParam(intf, mode, pkt, o, len))
  <1> DEFINE n == Byte(pkt, o)
  <1>1. n \in Nat
    BY ByteIs
  <1>2. IsParam(IsoDepPollAParam(pkt, o, len))
    BY IsoDepPollAShape
  <1>3. IsParam(IsoDepListenAParam(pkt, o, len))
    BY Pointers, StructShape, NothingShape DEF IsoDepListenAParam
  <1>4. IsParam(IsoDepPollBParam(pkt, o, len))
    <2>1. n >= 1 => IsPointer(BytesOf(o + 2, n - 1))
      BY <1>1, Pointers
    <2> QED BY <2>1, StructShape, NothingShape DEF IsoDepPollBParam
  <1>5. IsParam(IsoDepListenBParam(pkt, o, len))
    <2>1. n >= 8 => IsPointer(BytesOf(o + 9, n - 8))
      BY <1>1, Pointers
    <2> QED BY <2>1, StructShape, NothingShape DEF IsoDepListenBParam
  <1>6. IsParam(NfcDepPollParam(pkt, o, len))
    <2>1. n >= 15 => IsPointer(BytesOf(o + 16, n - 15))
      BY <1>1, Pointers
    <2> QED BY <2>1, StructShape, NothingShape DEF NfcDepPollParam
  <1>7. IsParam(NfcDepListenParam(pkt, o, len))
    <2>1. n >= 14 => IsPointer(BytesOf(o + 15, n - 14))
      BY <1>1, Pointers
    <2> QED BY <2>1, StructShape, NothingShape DEF NfcDepListenParam
  <1> QED BY <1>2, <1>3, <1>4, <1>5, <1>6, <1>7, NothingShape DEF ActivationParam

-----------------------------------------------------------------------------
(***************************************************************************)
(* Notifications, whole and cut short                                      *)
(***************************************************************************)
LEMMA ParsedDiscoverNtf ==
  ASSUME NEW pkt \in Seq(Nat), ParseDiscoverNtf(pkt).ok
  PROVE  IsNtf(ParseDiscoverNtf(pkt))
  <1> DEFINE n == Byte(pkt, 3)
             ntf == ParseDiscoverNtf(pkt)
  <1>1. Len(pkt) >= 5 /\ Len(pkt) >= 5 + n
    BY DEF ParseDiscoverNtf, Failed
  <1>2. Len(pkt) \in Nat /\ 3 < Len(pkt) /\ 4 < Len(pkt)
    BY <1>1
  <1>3. n \in Nat
    BY <1>2, ByteIs
  <1> DEFINE param == IF n > 0 THEN ModeParam(Byte(pkt, 2), pkt, 4, n) ELSE Nothing
  <1>4. IsParam(param)
    BY <1>2, ModeParamShape, NothingShape
  <1>5. BytesOf(4, n).len = n
    BY <1>3 DEF BytesOf, InBuffer, Null
  <1>6. ntf = [ok |-> TRUE, id |-> Byte(pkt, 0), protocol |-> Byte(pkt, 1),
               mode |-> Byte(pkt, 2), bytes |-> BytesOf(4, n), param |-> param,
               last |-> Byte(pkt, 4 + n) # 2]
    BY <1>1 DEF ParseDiscoverNtf
  <1> HIDE DEF ntf, param, n
  <1> QED BY <1>3, <1>4, <1>5, <1>6 DEF IsNtf, ntf

LEMMA ParsedIntfActivatedNtf ==
  ASSUME NEW pkt \in Seq(Nat), ParseIntfActivatedNtf(pkt).ok
  PROVE  /\ IsParam(ParseIntfActivatedNtf(pkt).mode_param)
         /\ IsParam(ParseIntfActivatedNtf(pkt).activation_param)
  <1> DEFINE n == Byte(pkt, 6)
             m == IF Len(pkt) > 10 + n THEN Byte(pkt, 10 + n) ELSE 0
             intf == Byte(pkt, 1)
             mode == Byte(pkt, 3)
             ntf == ParseIntfActivatedNtf(pkt)
  <1>1. Len(pkt) > 6 /\ Len(pkt) >= 11 + n + m
    BY DEF ParseIntfActivatedNtf, Failed
  <1>2. Len(pkt) \in Nat
    OBVIOUS
  <1>3. n \in Nat
    BY <1>1, <1>2, ByteIs
  <1>4. n > 0 => 7 < Len(pkt) /\ 7 \in Nat
    <2>1. m \in Nat
      <3>1. CASE Len(pkt) > 10 + n
        <4>1. 10 + n \in Nat /\ 10 + n < Len(pkt)
          <5> DEFINE l == Len(pkt)
          <5>1. l \in Nat /\ n \in Nat /\ l > 10 + n
            BY <1>2, <1>3, <3>1
          <5> HIDE DEF l, n
          <5>2. 10 + n \in Nat /\ 10 + n < l
            BY <5>1
          <5> QED BY <5>2 DEF l
        <4> QED BY <3>1, <4>1, ByteIs
      <3>2. CASE ~ (Len(pkt) > 10 + n)
        BY <3>2
      <3> QED BY <3>1, <3>2
    <2> HIDE DEF n, m
    <2> QED BY <1>1, <1>2, <1>3, <2>1
  <1>5. m > 0 => 11 + n < Len(pkt) /\ 11 + n \in Nat
    <2>1. m > 0 => m \in Nat
      <3> SUFFICES ASSUME m > 0 PROVE m \in Nat
        OBVIOUS
      <3>1. CASE Len(pkt) > 10 + n
        <4>1. 10 + n \in Nat /\ 10 + n < Len(pkt)
          <5> DEFINE l == Len(pkt)
          <5>1. l \in Nat /\ n \in Nat /\ l > 10 + n
            BY <1>2, <1>3, <3>1
          <5> HIDE DEF l, n
          <5>2. 10 + n \in Nat /\ 10 + n < l
            BY <5>1
          <5> QED BY <5>2 DEF l
        <4> QED BY <3>1, <4>1, ByteIs
      <3>2. CASE ~ (Len(pkt) > 10 + n)
        BY <3>2
      <3> QED BY <3>1, <3>2
    <2> HIDE DEF n, m
    <2> QED BY <1>1, <1>2, <1>3, <2>1
  <1> DEFINE mp == IF n > 0 THEN ModeParam(mode, pkt, 7, n) ELSE Nothing
             ap == IF m > 0 THEN ActivationParam(intf, mode, pkt, 11 + n, m)
                   ELSE Nothing
  <1>6. IsParam(mp)
    <2> HIDE DEF n, mode
    <2> QED BY <1>4, ModeParamShape, NothingShape
  <1>7. IsParam(ap)
    <2> HIDE DEF n, m, mode, intf
    <2>1. ASSUME m > 0 PROVE IsParam(ActivationParam(intf, mode, pkt, 11 + n, m))
      BY <1>5, <2>1, ActivationParamShape
    <2> QED BY <2>1, NothingShape
  <1>8. ntf = [ok |-> TRUE, head |-> Bytes(pkt, 0, 6),
               exchange |-> Bytes(pkt, 7 + n, 3),
               mode_param |-> mp, activation_param |-> ap]
    BY <1>1 DEF ParseIntfActivatedNtf
  <1> HIDE DEF ntf, mp, ap, n
  <1>9. ntf.mode_param = mp /\ ntf.activation_param = ap
    BY <1>8
  <1> QED BY <1>6, <1>7, <1>9 DEF ntf

LEMMA Joined ==
  ASSUME NEW s \in Seq(Nat), NEW t \in Seq(Nat)
  PROVE  /\ s \o t \in Seq(Nat)
         /\ Len(s) \in Nat /\ Len(t) \in Nat /\ Len(s \o t) = Len(s) + Len(t)
         /\ \A i \in 1 .. Len(s) : (s \o t)[i] = s[i]
         /\ \A i \in 1 .. Len(t) : (s \o t)[Len(s) + i] = t[i]
  OBVIOUS

LEMMA DiscoverNtfIs ==
  ASSUME NEW t \in Targets
  PROVE  LET pkt == DiscoverNtf(t)
             n == Len(t.tech.bytes)
         IN  /\ n \in Nat /\ t.id \in Nat /\ t.protocol \in Nat
             /\ pkt \in Seq(Nat) /\ Len(pkt) = 5 + n
             /\ Byte(pkt, 0) = t.id /\ Byte(pkt, 1) = t.protocol
             /\ Byte(pkt, 3) = n /\ Byte(pkt, 4 + n) = t.type
  <1> DEFINE n == Len(t.tech.bytes)
             head == <<t.id, t.protocol, t.tech.mode, n>>
             bytes == t.tech.bytes
             pkt == head \o bytes \o <<t.type>>
  <1>1. /\ t.id \in Nat /\ t.protocol \in Nat /\ t.tech.mode \in Nat /\ t.type \in Nat
        /\ bytes \in Seq(Nat)
    BY NtfAssumption
  <1>2. n \in Nat
    BY <1>1
  <1> HIDE DEF n
  <1>3. /\ head \in Seq(Nat) /\ Len(head) = 4
        /\ head[1] = t.id /\ head[2] = t.protocol /\ head[4] = n
    BY <1>1, <1>2
  <1> HIDE DEF head
  <1> DEFINE front == head \o bytes
             last == <<t.type>>
  <1>4. /\ front \in Seq(Nat) /\ Len(front) = 4 + n
        /\ front[1] = head[1] /\ front[2] = head[2] /\ front[4] = head[4]
    <2>1. 1 \in 1 .. 4 /\ 2 \in 1 .. 4 /\ 4 \in 1 .. 4
      OBVIOUS
    <2> HIDE DEF bytes
    <2>2. n = Len(bytes)
      BY DEF n, bytes
    <2>3. bytes \in Seq(Nat) /\ head \in Seq(Nat)
      BY <1>1, <1>3
    <2>4. /\ head \o bytes \in Seq(Nat)
          /\ Len(head \o bytes) = Len(head) + Len(bytes)
          /\ \A i \in 1 .. Len(head) : (head \o bytes)[i] = head[i]
      BY <2>3, Joined
    <2>5. Len(head) = 4
      BY <1>3
    <2> QED BY <2>1, <2>2, <2>4, <2>5
  <1>5. last \in Seq(Nat) /\ Len(last) = 1 /\ last[1] = t.type
    BY <1>1
  <1>6. pkt = front \o last /\ pkt = DiscoverNtf(t)
    BY DEF DiscoverNtf, head, n
  <1> HIDE DEF front, last, pkt
  <1>7. 1 \in 1 .. 4 + n /\ 2 \in 1 .. 4 + n /\ 4 \in 1 .. 4 + n /\ 1 \in 1 .. 1
        /\ (4 + n) + 1 = 5 + n
    BY <1>2
  <1>8. /\ pkt \in Seq(Nat) /\ Len(pkt) = 5 + n
        /\ pkt[1] = t.id /\ pkt[2] = t.protocol /\ pkt[4] = n /\ pkt[5 + n] = t.type
    <2>1. /\ front \o last \in Seq(Nat)
          /\ Len(front \o last) = Len(front) + Len(last)
          /\ \A i \in 1 .. Len(front) : (front \o last)[i] = front[i]
          /\ \A i \in 1 .. Len(last) : (front \o last)[Len(front) + i] = last[i]
      BY <1>4, <1>5, Joined
    <2>2. /\ pkt \in Seq(Nat) /\ Len(pkt) = 4 + n + 1
          /\ \A i \in 1 .. 4 + n : pkt[i] = front[i]
          /\ \A i \in 1 .. 1 : pkt[4 + n + i] = last[i]
      BY <1>4, <1>5, <1>6, <2>1
    <2> QED BY <1>3, <1>4, <1>5, <1>7, <2>2
  <1>9. 0 + 1 = 1 /\ 1 + 1 = 2 /\ 3 + 1 = 4 /\ (4 + n) + 1 = 5 + n
    BY <1>2
  <1> QED BY <1>1, <1>2, <1>6, <1>8, <1>9 DEF Byte, n

\* A whole one
LEMMA DiscoverNtfParses ==
  ASSUME NEW t \in Targets
  PROVE  LET ntf == ParseDiscoverNtf(DiscoverNtf(t))
         IN  /\ ntf.ok
             /\ ntf.id = t.id /\ ntf.protocol = t.protocol
             /\ ntf.last <=> t.type # 2
  <1> DEFINE pkt == DiscoverNtf(t)
             n == Len(t.tech.bytes)
  <1>1. /\ n \in Nat /\ Len(pkt) = 5 + n
        /\ Byte(pkt, 0) = t.id /\ Byte(pkt, 1) = t.protocol
        /\ Byte(pkt, 3) = n /\ Byte(pkt, 4 + n) = t.type
    BY DiscoverNtfIs
  <1> HIDE DEF pkt, n
  <1>2. Len(pkt) >= 5 /\ Len(pkt) >= 5 + Byte(pkt, 3)
    BY <1>1
  <1> QED BY <1>1, <1>2 DEF ParseDiscoverNtf, pkt

\* One that is short of some bytes
LEMMA CutDiscoverNtfFails ==
  ASSUME NEW t \in Targets, NEW cut \in Nat, cut # 0
  PROVE  ~ParseDiscoverNtf(Cut(DiscoverNtf(t), cut)).ok
  <1> DEFINE pkt == DiscoverNtf(t)
             short == Cut(pkt, cut)
             n == Len(t.tech.bytes)
  <1>1. n \in Nat /\ pkt \in Seq(Nat) /\ Len(pkt) = 5 + n /\ Byte(pkt, 3) = n
    BY DiscoverNtfIs
  <1> HIDE DEF pkt, n
  <1>2. CASE Len(pkt) - cut >= 5
    <2> DEFINE k == Len(pkt) - cut
    <2>1. k \in 1 .. Len(pkt) /\ 4 \in 1 .. k /\ k < 5 + n
      BY <1>1, <1>2
    <2>2. short = SubSeq(pkt, 1, k)
      BY DEF Cut
    <2> HIDE DEF k, short
    <2>3. Len(short) = k /\ short[4] = pkt[4]
      BY <1>1, <2>1, <2>2
    <2>4. Byte(short, 3) = n
      BY <1>1, <2>3 DEF Byte
    <2>5. ~ (Len(short) >= 5 + Byte(short, 3))
      BY <1>1, <2>1, <2>3, <2>4
    <2> QED BY <2>5 DEF ParseDiscoverNtf, Failed, short, pkt
  <1>3. CASE Len(pkt) - cut < 5
    <2>1. Len(short) < 5
      BY <1>1, <1>3 DEF Cut
    <2>2. ~ (Len(short) >= 5)
      <3>1. Len(short) \in Nat
        BY <1>1 DEF Cut
      <3> QED BY <2>1, <3>1
    <2> QED BY <2>2 DEF ParseDiscoverNtf, Failed, pkt
  <1>4. Len(pkt) - cut \in Int
    BY <1>1
  <1> QED BY <1>2, <1>3, <1>4

LEMMA CutNothing ==
  ASSUME NEW pkt \in Seq(Nat)
  PROVE  /\ Cut(pkt, 0) = pkt
         /\ \A cut \in Nat : Cut(pkt, cut) \in Seq(Nat)
  <1>1. Cut(pkt, 0) = pkt
    BY DEF Cut
  <1>2. \A cut \in Nat : Cut(pkt, cut) \in Seq(Nat)
    BY DEF Cut
  <1> QED BY <1>1, <1>2

LEMMA IntfActivatedNtfIs ==
  ASSUME NEW a \in Activations
  PROVE  IntfActivatedNtf(a) \in Seq(Nat)
  <1> DEFINE n == Len(a.tech.bytes)
             m == Len(a.param.bytes)
  <1>1. /\ a.id \in Nat /\ a.intf \in Nat /\ a.protocol \in Nat
        /\ a.tech.mode \in Nat /\ a.size \in Nat /\ a.credits \in Nat
        /\ a.tech.bytes \in Seq(Nat) /\ a.exchange \in Seq(Nat)
        /\ a.param.bytes \in Seq(Nat)
    BY NtfAssumption
  <1>2. n \in Nat /\ m \in Nat
    <2>1. \A s \in Seq(Nat) : Len(s) \in Nat
      OBVIOUS
    <2>2. a.tech.bytes \in Seq(Nat) /\ a.param.bytes \in Seq(Nat)
      BY <1>1
    <2> QED BY <2>1, <2>2
  <1> HIDE DEF n, m
  <1>3. <<a.id, a.intf, a.protocol, a.tech.mode, a.size, a.credits, n>> \in Seq(Nat)
    BY <1>1, <1>2
  <1>4. <<m>> \in Seq(Nat)
    BY <1>2
  <1>5. \A s, t \in Seq(Nat) : s \o t \in Seq(Nat)
    OBVIOUS
  <1> QED BY <1>1, <1>3, <1>4, <1>5 DEF IntfActivatedNtf, n, m

-----------------------------------------------------------------------------
(***************************************************************************)
(* What the parsers read is what the tables say. A sequence of bytes is in *)
(* a packet from place o on.                                               *)
(***************************************************************************)
Holds(pkt, o, s) ==
    /\ o \in Nat /\ s \in Seq(Nat) /\ Len(s) \in Nat
    /\ o + Len(s) <= Len(pkt)
    /\ \A i \in 1 .. Len(s) : pkt[o + i] = s[i]

LEMMA Places ==
  ASSUME NEW o \in Nat, NEW n \in Nat, NEW l \in Nat, o + n <= l, NEW i \in 1 .. n
  PROVE  /\ o + i - 1 \in Nat /\ o + i - 1 < l
         /\ (o + i - 1) + 1 = o + i /\ (o + 1) + i - 1 = o + i
         /\ o + i \in 1 .. l /\ i - 1 \in Nat
  OBVIOUS

LEMMA Piece ==
  ASSUME NEW pkt \in Seq(Nat), NEW o \in Nat, NEW n \in Nat, o + n <= Len(pkt)
  PROVE  /\ SubSeq(pkt, o + 1, o + n) \in Seq(Nat)
         /\ Len(SubSeq(pkt, o + 1, o + n)) = n
         /\ \A i \in 1 .. n : SubSeq(pkt, o + 1, o + n)[i] = pkt[o + i]
  <1> DEFINE r == SubSeq(pkt, o + 1, o + n)
             l == Len(pkt)
             from == o + 1
             to == o + n
  <1>1. l \in Nat
    OBVIOUS
  <1> HIDE DEF l
  <1>2. /\ from \in Nat /\ to \in Int /\ to <= l /\ 1 <= from
        /\ (IF from <= to THEN to - from + 1 ELSE 0) = n
        /\ \A i \in 1 .. n : from + i - 1 = o + i
        /\ \A i \in 1 .. n : from + i - 1 \in 1 .. l
    BY <1>1 DEF l
  <1> HIDE DEF from, to
  <1>3. /\ SubSeq(pkt, from, to) \in Seq(Nat)
        /\ Len(SubSeq(pkt, from, to)) = (IF from <= to THEN to - from + 1 ELSE 0)
        /\ \A i \in 1 .. (IF from <= to THEN to - from + 1 ELSE 0) :
              SubSeq(pkt, from, to)[i] = pkt[from + i - 1]
    BY <1>1, <1>2 DEF l
  <1>4. \A i \in 1 .. n : SubSeq(pkt, from, to)[i] = pkt[o + i]
    BY <1>2, <1>3
  <1> QED BY <1>2, <1>3, <1>4 DEF from, to

LEMMA HoldsItself ==
  ASSUME NEW pkt \in Seq(Nat)
  PROVE  Holds(pkt, 0, pkt)
  BY DEF Holds

LEMMA HoldsAt ==
  ASSUME NEW pkt, NEW o, NEW s, Holds(pkt, o, s)
  PROVE  o \in Nat /\ s \in Seq(Nat) /\ Len(s) \in Nat /\ o + Len(s) <= Len(pkt)
  BY DEF Holds

\* b is put together from these sequences.
Two(b, s, t) == s \in Seq(Nat) /\ t \in Seq(Nat) /\ b = s \o t
Three(b, s, t, u) == Two(s \o t, s, t) /\ Two(b, s \o t, u)
Four(b, s, t, u, v) == Three(s \o t \o u, s, t, u) /\ Two(b, s \o t \o u, v)
Five(b, s, t, u, v, w) ==
    Four(s \o t \o u \o v, s, t, u, v) /\ Two(b, s \o t \o u \o v, w)

LEMMA PutTogether ==
  /\ \A s, t \in Seq(Nat) : Two(s \o t, s, t)
  /\ \A s, t, u \in Seq(Nat) : Three(s \o t \o u, s, t, u)
  /\ \A s, t, u, v \in Seq(Nat) : Four(s \o t \o u \o v, s, t, u, v)
  /\ \A s, t, u, v, w \in Seq(Nat) : Five(s \o t \o u \o v \o w, s, t, u, v, w)
  <1>1. \A s, t \in Seq(Nat) : s \o t \in Seq(Nat) /\ Two(s \o t, s, t)
    BY Joined DEF Two
  <1>2. \A s, t, u \in Seq(Nat) : /\ s \o t \o u \in Seq(Nat)
                                  /\ Three(s \o t \o u, s, t, u)
    BY <1>1 DEF Three
  <1>3. \A s, t, u, v \in Seq(Nat) : /\ s \o t \o u \o v \in Seq(Nat)
                                     /\ Four(s \o t \o u \o v, s, t, u, v)
    BY <1>1, <1>2 DEF Four
  <1>4. \A s, t, u, v, w \in Seq(Nat) : Five(s \o t \o u \o v \o w, s, t, u, v, w)
    BY <1>1, <1>3 DEF Five
  <1> QED BY <1>1, <1>2, <1>3, <1>4

LEMMA LengthOfTwo ==
  ASSUME NEW b, NEW s, NEW t, Two(b, s, t)
  PROVE  Len(b) = Len(s) + Len(t) /\ Len(s) \in Nat /\ Len(t) \in Nat
  BY Joined DEF Two

LEMMA LengthOfThree ==
  ASSUME NEW b, NEW s, NEW t, NEW u, Three(b, s, t, u)
  PROVE  /\ Len(b) = Len(s) + Len(t) + Len(u)
         /\ Len(s) \in Nat /\ Len(t) \in Nat /\ Len(u) \in Nat
  <1>1. /\ Len(b) = Len(s \o t) + Len(u) /\ Len(u) \in Nat
        /\ Len(s \o t) = Len(s) + Len(t) /\ Len(s) \in Nat /\ Len(t) \in Nat
    BY LengthOfTwo DEF Three
  <1> QED BY <1>1

LEMMA LengthOfFour ==
  ASSUME NEW b, NEW s, NEW t, NEW u, NEW v, Four(b, s, t, u, v)
  PROVE  /\ Len(b) = Len(s) + Len(t) + Len(u) + Len(v)
         /\ Len(s) \in Nat /\ Len(t) \in Nat /\ Len(u) \in Nat /\ Len(v) \in Nat
  <1>1. /\ Len(b) = Len(s \o t \o u) + Len(v) /\ Len(v) \in Nat
        /\ Len(s \o t \o u) = Len(s) + Len(t) + Len(u)
        /\ Len(s) \in Nat /\ Len(t) \in Nat /\ Len(u) \in Nat
    BY LengthOfTwo, LengthOfThree DEF Four
  <1> QED BY <1>1

LEMMA LengthOfFive ==
  ASSUME NEW b, NEW s, NEW t, NEW u, NEW v, NEW w, Five(b, s, t, u, v, w)
  PROVE  /\ Len(b) = Len(s) + Len(t) + Len(u) + Len(v) + Len(w)
         /\ Len(s) \in Nat /\ Len(t) \in Nat /\ Len(u) \in Nat /\ Len(v) \in Nat
         /\ Len(w) \in Nat
  <1>1. /\ Len(b) = Len(s \o t \o u \o v) + Len(w) /\ Len(w) \in Nat
        /\ Len(s \o t \o u \o v) = Len(s) + Len(t) + Len(u) + Len(v)
        /\ Len(s) \in Nat /\ Len(t) \in Nat /\ Len(u) \in Nat /\ Len(v) \in Nat
    BY LengthOfTwo, LengthOfFour DEF Five
  <1> QED BY <1>1

LEMMA HoldsTwo ==
  ASSUME NEW pkt \in Seq(Nat), NEW o, NEW b, NEW s, NEW t, Two(b, s, t),
         Holds(pkt, o, b)
  PROVE  Holds(pkt, o, s) /\ Holds(pkt, o + Len(s), t)
  <1> DEFINE l == Len(pkt)
  <1>1. s \in Seq(Nat) /\ t \in Seq(Nat) /\ b = s \o t
    BY DEF Two
  <1>2. /\ Len(s) \in Nat /\ Len(t) \in Nat /\ Len(b) = Len(s) + Len(t)
        /\ \A i \in 1 .. Len(s) : b[i] = s[i]
        /\ \A i \in 1 .. Len(t) : b[Len(s) + i] = t[i]
    BY <1>1, Joined
  <1>3. /\ o \in Nat /\ o + Len(b) <= l /\ l \in Nat
        /\ \A i \in 1 .. Len(b) : pkt[o + i] = b[i]
    BY DEF Holds
  <1> HIDE DEF l
  <1>4. (\A i \in 1 .. Len(s) : i \in 1 .. Len(b)) /\ o + Len(s) <= l
    BY <1>2, <1>3
  <1>5. Holds(pkt, o, s)
    <2>1. \A i \in 1 .. Len(s) : pkt[o + i] = s[i]
      BY <1>2, <1>3, <1>4
    <2> QED BY <1>1, <1>2, <1>3, <1>4, <2>1 DEF Holds, l
  <1>6. ASSUME NEW i \in 1 .. Len(t) PROVE pkt[(o + Len(s)) + i] = t[i]
    <2>1. Len(s) + i \in 1 .. Len(b) /\ o + (Len(s) + i) = (o + Len(s)) + i
      BY <1>2, <1>3
    <2> QED BY <1>2, <1>3, <2>1
  <1>7. o + Len(s) \in Nat /\ (o + Len(s)) + Len(t) <= l
    BY <1>2, <1>3
  <1> QED BY <1>1, <1>2, <1>5, <1>6, <1>7 DEF Holds, l

LEMMA HoldsThree ==
  ASSUME NEW pkt \in Seq(Nat), NEW o, NEW b, NEW s, NEW t, NEW u,
         Three(b, s, t, u), Holds(pkt, o, b)
  PROVE  /\ Holds(pkt, o, s) /\ Holds(pkt, o + Len(s), t)
         /\ Holds(pkt, o + Len(s) + Len(t), u)
  <1> DEFINE front == s \o t
  <1>1. Two(front, s, t) /\ Two(b, front, u)
    BY DEF Three
  <1> HIDE DEF front
  <1>2. Holds(pkt, o, front) /\ Holds(pkt, o + Len(front), u)
    BY <1>1, HoldsTwo
  <1>3. Holds(pkt, o, s) /\ Holds(pkt, o + Len(s), t)
    BY <1>1, <1>2, HoldsTwo
  <1>4. o \in Nat
    BY HoldsAt
  <1>5. Len(front) = Len(s) + Len(t) /\ Len(s) \in Nat /\ Len(t) \in Nat
    BY <1>1, LengthOfTwo
  <1>6. o + Len(front) = o + Len(s) + Len(t)
    BY <1>4, <1>5
  <1> QED BY <1>2, <1>3, <1>6

LEMMA HoldsFour ==
  ASSUME NEW pkt \in Seq(Nat), NEW o, NEW b, NEW s, NEW t, NEW u, NEW v,
         Four(b, s, t, u, v), Holds(pkt, o, b)
  PROVE  /\ Holds(pkt, o, s) /\ Holds(pkt, o + Len(s), t)
         /\ Holds(pkt, o + Len(s) + Len(t), u)
         /\ Holds(pkt, o + Len(s) + Len(t) + Len(u), v)
  <1> DEFINE front == s \o t \o u
  <1>1. Three(front, s, t, u) /\ Two(b, front, v)
    BY DEF Four
  <1> HIDE DEF front
  <1>2. Holds(pkt, o, front) /\ Holds(pkt, o + Len(front), v)
    BY <1>1, HoldsTwo
  <1>3. /\ Holds(pkt, o, s) /\ Holds(pkt, o + Len(s), t)
        /\ Holds(pkt, o + Len(s) + Len(t), u)
    BY <1>1, <1>2, HoldsThree
  <1>4. o \in Nat
    BY HoldsAt
  <1>5. /\ Len(front) = Len(s) + Len(t) + Len(u)
        /\ Len(s) \in Nat /\ Len(t) \in Nat /\ Len(u) \in Nat
    BY <1>1, LengthOfThree
  <1>6. o + Len(front) = o + Len(s) + Len(t) + Len(u)
    BY <1>4, <1>5
  <1> QED BY <1>2, <1>3, <1>6

LEMMA HoldsFive ==
  ASSUME NEW pkt \in Seq(Nat), NEW o, NEW b, NEW s, NEW t, NEW u, NEW v, NEW w,
         Five(b, s, t, u, v, w), Holds(pkt, o, b)
  PROVE  /\ Holds(pkt, o, s) /\ Holds(pkt, o + Len(s), t)
         /\ Holds(pkt, o + Len(s) + Len(t), u)
         /\ Holds(pkt, o + Len(s) + Len(t) + Len(u), v)
         /\ Holds(pkt, o + Len(s) + Len(t) + Len(u) + Len(v), w)
  <1> DEFINE front == s \o t \o u \o v
  <1>1. Four(front, s, t, u, v) /\ Two(b, front, w)
    BY DEF Five
  <1> HIDE DEF front
  <1>2. Holds(pkt, o, front) /\ Holds(pkt, o + Len(front), w)
    BY <1>1, HoldsTwo
  <1>3. /\ Holds(pkt, o, s) /\ Holds(pkt, o + Len(s), t)
        /\ Holds(pkt, o + Len(s) + Len(t), u)
        /\ Holds(pkt, o + Len(s) + Len(t) + Len(u), v)
    BY <1>1, <1>2, HoldsFour
  <1>4. o \in Nat
    BY HoldsAt
  <1>5. /\ Len(front) = Len(s) + Len(t) + Len(u) + Len(v)
        /\ Len(s) \in Nat /\ Len(t) \in Nat /\ Len(u) \in Nat /\ Len(v) \in Nat
    BY <1>1, LengthOfFour
  <1>6. o + Len(front) = o + Len(s) + Len(t) + Len(u) + Len(v)
    BY <1>4, <1>5
  <1> QED BY <1>2, <1>3, <1>6

LEMMA ByteAt ==
  ASSUME NEW pkt, NEW o, NEW s, Holds(pkt, o, s), NEW i \in 1 .. Len(s)
  PROVE  Byte(pkt, o + i - 1) = s[i] /\ s[i] \in Nat
  <1>1. (o + i - 1) + 1 = o + i
    BY DEF Holds
  <1> QED BY <1>1 DEF Byte, Holds

LEMMA ByteNumber ==
  ASSUME NEW pkt, NEW o, NEW s, Holds(pkt, o, s), NEW i \in Nat \ {0}, Len(s) >= i
  PROVE  Byte(pkt, o + i - 1) = s[i]
  <1>1. i \in 1 .. Len(s)
    BY HoldsAt
  <1> QED BY <1>1, ByteAt

LEMMA FirstByte ==
  ASSUME NEW pkt, NEW o, NEW s, Holds(pkt, o, s), Len(s) >= 1
  PROVE  Byte(pkt, o) = s[1]
  <1>1. o + 1 - 1 = o
    BY HoldsAt
  <1>2. Byte(pkt, o + 1 - 1) = s[1]
    BY ByteNumber
  <1> QED BY <1>1, <1>2

LEMMA SecondByte ==
  ASSUME NEW pkt, NEW o, NEW s, Holds(pkt, o, s), Len(s) >= 2
  PROVE  Byte(pkt, o + 1) = s[2]
  <1>1. o + 2 - 1 = o + 1
    BY HoldsAt
  <1>2. Byte(pkt, o + 2 - 1) = s[2]
    BY ByteNumber
  <1> QED BY <1>1, <1>2

LEMMA BytesAt ==
  ASSUME NEW pkt \in Seq(Nat), NEW o, NEW s, Holds(pkt, o, s)
  PROVE  Bytes(pkt, o, Len(s)) = s
  <1> DEFINE r == SubSeq(pkt, o + 1, o + Len(s))
  <1>1. /\ o \in Nat /\ s \in Seq(Nat) /\ Len(s) \in Nat /\ o + Len(s) <= Len(pkt)
        /\ \A i \in 1 .. Len(s) : pkt[o + i] = s[i]
    BY DEF Holds
  <1>2. r \in Seq(Nat) /\ Len(r) = Len(s) /\ \A i \in 1 .. Len(s) : r[i] = pkt[o + i]
    BY <1>1, Piece
  <1> HIDE DEF r
  <1>3. \A i \in 1 .. Len(r) : r[i] = s[i]
    BY <1>1, <1>2
  <1>4. r = s
    BY <1>1, <1>2, <1>3, SeqEqual
  <1> QED BY <1>4 DEF Bytes, r

LEMMA ReadAt ==
  ASSUME NEW pkt \in Seq(Nat), NEW o, NEW s, Holds(pkt, o, s), NEW parts
  PROVE  /\ Read(InBuffer(o, Len(s)), Memory(pkt, parts)) = s
         /\ Read(BytesOf(o, Len(s)), Memory(pkt, parts)) = s
  <1> DEFINE data == InBuffer(o, Len(s))
             mem == Memory(pkt, parts)
             r == Read(data, mem)
  <1>1. /\ o \in Nat /\ s \in Seq(Nat) /\ Len(s) \in Nat /\ o + Len(s) <= Len(pkt)
        /\ \A i \in 1 .. Len(s) : pkt[o + i] = s[i]
    BY DEF Holds
  <1>2. data.mem = "buffer" /\ data.off = o /\ data.len = Len(s) /\ mem.buffer = pkt
    BY DEF InBuffer, Memory
  <1> HIDE DEF data, mem
  <1>3. r = [i \in 1 .. Len(s) |-> r[i]]
    BY <1>1, <1>2, ReadShape
  <1>4. ASSUME NEW i \in 1 .. Len(s) PROVE r[i] = s[i]
    <2> DEFINE x == o + i - 1
    <2>1. x < Len(pkt) /\ x + 1 = o + i
      BY <1>1, Places
    <2> HIDE DEF x
    <2>2. r[i] = IF x < Len(pkt) THEN pkt[x + 1] ELSE 0
      BY <1>2 DEF Read, x
    <2> QED BY <1>1, <2>1, <2>2
  <1> HIDE DEF r
  <1>5. r = s
    BY <1>1, <1>3, <1>4
  <1>6. CASE Len(s) > 0
    BY <1>5, <1>6 DEF r, data, mem, BytesOf
  <1>7. CASE ~ (Len(s) > 0)
    <2>1. Len(s) = 0 /\ BytesOf(o, Len(s)) = Null
      BY <1>1, <1>7 DEF BytesOf
    <2>2. data.len = 0
      BY <1>2, <2>1
    <2>3. Read(Null, mem) = Read(data, mem)
      BY <2>2, NullIs, ReadNothing
    <2> QED BY <1>5, <2>1, <2>3 DEF r, data, mem
  <1> QED BY <1>6, <1>7

\* A parsed parameter is as the tables describe it.
Gives(param, pkt, f, d) ==
    param.fields = f /\ Read(param.data, Memory(pkt, << >>)) = d

LEMMA GivesStruct ==
  ASSUME NEW pkt, NEW f, NEW data, NEW d, Read(data, Memory(pkt, << >>)) = d
  PROVE  Gives(Struct(f, data), pkt, f, d) /\ Struct(f, data).data = data
  BY DEF Gives, Struct

LEMMA GivesNoData ==
  ASSUME NEW pkt, NEW f
  PROVE  Gives(Struct(f, Null), pkt, f, << >>) /\ Struct(f, Null).data = Null
  <1>1. Read(Null, Memory(pkt, << >>)) = << >>
    <2>1. Null.len = 0
      BY NullIs
    <2> QED BY <2>1 DEF Read
  <1> QED BY <1>1, GivesStruct

LEMMA GivesNothing ==
  ASSUME NEW pkt, NEW f, NEW d, NoTable(f, d)
  PROVE  Gives(Nothing, pkt, f, d)
  <1>1. Nothing.fields = [null |-> TRUE]
    BY DEF Nothing, Struct
  <1> QED BY <1>1, GivesNoData DEF NoTable, Nothing

LEMMA PollAReads ==
  ASSUME NEW pkt \in Seq(Nat), NEW o, NEW b, NEW f, NEW d,
         PollATable(b, f, d), Holds(pkt, o, b)
  PROVE  LET param == PollAParam(pkt, o, Len(b))
         IN  Gives(param, pkt, f, d) /\ param.data = Null
  <1> DEFINE ss == f.sens_res
             nf == f.nfcid1
             m == f.sel_res_len
             res == f.sel_res
             n == Len(nf)
             count == <<n>>
             last == IF m = 0 THEN <<0>> ELSE <<1, res>>
  <1>1. /\ ss \in Seq(Nat) /\ nf \in Seq(Nat) /\ Len(ss) = 2 /\ n <= 10 /\ d = << >>
        /\ m \in {0, 1} /\ res \in Nat /\ (m = 0 => res = 0)
        /\ f = [sens_res |-> ss, nfcid1 |-> nf, sel_res_len |-> m, sel_res |-> res]
    BY DEF PollATable
  <1>2. n \in Nat
    BY <1>1
  <1>3. b = ss \o count \o nf \o last
    <2>1. CASE m = 0 /\ b = ss \o count \o nf \o <<0>>
      BY <2>1
    <2>2. CASE m = 1 /\ b = ss \o count \o nf \o <<1, res>>
      BY <2>2
    <2> QED BY <2>1, <2>2 DEF PollATable
  <1>4. /\ last \in Seq(Nat) /\ Len(last) = 1 + m /\ last[1] = m
        /\ (m > 0 => last[2] = res)
    BY <1>1
  <1> HIDE DEF n
  <1>5. count \in Seq(Nat) /\ Len(count) = 1 /\ Len(count) >= 1 /\ count[1] = n
    BY <1>2
  <1> HIDE DEF ss, nf, m, res, count, last
  <1>6. /\ Holds(pkt, o, ss) /\ Holds(pkt, o + Len(ss), count)
        /\ Holds(pkt, o + Len(ss) + Len(count), nf)
        /\ Holds(pkt, o + Len(ss) + Len(count) + Len(nf), last)
        /\ Len(b) = Len(ss) + Len(count) + Len(nf) + Len(last)
    <2>1. Four(b, ss, count, nf, last)
      BY <1>1, <1>3, <1>4, <1>5, PutTogether
    <2> QED BY <2>1, HoldsFour, LengthOfFour
  <1>7. /\ o \in Nat /\ o + Len(ss) + Len(count) = o + 3 /\ m \in Nat
        /\ o + Len(ss) + Len(count) + Len(nf) = o + n + 3
        /\ (o + n + 3) + 1 = o + n + 4
    <2>1. o \in Nat
      BY <1>6, HoldsAt
    <2> QED BY <1>1, <1>2, <1>5, <2>1 DEF n
  <1>8. Bytes(pkt, o, 2) = ss /\ Bytes(pkt, o + 3, n) = nf
    <2>1. Bytes(pkt, o, Len(ss)) = ss /\ Bytes(pkt, o + 3, Len(nf)) = nf
      BY <1>6, <1>7, BytesAt
    <2> QED BY <1>1, <2>1 DEF n
  <1>9. Byte(pkt, o + 2) = n
    <2>1. Byte(pkt, o + Len(ss)) = count[1]
      BY <1>5, <1>6, FirstByte, SecondByte
    <2> QED BY <1>1, <1>5, <2>1
  <1>10. Byte(pkt, o + n + 3) = m /\ (m > 0 => Byte(pkt, o + n + 4) = res)
    <2>1. Len(last) >= 1 /\ (m > 0 => Len(last) >= 2)
      BY <1>4, <1>7
    <2>2. /\ Byte(pkt, o + n + 3) = last[1]
          /\ m > 0 => Byte(pkt, (o + n + 3) + 1) = last[2]
      BY <1>6, <1>7, <2>1, FirstByte, SecondByte
    <2> QED BY <1>4, <1>7, <2>2
  <1> DEFINE fields == [sens_res |-> Bytes(pkt, o, 2), nfcid1 |-> Bytes(pkt, o + 3, n),
                        sel_res_len |-> m,
                        sel_res |-> IF m > 0 THEN Byte(pkt, o + n + 4) ELSE 0]
  <1>12. fields = f
    <2>1. (IF m > 0 THEN Byte(pkt, o + n + 4) ELSE 0) = res
      BY <1>1, <1>10
    <2> QED BY <1>1, <1>8, <2>1
  <1>13. Len(b) >= 4 /\ Len(b) >= n + 4 /\ Len(b) >= n + 4 + m
    <2>1. Len(b) = 2 + 1 + n + (1 + m)
      BY <1>1, <1>4, <1>5, <1>6 DEF n
    <2> QED BY <1>2, <1>7, <2>1
  <1>14. PollAParam(pkt, o, Len(b)) = Struct(fields, Null)
    BY <1>1, <1>9, <1>10, <1>13 DEF PollAParam
  <1> QED BY <1>1, <1>12, <1>14, GivesNoData

LEMMA PollBReads ==
  ASSUME NEW pkt \in Seq(Nat), NEW o, NEW b, NEW f, NEW d, d \in Seq(Nat),
         PollBTable(b, f, d), Holds(pkt, o, b)
  PROVE  Gives(PollBParam(pkt, o, Len(b)), pkt, f, d)
  <1> DEFINE id == f.nfcid0
             app == f.app_data
             n == Len(d)
             count == <<8 + n>>
  <1>1. /\ id \in Seq(Nat) /\ app \in Seq(Nat) /\ Len(id) = 4 /\ Len(app) = 4
        /\ n >= 3 /\ n \in Nat
        /\ f = [nfcid0 |-> id, fsc |-> FrameSize(d[2] \div 16), app_data |-> app]
        /\ b = count \o id \o app \o d
    BY DEF PollBTable
  <1> HIDE DEF n
  <1>2. /\ count \in Seq(Nat) /\ Len(count) = 1 /\ count[1] = 8 + n
        /\ Len(count) >= 1
    <2>1. n \in Nat
      BY <1>1
    <2>2. 8 + n \in Nat
      BY <2>1
    <2> QED BY <2>2
  <1> HIDE DEF id, app, count
  <1>3. /\ Holds(pkt, o, count) /\ Holds(pkt, o + 1, id)
        /\ Holds(pkt, o + 5, app) /\ Holds(pkt, o + 9, d)
        /\ Len(b) = 9 + n /\ o \in Nat
    <2>1. /\ Holds(pkt, o, count) /\ Holds(pkt, o + Len(count), id)
          /\ Holds(pkt, o + Len(count) + Len(id), app)
          /\ Holds(pkt, o + Len(count) + Len(id) + Len(app), d)
          /\ Len(b) = Len(count) + Len(id) + Len(app) + Len(d)
      <3>1. Four(b, count, id, app, d)
        BY <1>1, <1>2, PutTogether
      <3> QED BY <3>1, HoldsFour, LengthOfFour
    <2>2. o \in Nat
      BY <2>1, HoldsAt
    <2>3. /\ o + Len(count) + Len(id) = o + 5
          /\ o + Len(count) + Len(id) + Len(app) = o + 9
          /\ Len(count) + Len(id) + Len(app) + Len(d) = 9 + n
      BY <1>1, <1>2, <2>2 DEF n
    <2> QED BY <1>2, <2>1, <2>2, <2>3
  <1>4. (o + 9) + 1 = o + 10 /\ (8 + n) - 8 = n
    BY <1>1, <1>3
  <1>5. Bytes(pkt, o + 1, 4) = id /\ Bytes(pkt, o + 5, 4) = app
    <2>1. Bytes(pkt, o + 1, Len(id)) = id /\ Bytes(pkt, o + 5, Len(app)) = app
      BY <1>3, BytesAt
    <2> QED BY <1>1, <2>1
  <1>6. Byte(pkt, o) = 8 + n
    <2>1. Byte(pkt, o) = count[1]
      BY <1>2, <1>3, FirstByte, SecondByte
    <2> QED BY <1>2, <2>1
  <1>7. Byte(pkt, o + 10) = d[2]
    <2>1. Len(d) >= 2
      BY <1>1 DEF n
    <2>2. Byte(pkt, (o + 9) + 1) = d[2]
      BY <1>3, <2>1, FirstByte, SecondByte
    <2> QED BY <1>4, <2>2
  <1>8. Read(InBuffer(o + 9, n), Memory(pkt, << >>)) = d
    BY <1>3, ReadAt DEF n
  <1>9. Len(b) >= 1 /\ 8 + n >= 11
    BY <1>1, <1>3
  <1>10. PollBParam(pkt, o, Len(b)) = Struct(f, InBuffer(o + 9, n))
    BY <1>1, <1>4, <1>5, <1>6, <1>7, <1>9 DEF PollBParam
  <1> QED BY <1>8, <1>10, GivesStruct

LEMMA PollFReads ==
  ASSUME NEW pkt \in Seq(Nat), NEW o, NEW b, NEW f, NEW d, b \in Seq(Nat),
         PollFTable(b, f, d), Holds(pkt, o, b)
  PROVE  LET param == PollFParam(pkt, o, Len(b))
         IN  Gives(param, pkt, f, d) /\ param.data = Null
  <1> DEFINE id == f.nfcid2
             rate == f.bitrate
             l == Len(b)
             head == <<rate, l - 2>>
             rest == SubSeq(b, 11, l)
  <1>1. /\ id \in Seq(Nat) /\ rate \in Nat /\ Len(id) = 8 /\ l >= 10
        /\ d = << >> /\ f = [bitrate |-> rate, nfcid2 |-> id]
    BY DEF PollFTable
  <1>11. l \in Nat
    OBVIOUS
  <1>12. b = head \o id \o rest
    BY DEF PollFTable
  <1> HIDE DEF l
  <1>2. rest \in Seq(Nat)
    <2>1. 11 = 10 + 1 /\ l = 10 + (l - 10) /\ l - 10 \in Nat /\ 10 + (l - 10) <= l
      BY <1>1, <1>11
    <2>2. SubSeq(b, 10 + 1, 10 + (l - 10)) \in Seq(Nat)
      BY <2>1, Piece DEF l
    <2> QED BY <2>1, <2>2
  <1>3. /\ head \in Seq(Nat) /\ Len(head) = 2 /\ head[1] = rate /\ head[2] = l - 2
        /\ Len(head) >= 2 /\ Len(head) >= 1
    <2>1. l - 2 \in Nat
      BY <1>1, <1>11
    <2> HIDE DEF rate
    <2> QED BY <1>1, <2>1
  <1> HIDE DEF id, rate, head, rest
  <1>4. Holds(pkt, o, head) /\ Holds(pkt, o + 2, id)
    <2>1. Holds(pkt, o, head) /\ Holds(pkt, o + Len(head), id)
      <3>1. Three(b, head, id, rest)
        BY <1>1, <1>12, <1>2, <1>3, PutTogether
      <3> QED BY <3>1, HoldsThree
    <2> QED BY <1>3, <2>1
  <1>6. Byte(pkt, o) = rate /\ Byte(pkt, o + 1) = l - 2
    <2>1. Byte(pkt, o) = head[1] /\ Byte(pkt, o + 1) = head[2]
      BY <1>3, <1>4, FirstByte, SecondByte
    <2> QED BY <1>3, <2>1
  <1>7. Bytes(pkt, o + 2, 8) = id
    <2>1. Bytes(pkt, o + 2, Len(id)) = id
      BY <1>4, BytesAt
    <2> QED BY <1>1, <2>1
  <1>8. l > 1 /\ l - 2 >= 8 /\ (l - 2) + 2 <= l
    BY <1>1, <1>11
  <1>9. PollFParam(pkt, o, l) = Struct(f, Null)
    BY <1>1, <1>6, <1>7, <1>8 DEF PollFParam
  <1> QED BY <1>1, <1>9, GivesNoData DEF l

LEMMA ListenFReads ==
  ASSUME NEW pkt \in Seq(Nat), NEW o, NEW b, NEW f, NEW d, d \in Seq(Nat),
         ListenFTable(b, f, d), Holds(pkt, o, b)
  PROVE  Gives(ListenFParam(pkt, o, Len(b)), pkt, f, d)
  <1> DEFINE n == Len(d)
             count == <<n>>
  <1>1. n \in {0, 8} /\ n \in Nat /\ f = [listen_f |-> TRUE] /\ b = count \o d
    BY DEF ListenFTable
  <1> HIDE DEF n
  <1>2. count \in Seq(Nat) /\ Len(count) = 1 /\ Len(count) >= 1 /\ count[1] = n
    BY <1>1
  <1> HIDE DEF count
  <1>3. Holds(pkt, o, count) /\ Holds(pkt, o + 1, d) /\ Len(b) = 1 + n
    <2>1. /\ Holds(pkt, o, count) /\ Holds(pkt, o + Len(count), d)
          /\ Len(b) = Len(count) + Len(d)
      <3>1. Two(b, count, d)
        BY <1>1, <1>2, PutTogether
      <3> QED BY <3>1, HoldsTwo, LengthOfTwo
    <2> QED BY <1>2, <2>1 DEF n
  <1>4. Byte(pkt, o) = n
    <2>1. Byte(pkt, o) = count[1]
      BY <1>2, <1>3, FirstByte, SecondByte
    <2> QED BY <1>2, <2>1
  <1>5. Read(BytesOf(o + 1, n), Memory(pkt, << >>)) = d
    BY <1>3, ReadAt DEF n
  <1>6. Len(b) > 0 /\ n + 1 <= Len(b)
    BY <1>1, <1>3
  <1>7. ListenFParam(pkt, o, Len(b)) = Struct(f, BytesOf(o + 1, n))
    BY <1>1, <1>4, <1>6 DEF ListenFParam
  <1> QED BY <1>5, <1>7, GivesStruct

LEMMA PollVReads ==
  ASSUME NEW pkt \in Seq(Nat), NEW o, NEW b, NEW f, NEW d,
         PollVTable(b, f, d), Holds(pkt, o, b)
  PROVE  LET param == PollVParam(pkt, o, Len(b))
         IN  Gives(param, pkt, f, d) /\ param.data = Null
  <1> DEFINE uid == f.uid
             head == <<f.res_flag, f.dsfid>>
  <1>1. /\ uid \in Seq(Nat) /\ f.res_flag \in Nat /\ f.dsfid \in Nat /\ Len(uid) = 8
        /\ d = << >> /\ b = head \o uid
        /\ f = [res_flag |-> f.res_flag, dsfid |-> f.dsfid, uid |-> uid]
    BY DEF PollVTable
  <1>2. /\ head \in Seq(Nat) /\ Len(head) = 2 /\ Len(head) >= 1 /\ Len(head) >= 2
        /\ head[1] = f.res_flag /\ head[2] = f.dsfid
    BY <1>1
  <1> HIDE DEF uid, head
  <1>3. Holds(pkt, o, head) /\ Holds(pkt, o + 2, uid) /\ Len(b) = 10
    <2>1. /\ Holds(pkt, o, head) /\ Holds(pkt, o + Len(head), uid)
          /\ Len(b) = Len(head) + Len(uid)
      <3>1. Two(b, head, uid)
        BY <1>1, <1>2, PutTogether
      <3> QED BY <3>1, HoldsTwo, LengthOfTwo
    <2> QED BY <1>1, <1>2, <2>1
  <1>5. Byte(pkt, o) = f.res_flag /\ Byte(pkt, o + 1) = f.dsfid
    <2>1. Byte(pkt, o) = head[1] /\ Byte(pkt, o + 1) = head[2]
      BY <1>2, <1>3, FirstByte, SecondByte
    <2> QED BY <1>2, <2>1
  <1>6. Bytes(pkt, o + 2, 8) = uid
    <2>1. Bytes(pkt, o + 2, Len(uid)) = uid
      BY <1>3, BytesAt
    <2> QED BY <1>1, <2>1
  <1>7. Len(b) >= 10
    BY <1>3
  <1>8. PollVParam(pkt, o, Len(b)) = Struct(f, Null)
    BY <1>1, <1>5, <1>6, <1>7 DEF PollVParam
  <1> QED BY <1>1, <1>8, GivesNoData

\* No two of the modes have anything in common.
LEMMA Modes ==
  ASSUME NEW mode
  PROVE  /\ mode \in PollA => /\ mode \notin PollF \cup ListenF \cup ListenA
                              /\ mode \notin {PASSIVE_POLL_B, PASSIVE_LISTEN_B, PASSIVE_POLL_V}
                              /\ mode \notin ModesWithData /\ mode \in CopiedModes
         /\ mode = PASSIVE_POLL_B => /\ mode \notin PollF \cup ListenF \cup ListenA
                                     /\ mode \notin {PASSIVE_LISTEN_B, PASSIVE_POLL_V}
                                     /\ mode \in ModesWithData /\ mode \in CopiedModes
         /\ mode \in PollF => /\ mode \notin ListenF \cup ListenA
                              /\ mode \notin {PASSIVE_LISTEN_B, PASSIVE_POLL_V}
                              /\ mode \notin ModesWithData /\ mode \in CopiedModes
         /\ mode \in ListenF => /\ mode \notin ListenA
                                /\ mode \notin {PASSIVE_LISTEN_B, PASSIVE_POLL_V}
                                /\ mode \in ModesWithData /\ mode \in CopiedModes
         /\ mode \in ListenA => mode \notin {PASSIVE_LISTEN_B, PASSIVE_POLL_V}
         /\ mode = PASSIVE_POLL_V => /\ mode # PASSIVE_LISTEN_B
                                     /\ mode \notin ModesWithData /\ mode \in CopiedModes
         /\ mode \notin PollA \cup PollF \cup ListenF \cup {PASSIVE_POLL_B, PASSIVE_POLL_V}
               => mode \notin ModesWithData /\ mode \notin CopiedModes
  BY DEF PollA, PollF, ListenF, ListenA, CopiedModes, ModesWithData, PASSIVE_POLL_A,
         PASSIVE_POLL_B, PASSIVE_POLL_F, ACTIVE_POLL_A, ACTIVE_POLL_F, PASSIVE_POLL_V,
         PASSIVE_LISTEN_A, PASSIVE_LISTEN_B, PASSIVE_LISTEN_F, ACTIVE_LISTEN_A,
         ACTIVE_LISTEN_F

LEMMA ModeParamReads ==
  ASSUME NEW pkt \in Seq(Nat), NEW o, NEW tech, IsTech(tech),
         tech.bytes \in Seq(Nat), tech.bytes # << >>, Holds(pkt, o, tech.bytes)
  PROVE  LET param == ModeParam(tech.mode, pkt, o, Len(tech.bytes))
         IN  Gives(param, pkt, tech.fields, tech.data) /\ FitsMode(param, tech.mode)
  <1> DEFINE b == tech.bytes
             f == tech.fields
             d == tech.data
             mode == tech.mode
             param == ModeParam(mode, pkt, o, Len(b))
  <1>1. /\ b # << >> /\ b \in Seq(Nat) /\ Holds(pkt, o, b) /\ d \in Seq(Nat)
        /\ CASE b = << >> -> NoTable(f, d)
             [] b # << >> /\ mode \in PollA -> PollATable(b, f, d)
             [] b # << >> /\ mode = PASSIVE_POLL_B -> PollBTable(b, f, d)
             [] b # << >> /\ mode \in PollF -> PollFTable(b, f, d)
             [] b # << >> /\ mode \in ListenF -> ListenFTable(b, f, d)
             [] b # << >> /\ mode = PASSIVE_POLL_V -> PollVTable(b, f, d)
             [] OTHER -> NoTable(f, d)
    BY DEF IsTech
  <1> HIDE DEF b, f, d, mode, param
  <1>2. CASE mode \in PollA
    <2>1. param = PollAParam(pkt, o, Len(b))
      BY <1>2, Modes DEF ModeParam, param
    <2>2. PollATable(b, f, d)
      BY <1>1, <1>2, Modes
    <2>3. Gives(param, pkt, f, d) /\ param.data = Null
      BY <1>1, <2>1, <2>2, PollAReads
    <2> QED BY <1>2, <2>3, Modes DEF FitsMode, param, b, f, d, mode
  <1>3. CASE mode = PASSIVE_POLL_B
    <2>1. param = PollBParam(pkt, o, Len(b))
      BY <1>3, Modes DEF ModeParam, param
    <2>2. PollBTable(b, f, d)
      BY <1>1, <1>3, Modes
    <2>3. Gives(param, pkt, f, d)
      BY <1>1, <2>1, <2>2, PollBReads
    <2> QED BY <1>3, <2>3, Modes DEF FitsMode, param, b, f, d, mode
  <1>4. CASE mode \in PollF
    <2>1. param = PollFParam(pkt, o, Len(b))
      BY <1>4, Modes DEF ModeParam, param
    <2>2. PollFTable(b, f, d)
      BY <1>1, <1>4, Modes
    <2>3. Gives(param, pkt, f, d) /\ param.data = Null
      BY <1>1, <2>1, <2>2, PollFReads
    <2> QED BY <1>4, <2>3, Modes DEF FitsMode, param, b, f, d, mode
  <1>5. CASE mode \in ListenF
    <2>1. param = ListenFParam(pkt, o, Len(b))
      BY <1>5, Modes DEF ModeParam, param
    <2>2. ListenFTable(b, f, d)
      BY <1>1, <1>5, Modes
    <2>3. Gives(param, pkt, f, d)
      BY <1>1, <2>1, <2>2, ListenFReads
    <2> QED BY <1>5, <2>3, Modes DEF FitsMode, param, b, f, d, mode
  <1>6. CASE mode = PASSIVE_POLL_V
    <2>1. param = PollVParam(pkt, o, Len(b))
      BY <1>6, Modes DEF ModeParam, param
    <2>2. PollVTable(b, f, d)
      BY <1>1, <1>6, Modes
    <2>3. Gives(param, pkt, f, d) /\ param.data = Null
      BY <1>1, <2>1, <2>2, PollVReads
    <2> QED BY <1>6, <2>3, Modes DEF FitsMode, param, b, f, d, mode
  <1>7. CASE mode \notin PollA \cup PollF \cup ListenF \cup {PASSIVE_POLL_B, PASSIVE_POLL_V}
    <2>1. param = Nothing
      BY <1>7 DEF ModeParam, param
    <2>2. NoTable(f, d)
      BY <1>1, <1>7
    <2>3. Gives(param, pkt, f, d) /\ param.data = Null
      BY <2>1, <2>2, GivesNothing DEF Nothing, Struct
    <2> QED BY <1>7, <2>1, <2>3, Modes DEF FitsMode, param, b, f, d, mode
  <1> QED BY <1>2, <1>3, <1>4, <1>5, <1>6, <1>7

\* The interface bytes of the ATS, each of which may be absent
LEMMA OptionalByte ==
  ASSUME NEW c, NEW v \in Nat
  PROVE  LET s == IF c THEN <<v>> ELSE << >>
         IN  s \in Seq(Nat) /\ Len(s) = (IF c THEN 1 ELSE 0)
  <1>1. CASE c
    BY <1>1
  <1>2. CASE ~c
    BY <1>2
  <1> QED BY <1>1, <1>2

LEMMA OptionalByteAt ==
  ASSUME NEW pkt, NEW o, NEW c, NEW v \in Nat, c \/ v = 0,
         Holds(pkt, o, IF c THEN <<v>> ELSE << >>)
  PROVE  (IF c THEN Byte(pkt, o) ELSE 0) = v
  <1>1. CASE c
    <2>1. Holds(pkt, o, <<v>>) /\ Len(<<v>>) >= 1 /\ <<v>>[1] = v
      BY <1>1
    <2>2. Byte(pkt, o) = v
      BY <2>1, FirstByte
    <2> QED BY <1>1, <2>2
  <1>2. CASE ~c
    BY <1>2
  <1> QED BY <1>1, <1>2

LEMMA AtsPlaces ==
  ASSUME NEW o \in Nat, NEW k1 \in Nat, NEW k2 \in Nat, NEW k3 \in Nat, NEW n \in Nat,
         NEW l, l = 2 + k1 + k2 + k3 + n
  PROVE  /\ l - 1 >= 1 /\ l >= (l - 1) + 1 /\ o + 1 + (l - 1) = o + l
         /\ o + 2 + k1 + k2 + k3 <= o + l
         /\ (o + l) - (o + 2 + k1 + k2 + k3) = n
  OBVIOUS

LEMMA AtsReads ==
  ASSUME NEW pkt \in Seq(Nat), NEW o, NEW b, NEW f, NEW d, d \in Seq(Nat),
         b \in Seq(Nat), b # << >>, AtsTable(b, f, d), Holds(pkt, o, b)
  PROVE  Gives(IsoDepPollAParam(pkt, o, Len(b)), pkt, f, d)
  <1> DEFINE t0 == f.t0
             l == Len(b)
             head == <<l - 1, t0>>
             sa == IF Bit(t0, 16) THEN <<f.ta>> ELSE << >>
             sb == IF Bit(t0, 32) THEN <<f.tb>> ELSE << >>
             sc == IF Bit(t0, 64) THEN <<f.tc>> ELSE << >>
             ka == IF Bit(t0, 16) THEN 1 ELSE 0
             kb == IF Bit(t0, 32) THEN 1 ELSE 0
             kc == IF Bit(t0, 64) THEN 1 ELSE 0
             n == Len(d)
  <1>1. /\ t0 \in Nat /\ f.ta \in Nat /\ f.tb \in Nat /\ f.tc \in Nat
        /\ Bit(t0, 16) \/ f.ta = 0
        /\ Bit(t0, 32) \/ f.tb = 0
        /\ Bit(t0, 64) \/ f.tc = 0
        /\ f = [t0 |-> t0, fsc |-> FrameSize(t0 % 16), ta |-> f.ta, tb |-> f.tb,
                tc |-> f.tc]
    BY DEF AtsTable
  <1>2. b = head \o sa \o sb \o sc \o d
    BY DEF AtsTable
  <1>3. /\ sa \in Seq(Nat) /\ Len(sa) = ka /\ sb \in Seq(Nat) /\ Len(sb) = kb
        /\ sc \in Seq(Nat) /\ Len(sc) = kc
    BY <1>1, OptionalByte
  <1>4. ka \in Nat /\ kb \in Nat /\ kc \in Nat
    OBVIOUS
  <1>5. l - 1 \in Nat /\ n \in Nat
    <2>1. l \in Nat /\ l # 0 /\ n \in Nat
      OBVIOUS
    <2> HIDE DEF l, n
    <2> QED BY <2>1
  <1> HIDE DEF l, t0
  <1>6. /\ head \in Seq(Nat) /\ Len(head) = 2 /\ Len(head) >= 1 /\ Len(head) >= 2
        /\ head[1] = l - 1 /\ head[2] = t0
    BY <1>1, <1>5
  <1> HIDE DEF head, sa, sb, sc, n, ka, kb, kc
  <1>7. Five(b, head, sa, sb, sc, d)
    BY <1>2, <1>3, <1>6, PutTogether
  <1>8. l = 2 + ka + kb + kc + n
    <2>1. Len(b) = Len(head) + Len(sa) + Len(sb) + Len(sc) + Len(d)
      BY <1>7, LengthOfFive
    <2> QED BY <1>3, <1>6, <2>1 DEF l, n
  <1>9. /\ Holds(pkt, o, head) /\ Holds(pkt, o + 2, sa) /\ Holds(pkt, o + 2 + ka, sb)
        /\ Holds(pkt, o + 2 + ka + kb, sc) /\ Holds(pkt, o + 2 + ka + kb + kc, d)
    <2>1. /\ Holds(pkt, o, head) /\ Holds(pkt, o + Len(head), sa)
          /\ Holds(pkt, o + Len(head) + Len(sa), sb)
          /\ Holds(pkt, o + Len(head) + Len(sa) + Len(sb), sc)
          /\ Holds(pkt, o + Len(head) + Len(sa) + Len(sb) + Len(sc), d)
      BY <1>7, HoldsFive
    <2> QED BY <1>3, <1>6, <2>1
  <1>10. o \in Nat
    BY HoldsAt
  <1>11. Byte(pkt, o) = l - 1 /\ Byte(pkt, o + 1) = t0
    <2>1. Byte(pkt, o) = head[1] /\ Byte(pkt, o + 1) = head[2]
      BY <1>6, <1>9, FirstByte, SecondByte
    <2> QED BY <1>6, <2>1
  <1> DEFINE opt(bit, at) == IF Bit(t0, bit) THEN Byte(pkt, at) ELSE 0
             t1 == o + 2 + ka + kb + kc
             end == o + 1 + (l - 1)
             data == BytesOf(t1, end - t1)
  <1>12. /\ opt(16, o + 2) = f.ta /\ opt(32, o + 2 + ka) = f.tb
         /\ opt(64, o + 2 + ka + kb) = f.tc
    BY <1>1, <1>9, OptionalByteAt DEF sa, sb, sc
  <1>13. l - 1 >= 1 /\ l >= (l - 1) + 1 /\ t1 <= end /\ end - t1 = n
    BY <1>4, <1>5, <1>8, <1>10, AtsPlaces
  <1>14. Read(data, Memory(pkt, << >>)) = d
    <2>1. data = BytesOf(t1, Len(d))
      BY <1>13 DEF n
    <2> QED BY <1>9, <2>1, ReadAt
  <1>15. IsoDepPollAParam(pkt, o, l)
          = IF l - 1 >= 1 /\ l >= (l - 1) + 1 /\ t1 <= end
            THEN Struct([t0 |-> t0, fsc |-> FrameSize(t0 % 16), ta |-> opt(16, o + 2),
                         tb |-> opt(32, o + 2 + ka), tc |-> opt(64, o + 2 + ka + kb)],
                        data)
            ELSE Nothing
    BY <1>11, Zenon DEF IsoDepPollAParam, ka, kb, kc
  <1>16. IsoDepPollAParam(pkt, o, l) = Struct(f, data)
    BY <1>1, <1>12, <1>13, <1>15
  <1> QED BY <1>14, <1>16, GivesStruct DEF l

LEMMA RatsReads ==
  ASSUME NEW pkt \in Seq(Nat), NEW o, NEW b, NEW f, NEW d,
         RatsTable(b, f, d), Holds(pkt, o, b)
  PROVE  Gives(IsoDepListenAParam(pkt, o, Len(b)), pkt, f, d)
  <1>1. /\ Len(b) = 1 /\ Len(b) >= 1 /\ Len(b) > 0 /\ d = << >>
        /\ f = [fsd |-> FrameSize(b[1] \div 16), did |-> b[1] % 16]
    BY DEF RatsTable
  <1>2. Byte(pkt, o) = b[1]
    BY <1>1, FirstByte
  <1>3. IsoDepListenAParam(pkt, o, Len(b)) = Struct(f, Null)
    BY <1>1, <1>2 DEF IsoDepListenAParam
  <1> QED BY <1>1, <1>3, GivesNoData

\* MBLI and DID share a byte.
LEMMA Nibbles ==
  ASSUME NEW m \in Nat, NEW n \in 0 .. 15
  PROVE  /\ 16 * m + n \in Nat
         /\ (16 * m + n) \div 16 = m /\ (16 * m + n) % 16 = n
  OBVIOUS

LEMMA AttribRspReads ==
  ASSUME NEW pkt \in Seq(Nat), NEW o, NEW b, NEW f, NEW d, d \in Seq(Nat),
         AttribRspTable(b, f, d), Holds(pkt, o, b)
  PROVE  Gives(IsoDepPollBParam(pkt, o, Len(b)), pkt, f, d)
  <1> DEFINE n == Len(d)
             byte == 16 * f.mbli + f.did
             head == <<1 + n, byte>>
  <1>1. /\ f.mbli \in Nat /\ f.did \in 0 .. 15 /\ n \in Nat /\ b = head \o d
        /\ f = [mbli |-> f.mbli, did |-> f.did]
    BY DEF AttribRspTable
  <1>2. byte \in Nat /\ byte \div 16 = f.mbli /\ byte % 16 = f.did
    BY <1>1, Nibbles
  <1>3. 1 + n \in Nat /\ 1 + n >= 1 /\ (1 + n) - 1 = n
    <2>1. n \in Nat
      BY <1>1
    <2> HIDE DEF n
    <2> QED BY <2>1
  <1> HIDE DEF n, byte
  <1>4. /\ head \in Seq(Nat) /\ Len(head) = 2 /\ Len(head) >= 1 /\ Len(head) >= 2
        /\ head[1] = 1 + n /\ head[2] = byte
    BY <1>2, <1>3
  <1> HIDE DEF head
  <1>5. Two(b, head, d)
    BY <1>1, <1>4, PutTogether
  <1>6. Holds(pkt, o, head) /\ Holds(pkt, o + 2, d)
    <2>1. Holds(pkt, o, head) /\ Holds(pkt, o + Len(head), d)
      BY <1>5, HoldsTwo
    <2> QED BY <1>4, <2>1
  <1>7. Byte(pkt, o) = 1 + n /\ Byte(pkt, o + 1) = byte
    <2>1. Byte(pkt, o) = head[1] /\ Byte(pkt, o + 1) = head[2]
      BY <1>4, <1>6, FirstByte, SecondByte
    <2> QED BY <1>4, <2>1
  <1>8. Read(BytesOf(o + 2, n), Memory(pkt, << >>)) = d
    BY <1>6, ReadAt DEF n
  <1>9. IsoDepPollBParam(pkt, o, Len(b)) = Struct(f, BytesOf(o + 2, n))
    BY <1>1, <1>2, <1>3, <1>7 DEF IsoDepPollBParam
  <1> QED BY <1>8, <1>9, GivesStruct

LEMMA AttribCmdReads ==
  ASSUME NEW pkt \in Seq(Nat), NEW o, NEW b, NEW f, NEW d, d \in Seq(Nat),
         AttribCmdTable(b, f, d), Holds(pkt, o, b)
  PROVE  Gives(IsoDepListenBParam(pkt, o, Len(b)), pkt, f, d)
  <1> DEFINE id == f.nfcid0
             cmd == f.param
             n == Len(d)
             count == <<8 + n>>
  <1>1. /\ id \in Seq(Nat) /\ cmd \in Seq(Nat) /\ Len(id) = 4 /\ Len(cmd) = 4
        /\ n \in Nat /\ f = [nfcid0 |-> id, param |-> cmd]
        /\ b = count \o id \o cmd \o d
    BY DEF AttribCmdTable
  <1> HIDE DEF n
  <1>2. /\ count \in Seq(Nat) /\ Len(count) = 1 /\ count[1] = 8 + n
        /\ Len(count) >= 1
    <2>1. n \in Nat
      BY <1>1
    <2>2. 8 + n \in Nat
      BY <2>1
    <2> QED BY <2>2
  <1> HIDE DEF id, cmd, count
  <1>3. Four(b, count, id, cmd, d)
    BY <1>1, <1>2, PutTogether
  <1>4. /\ Holds(pkt, o, count) /\ Holds(pkt, o + 1, id)
        /\ Holds(pkt, o + 5, cmd) /\ Holds(pkt, o + 9, d) /\ o \in Nat
    <2>1. /\ Holds(pkt, o, count) /\ Holds(pkt, o + Len(count), id)
          /\ Holds(pkt, o + Len(count) + Len(id), cmd)
          /\ Holds(pkt, o + Len(count) + Len(id) + Len(cmd), d)
      BY <1>3, HoldsFour
    <2>2. o \in Nat
      BY HoldsAt
    <2>3. /\ o + Len(count) + Len(id) = o + 5
          /\ o + Len(count) + Len(id) + Len(cmd) = o + 9
      BY <1>1, <1>2, <2>2
    <2> QED BY <1>2, <2>1, <2>2, <2>3
  <1>5. Bytes(pkt, o + 1, 4) = id /\ Bytes(pkt, o + 5, 4) = cmd
    <2>1. Bytes(pkt, o + 1, Len(id)) = id /\ Bytes(pkt, o + 5, Len(cmd)) = cmd
      BY <1>4, BytesAt
    <2> QED BY <1>1, <2>1
  <1>6. Byte(pkt, o) = 8 + n
    <2>1. Byte(pkt, o) = count[1]
      BY <1>2, <1>4, FirstByte
    <2> QED BY <1>2, <2>1
  <1>7. Read(BytesOf(o + 9, n), Memory(pkt, << >>)) = d
    BY <1>4, ReadAt DEF n
  <1>8. 8 + n >= 8 /\ Len(b) > 8 + n /\ (8 + n) - 8 = n
    <2>1. Len(b) = Len(count) + Len(id) + Len(cmd) + Len(d)
      BY <1>3, LengthOfFour
    <2> QED BY <1>1, <1>2, <2>1 DEF n
  <1>9. IsoDepListenBParam(pkt, o, Len(b)) = Struct(f, BytesOf(o + 9, n))
    BY <1>1, <1>5, <1>6, <1>8 DEF IsoDepListenBParam
  <1> QED BY <1>7, <1>9, GivesStruct

LEMMA AtrResReads ==
  ASSUME NEW pkt \in Seq(Nat), NEW o, NEW b, NEW f, NEW d, d \in Seq(Nat),
         AtrResTable(b, f, d), Holds(pkt, o, b)
  PROVE  Gives(NfcDepPollParam(pkt, o, Len(b)), pkt, f, d)
  <1> DEFINE id == f.nfcid3
             five == <<f.did, f.bs, f.br, f.to, f.pp>>
             n == Len(d)
             count == <<15 + n>>
  <1>1. /\ id \in Seq(Nat) /\ Len(id) = 10 /\ n \in Nat
        /\ {f.did, f.bs, f.br, f.to, f.pp} \subseteq Nat
        /\ f = [nfcid3 |-> id, did |-> f.did, bs |-> f.bs, br |-> f.br, to |-> f.to,
                pp |-> f.pp]
        /\ b = count \o id \o five \o d
    BY DEF AtrResTable
  <1> HIDE DEF n
  <1>2. /\ count \in Seq(Nat) /\ Len(count) = 1 /\ count[1] = 15 + n
        /\ Len(count) >= 1
    <2>1. n \in Nat
      BY <1>1
    <2>2. 15 + n \in Nat
      BY <2>1
    <2> QED BY <2>2
  <1>3. /\ five \in Seq(Nat) /\ Len(five) = 5
        /\ five[1] = f.did /\ five[2] = f.bs /\ five[3] = f.br /\ five[4] = f.to
        /\ five[5] = f.pp
    BY <1>1
  <1> HIDE DEF id, five, count
  <1>4. Four(b, count, id, five, d)
    BY <1>1, <1>2, <1>3, PutTogether
  <1>5. /\ Holds(pkt, o, count) /\ Holds(pkt, o + 1, id)
        /\ Holds(pkt, o + 11, five) /\ Holds(pkt, o + 16, d) /\ o \in Nat
    <2>1. /\ Holds(pkt, o, count) /\ Holds(pkt, o + Len(count), id)
          /\ Holds(pkt, o + Len(count) + Len(id), five)
          /\ Holds(pkt, o + Len(count) + Len(id) + Len(five), d)
      BY <1>4, HoldsFour
    <2>2. o \in Nat
      BY HoldsAt
    <2>3. /\ o + Len(count) + Len(id) = o + 11
          /\ o + Len(count) + Len(id) + Len(five) = o + 16
      <3>1. Len(count) = 1 /\ Len(id) = 10 /\ Len(five) = 5
        BY <1>1, <1>2, <1>3
      <3> QED BY <2>2, <3>1
    <2> QED BY <1>2, <2>1, <2>2, <2>3
  <1>6. Bytes(pkt, o + 1, 10) = id
    <2>1. Bytes(pkt, o + 1, Len(id)) = id
      BY <1>5, BytesAt
    <2> QED BY <1>1, <2>1
  <1>7. Byte(pkt, o) = 15 + n
    <2>1. Byte(pkt, o) = count[1]
      BY <1>2, <1>5, FirstByte
    <2> QED BY <1>2, <2>1
  <1>8. /\ Byte(pkt, o + 11) = f.did /\ Byte(pkt, o + 12) = f.bs
        /\ Byte(pkt, o + 13) = f.br /\ Byte(pkt, o + 14) = f.to
        /\ Byte(pkt, o + 15) = f.pp
    <2>1. \A i \in 1 .. 5 : Byte(pkt, o + 11 + i - 1) = five[i]
      <3>1. \A i \in 1 .. Len(five) : Byte(pkt, o + 11 + i - 1) = five[i]
        BY <1>5, ByteAt
      <3> QED BY <1>3, <3>1
    <2>2. /\ o + 11 + 1 - 1 = o + 11 /\ o + 11 + 2 - 1 = o + 12
          /\ o + 11 + 3 - 1 = o + 13 /\ o + 11 + 4 - 1 = o + 14
          /\ o + 11 + 5 - 1 = o + 15 /\ 1 \in 1 .. 5 /\ 2 \in 1 .. 5
          /\ 3 \in 1 .. 5 /\ 4 \in 1 .. 5 /\ 5 \in 1 .. 5
      BY <1>5
    <2> QED BY <1>3, <2>1, <2>2
  <1>9. Read(BytesOf(o + 16, n), Memory(pkt, << >>)) = d
    BY <1>5, ReadAt DEF n
  <1>10. 15 + n >= 15 /\ Len(b) >= (15 + n) + 1 /\ (15 + n) - 15 = n
    <2>1. Len(b) = Len(count) + Len(id) + Len(five) + Len(d)
      BY <1>4, LengthOfFour
    <2> QED BY <1>1, <1>2, <1>3, <2>1 DEF n
  <1>11. NfcDepPollParam(pkt, o, Len(b)) = Struct(f, BytesOf(o + 16, n))
    BY <1>1, <1>6, <1>7, <1>8, <1>10 DEF NfcDepPollParam
  <1> QED BY <1>9, <1>11, GivesStruct

LEMMA AtrReqReads ==
  ASSUME NEW pkt \in Seq(Nat), NEW o, NEW b, NEW f, NEW d, d \in Seq(Nat),
         AtrReqTable(b, f, d), Holds(pkt, o, b)
  PROVE  Gives(NfcDepListenParam(pkt, o, Len(b)), pkt, f, d)
  <1> DEFINE id == f.nfcid3
             four == <<f.did, f.bs, f.br, f.pp>>
             n == Len(d)
             count == <<14 + n>>
  <1>1. /\ id \in Seq(Nat) /\ Len(id) = 10 /\ n \in Nat
        /\ {f.did, f.bs, f.br, f.pp} \subseteq Nat
        /\ f = [nfcid3 |-> id, did |-> f.did, bs |-> f.bs, br |-> f.br, pp |-> f.pp]
        /\ b = count \o id \o four \o d
    BY DEF AtrReqTable
  <1> HIDE DEF n
  <1>2. /\ count \in Seq(Nat) /\ Len(count) = 1 /\ count[1] = 14 + n
        /\ Len(count) >= 1
    <2>1. n \in Nat
      BY <1>1
    <2>2. 14 + n \in Nat
      BY <2>1
    <2> QED BY <2>2
  <1>3. /\ four \in Seq(Nat) /\ Len(four) = 4
        /\ four[1] = f.did /\ four[2] = f.bs /\ four[3] = f.br /\ four[4] = f.pp
    BY <1>1
  <1> HIDE DEF id, four, count
  <1>4. Four(b, count, id, four, d)
    BY <1>1, <1>2, <1>3, PutTogether
  <1>5. /\ Holds(pkt, o, count) /\ Holds(pkt, o + 1, id)
        /\ Holds(pkt, o + 11, four) /\ Holds(pkt, o + 15, d) /\ o \in Nat
    <2>1. /\ Holds(pkt, o, count) /\ Holds(pkt, o + Len(count), id)
          /\ Holds(pkt, o + Len(count) + Len(id), four)
          /\ Holds(pkt, o + Len(count) + Len(id) + Len(four), d)
      BY <1>4, HoldsFour
    <2>2. o \in Nat
      BY HoldsAt
    <2>3. /\ o + Len(count) + Len(id) = o + 11
          /\ o + Len(count) + Len(id) + Len(four) = o + 15
      <3>1. Len(count) = 1 /\ Len(id) = 10 /\ Len(four) = 4
        BY <1>1, <1>2, <1>3
      <3> QED BY <2>2, <3>1
    <2> QED BY <1>2, <2>1, <2>2, <2>3
  <1>6. Bytes(pkt, o + 1, 10) = id
    <2>1. Bytes(pkt, o + 1, Len(id)) = id
      BY <1>5, BytesAt
    <2> QED BY <1>1, <2>1
  <1>7. Byte(pkt, o) = 14 + n
    <2>1. Byte(pkt, o) = count[1]
      BY <1>2, <1>5, FirstByte
    <2> QED BY <1>2, <2>1
  <1>8. /\ Byte(pkt, o + 11) = f.did /\ Byte(pkt, o + 12) = f.bs
        /\ Byte(pkt, o + 13) = f.br /\ Byte(pkt, o + 14) = f.pp
    <2>1. \A i \in 1 .. 4 : Byte(pkt, o + 11 + i - 1) = four[i]
      <3>1. \A i \in 1 .. Len(four) : Byte(pkt, o + 11 + i - 1) = four[i]
        BY <1>5, ByteAt
      <3> QED BY <1>3, <3>1
    <2>2. /\ o + 11 + 1 - 1 = o + 11 /\ o + 11 + 2 - 1 = o + 12
          /\ o + 11 + 3 - 1 = o + 13 /\ o + 11 + 4 - 1 = o + 14
          /\ 1 \in 1 .. 4 /\ 2 \in 1 .. 4 /\ 3 \in 1 .. 4 /\ 4 \in 1 .. 4
      BY <1>5
    <2> QED BY <1>3, <2>1, <2>2
  <1>9. Read(BytesOf(o + 15, n), Memory(pkt, << >>)) = d
    BY <1>5, ReadAt DEF n
  <1>10. 14 + n >= 14 /\ Len(b) >= (14 + n) + 1 /\ (14 + n) - 14 = n
    <2>1. Len(b) = Len(count) + Len(id) + Len(four) + Len(d)
      BY <1>4, LengthOfFour
    <2> QED BY <1>1, <1>2, <1>3, <2>1 DEF n
  <1>11. NfcDepListenParam(pkt, o, Len(b)) = Struct(f, BytesOf(o + 15, n))
    BY <1>1, <1>6, <1>7, <1>8, <1>10 DEF NfcDepListenParam
  <1> QED BY <1>9, <1>11, GivesStruct

LEMMA ActivationParamReads ==
  ASSUME NEW pkt \in Seq(Nat), NEW o, NEW intf, NEW mode, NEW param,
         IsActivationParam(intf, mode, param), param.bytes \in Seq(Nat),
         param.bytes # << >>, Holds(pkt, o, param.bytes)
  PROVE  Gives(ActivationParam(intf, mode, pkt, o, Len(param.bytes)), pkt,
               param.fields, param.data)
  <1> DEFINE b == param.bytes
             f == param.fields
             d == param.data
             l == Len(b)
             parsed == ActivationParam(intf, mode, pkt, o, l)
  <1>1. /\ b # << >> /\ b \in Seq(Nat) /\ Holds(pkt, o, b) /\ d \in Seq(Nat)
        /\ CASE b = << >> -> NoTable(f, d)
             [] b # << >> /\ intf = ISO_DEP /\ mode \in PollA -> AtsTable(b, f, d)
             [] b # << >> /\ intf = ISO_DEP /\ mode \in ListenA -> RatsTable(b, f, d)
             [] b # << >> /\ intf = ISO_DEP /\ mode \in {PASSIVE_POLL_B} ->
                   AttribRspTable(b, f, d)
             [] b # << >> /\ intf = ISO_DEP /\ mode \in {PASSIVE_LISTEN_B} ->
                   AttribCmdTable(b, f, d)
             [] b # << >> /\ intf = NFC_DEP /\ mode \in PollA \cup PollF ->
                   AtrResTable(b, f, d)
             [] b # << >> /\ intf = NFC_DEP /\ mode \in ListenA \cup ListenF ->
                   AtrReqTable(b, f, d)
             [] OTHER -> NoTable(f, d)
    BY DEF IsActivationParam
  <1>2. ISO_DEP # NFC_DEP
    BY DEF ISO_DEP, NFC_DEP
  <1> HIDE DEF b, f, d, l, parsed
  <1>3. Holds(pkt, o, b) /\ d \in Seq(Nat) /\ b \in Seq(Nat) /\ b # << >>
    BY <1>1
  <1>4. CASE intf = ISO_DEP /\ mode \in PollA
    <2>1. parsed = IsoDepPollAParam(pkt, o, l)
      BY <1>2, <1>4, Modes DEF ActivationParam, parsed
    <2>2. AtsTable(b, f, d)
      BY <1>1, <1>2, <1>4, Modes
    <2>3. Gives(parsed, pkt, f, d)
      BY <1>3, <2>1, <2>2, AtsReads DEF l
    <2> QED BY <2>3 DEF parsed, l, b, f, d
  <1>5. CASE intf = ISO_DEP /\ mode \in ListenA
    <2>1. parsed = IsoDepListenAParam(pkt, o, l)
      BY <1>2, <1>5, Modes DEF ActivationParam, parsed
    <2>2. RatsTable(b, f, d)
      BY <1>1, <1>2, <1>5, Modes
    <2>3. Gives(parsed, pkt, f, d)
      BY <1>3, <2>1, <2>2, RatsReads DEF l
    <2> QED BY <2>3 DEF parsed, l, b, f, d
  <1>6. CASE intf = ISO_DEP /\ mode = PASSIVE_POLL_B
    <2>1. parsed = IsoDepPollBParam(pkt, o, l)
      BY <1>6, Modes DEF ActivationParam, parsed
    <2>2. AttribRspTable(b, f, d)
      BY <1>1, <1>6, Modes
    <2>3. Gives(parsed, pkt, f, d)
      BY <1>3, <2>1, <2>2, AttribRspReads DEF l
    <2> QED BY <2>3 DEF parsed, l, b, f, d
  <1>7. CASE intf = ISO_DEP /\ mode = PASSIVE_LISTEN_B
    <2>1. parsed = IsoDepListenBParam(pkt, o, l)
      BY <1>7, Modes DEF ActivationParam, parsed
    <2>2. AttribCmdTable(b, f, d)
      BY <1>1, <1>7, Modes
    <2>3. Gives(parsed, pkt, f, d)
      BY <1>3, <2>1, <2>2, AttribCmdReads DEF l
    <2> QED BY <2>3 DEF parsed, l, b, f, d
  <1>8. CASE intf = NFC_DEP /\ mode \in PollA \cup PollF
    <2>1. parsed = NfcDepPollParam(pkt, o, l)
      BY <1>2, <1>8, Modes DEF ActivationParam, parsed
    <2>2. AtrResTable(b, f, d)
      BY <1>1, <1>2, <1>8, Modes
    <2>3. Gives(parsed, pkt, f, d)
      BY <1>3, <2>1, <2>2, AtrResReads DEF l
    <2> QED BY <2>3 DEF parsed, l, b, f, d
  <1>9. CASE intf = NFC_DEP /\ mode \in ListenA \cup ListenF
    <2>1. parsed = NfcDepListenParam(pkt, o, l)
      BY <1>2, <1>9, Modes DEF ActivationParam, parsed
    <2>2. AtrReqTable(b, f, d)
      BY <1>1, <1>2, <1>9, Modes
    <2>3. Gives(parsed, pkt, f, d)
      BY <1>3, <2>1, <2>2, AtrReqReads DEF l
    <2> QED BY <2>3 DEF parsed, l, b, f, d
  <1>10. CASE /\ ~ (intf = ISO_DEP /\ mode \in PollA)
              /\ ~ (intf = ISO_DEP /\ mode \in ListenA)
              /\ ~ (intf = ISO_DEP /\ mode = PASSIVE_POLL_B)
              /\ ~ (intf = ISO_DEP /\ mode = PASSIVE_LISTEN_B)
              /\ ~ (intf = NFC_DEP /\ mode \in PollA \cup PollF)
              /\ ~ (intf = NFC_DEP /\ mode \in ListenA \cup ListenF)
    <2>1. parsed = Nothing
      BY <1>10 DEF ActivationParam, parsed
    <2>2. NoTable(f, d)
      BY <1>1, <1>10
    <2>3. Gives(parsed, pkt, f, d)
      BY <2>1, <2>2, GivesNothing
    <2> QED BY <2>3 DEF parsed, l, b, f, d
  <1> QED BY <1>4, <1>5, <1>6, <1>7, <1>8, <1>9, <1>10

-----------------------------------------------------------------------------
(***************************************************************************)
(* What the parsed notifications say is what the NFCC has announced.       *)
(***************************************************************************)
LEMMA EmptyTech ==
  ASSUME NEW tech, IsTech(tech), tech.bytes = << >>, NEW pkt
  PROVE  Gives(Nothing, pkt, tech.fields, tech.data)
  BY GivesNothing DEF IsTech

LEMMA DiscoverNtfSays ==
  ASSUME NEW t \in Targets
  PROVE  LET pkt == DiscoverNtf(t)
             ntf == ParseDiscoverNtf(pkt)
         IN  WellMade(ntf) /\ Content(ntf, Memory(pkt, << >>)) = DiscoverMeans(t)
  <1> DEFINE pkt == DiscoverNtf(t)
             ntf == ParseDiscoverNtf(pkt)
             bytes == t.tech.bytes
             n == Len(bytes)
             mode == t.tech.mode
             head == <<t.id, t.protocol, mode, n>>
             last == <<t.type>>
             param == IF n > 0 THEN ModeParam(mode, pkt, 4, n) ELSE Nothing
             mem == Memory(pkt, << >>)
  <1>1. /\ n \in Nat /\ t.id \in Nat /\ t.protocol \in Nat
        /\ pkt \in Seq(Nat) /\ Len(pkt) = 5 + n
        /\ Byte(pkt, 0) = t.id /\ Byte(pkt, 1) = t.protocol
        /\ Byte(pkt, 3) = n /\ Byte(pkt, 4 + n) = t.type
    BY DiscoverNtfIs
  <1>2. mode \in Nat /\ t.type \in Nat /\ bytes \in Seq(Nat) /\ IsTech(t.tech)
    BY NtfAssumption, AnnouncementAssumption
  <1>3. pkt = head \o bytes \o last
    BY DEF DiscoverNtf
  <1>4. /\ head \in Seq(Nat) /\ Len(head) = 4 /\ Len(head) >= 3 /\ head[3] = mode
        /\ last \in Seq(Nat)
    <2> HIDE DEF n
    <2> QED BY <1>1, <1>2
  <1> HIDE DEF pkt, n, head, last, mode, bytes
  <1>5. Holds(pkt, 0, head) /\ Holds(pkt, 4, bytes)
    <2>1. Three(pkt, head, bytes, last)
      BY <1>2, <1>3, <1>4, PutTogether
    <2>2. Holds(pkt, 0, pkt)
      BY <1>1, HoldsItself
    <2>3. Holds(pkt, 0, head) /\ Holds(pkt, 0 + Len(head), bytes)
      BY <1>1, <2>1, <2>2, HoldsThree
    <2> QED BY <1>4, <2>3
  <1>6. Byte(pkt, 2) = mode
    <2>1. Byte(pkt, 0 + 3 - 1) = head[3]
      BY <1>4, <1>5, ByteNumber
    <2>2. 0 + 3 - 1 = 2
      OBVIOUS
    <2> QED BY <1>4, <2>1, <2>2
  <1>7. /\ Gives(param, pkt, t.tech.fields, t.tech.data)
        /\ n # 0 => FitsMode(param, mode)
        /\ n = 0 => param = Nothing /\ BytesOf(4, n) = Null
    <2>1. CASE n > 0
      <3>1. bytes # << >> /\ param = ModeParam(mode, pkt, 4, n) /\ n # 0
        BY <1>1, <2>1 DEF n
      <3>2. Gives(param, pkt, t.tech.fields, t.tech.data) /\ FitsMode(param, mode)
        BY <1>1, <1>2, <1>5, <3>1, ModeParamReads DEF n, mode, bytes
      <3> QED BY <3>1, <3>2
    <2>2. CASE ~ (n > 0)
      <3>1. n = 0
        BY <1>1, <2>2
      <3>2. bytes = << >> /\ param = Nothing /\ BytesOf(4, n) = Null
        BY <1>2, <3>1 DEF n, BytesOf
      <3> QED BY <1>2, <3>1, <3>2, EmptyTech DEF bytes
    <2> QED BY <2>1, <2>2
  <1>8. Read(BytesOf(4, n), mem) = bytes
    BY <1>1, <1>5, ReadAt DEF n
  <1>9. ntf = [ok |-> TRUE, id |-> t.id, protocol |-> t.protocol, mode |-> mode,
               bytes |-> BytesOf(4, n), param |-> param, last |-> t.type # 2]
    <2>1. Len(pkt) >= 5 /\ Len(pkt) >= 5 + n
      BY <1>1
    <2> QED BY <1>1, <1>6, <2>1 DEF ParseDiscoverNtf
  <1>10. BytesOf(4, n).len = n
    BY <1>1 DEF BytesOf, InBuffer, Null
  <1> HIDE DEF ntf, param, mem
  <1>11. /\ ntf.id = t.id /\ ntf.protocol = t.protocol /\ ntf.mode = mode
         /\ ntf.bytes = BytesOf(4, n) /\ ntf.param = param /\ ntf.last = (t.type # 2)
    BY <1>9
  <1>12. WellMade(ntf)
    <2>1. FitsMode(Nothing, mode)
      BY DEF FitsMode, Nothing, Struct
    <2> QED BY <1>7, <1>10, <1>11, <2>1 DEF WellMade
  <1>13. Content(ntf, mem) = DiscoverMeans(t)
    <2>1. param.fields = t.tech.fields /\ Read(param.data, mem) = t.tech.data
      BY <1>7 DEF Gives, mem
    <2> QED BY <1>8, <1>11, <2>1 DEF Content, DiscoverMeans, mode, bytes
  <1> QED BY <1>12, <1>13 DEF ntf, pkt, mem

ActivationHead(a) ==
    <<a.id, a.intf, a.protocol, a.tech.mode, a.size, a.credits, Len(a.tech.bytes)>>

LEMMA ActivationHeadIs ==
  ASSUME NEW a \in Activations
  PROVE  /\ ActivationHead(a) \in Seq(Nat) /\ Len(ActivationHead(a)) = 7
         /\ ActivationHead(a)[1] = a.id /\ ActivationHead(a)[2] = a.intf
         /\ ActivationHead(a)[3] = a.protocol /\ ActivationHead(a)[4] = a.tech.mode
         /\ ActivationHead(a)[5] = a.size /\ ActivationHead(a)[6] = a.credits
         /\ ActivationHead(a)[7] = Len(a.tech.bytes)
  <1> DEFINE n == Len(a.tech.bytes)
  <1>1. /\ a.id \in Nat /\ a.intf \in Nat /\ a.protocol \in Nat
        /\ a.tech.mode \in Nat /\ a.size \in Nat /\ a.credits \in Nat
        /\ a.tech.bytes \in Seq(Nat)
    BY NtfAssumption
  <1>2. n \in Nat
    BY <1>1
  <1> HIDE DEF n
  <1> QED BY <1>1, <1>2 DEF ActivationHead, n

LEMMA IntfActivatedNtfHolds ==
  ASSUME NEW a \in Activations
  PROVE  LET pkt == IntfActivatedNtf(a)
             n == Len(a.tech.bytes)
             m == Len(a.param.bytes)
         IN  /\ n \in Nat /\ m \in Nat
             /\ pkt \in Seq(Nat) /\ Len(pkt) = 11 + n + m
             /\ Holds(pkt, 0, ActivationHead(a)) /\ Holds(pkt, 7, a.tech.bytes)
             /\ Holds(pkt, 7 + n, a.exchange)
             /\ Byte(pkt, 6) = n /\ Byte(pkt, 10 + n) = m
             /\ Holds(pkt, 11 + n, a.param.bytes)
  <1> DEFINE pkt == IntfActivatedNtf(a)
             head == ActivationHead(a)
             bytes == a.tech.bytes
             exchange == a.exchange
             param == a.param.bytes
             n == Len(bytes)
             m == Len(param)
             count == <<m>>
  <1>1. /\ bytes \in Seq(Nat) /\ exchange \in Seq(Nat) /\ param \in Seq(Nat)
        /\ Len(exchange) = 3
    BY NtfAssumption, AnnouncementAssumption
  <1>2. n \in Nat /\ m \in Nat
    <2>1. \A s \in Seq(Nat) : Len(s) \in Nat
      OBVIOUS
    <2>2. bytes \in Seq(Nat) /\ param \in Seq(Nat)
      BY <1>1
    <2> QED BY <2>1, <2>2
  <1>3. head \in Seq(Nat) /\ Len(head) = 7 /\ head[7] = n
    BY ActivationHeadIs
  <1>4. pkt = head \o bytes \o exchange \o count \o param
    BY DEF IntfActivatedNtf, ActivationHead
  <1>5. pkt \in Seq(Nat)
    BY IntfActivatedNtfIs
  <1> HIDE DEF n, m, pkt, head, bytes, exchange, param
  <1>6. count \in Seq(Nat) /\ Len(count) = 1 /\ Len(count) >= 1 /\ count[1] = m
    BY <1>2
  <1> HIDE DEF count
  <1>7. Five(pkt, head, bytes, exchange, count, param)
    BY <1>1, <1>3, <1>4, <1>6, PutTogether
  <1>8. Len(pkt) = 11 + n + m
    <2>1. Len(pkt) = Len(head) + Len(bytes) + Len(exchange) + Len(count) + Len(param)
      BY <1>7, LengthOfFive
    <2>2. Len(head) = 7 /\ Len(exchange) = 3 /\ Len(count) = 1
      BY <1>1, <1>3, <1>6
    <2> QED BY <1>2, <2>1, <2>2 DEF n, m
  <1>9. /\ Holds(pkt, 0, head) /\ Holds(pkt, 7, bytes) /\ Holds(pkt, 7 + n, exchange)
        /\ Holds(pkt, 10 + n, count) /\ Holds(pkt, 11 + n, param)
    <2>1. Holds(pkt, 0, pkt)
      BY <1>5, HoldsItself
    <2>2. /\ Holds(pkt, 0, head) /\ Holds(pkt, 0 + Len(head), bytes)
          /\ Holds(pkt, 0 + Len(head) + Len(bytes), exchange)
          /\ Holds(pkt, 0 + Len(head) + Len(bytes) + Len(exchange), count)
          /\ Holds(pkt, 0 + Len(head) + Len(bytes) + Len(exchange) + Len(count), param)
      BY <1>5, <1>7, <2>1, HoldsFive
    <2>3. Len(head) = 7 /\ Len(exchange) = 3 /\ Len(count) = 1
      BY <1>1, <1>3, <1>6
    <2>4. 0 + 7 = 7 /\ 0 + 7 + n = 7 + n /\ 7 + n + 3 = 10 + n /\ 10 + n + 1 = 11 + n
      BY <1>2
    <2> QED BY <2>2, <2>3, <2>4 DEF n
  <1>10. Byte(pkt, 6) = n
    <2>1. Len(head) >= 7 /\ 0 + 7 - 1 = 6
      BY <1>3
    <2>2. Byte(pkt, 0 + 7 - 1) = head[7]
      BY <1>9, <2>1, ByteNumber
    <2> QED BY <1>3, <2>1, <2>2
  <1>11. Byte(pkt, 10 + n) = m
    <2>1. Byte(pkt, 10 + n) = count[1]
      BY <1>6, <1>9, FirstByte
    <2> QED BY <1>6, <2>1
  <1> QED BY <1>2, <1>5, <1>8, <1>9, <1>10, <1>11
          DEF pkt, head, bytes, exchange, param, n, m

\* A whole one
LEMMA IntfActivatedNtfSays ==
  ASSUME NEW a \in Activations
  PROVE  LET pkt == IntfActivatedNtf(a)
             ntf == ParseIntfActivatedNtf(pkt)
         IN  /\ ntf.ok
             /\ ntf.head = ActivatedMeans(a).head /\ ntf.head[4] = a.tech.mode
             /\ ntf.exchange = a.exchange
             /\ Gives(ntf.mode_param, pkt, a.tech.fields, a.tech.data)
             /\ FitsMode(ntf.mode_param, a.tech.mode)
             /\ Gives(ntf.activation_param, pkt, a.param.fields, a.param.data)
  <1> DEFINE pkt == IntfActivatedNtf(a)
             ntf == ParseIntfActivatedNtf(pkt)
             head == ActivationHead(a)
             n == Len(a.tech.bytes)
             m == Len(a.param.bytes)
             mp == IF n > 0 THEN ModeParam(a.tech.mode, pkt, 7, n) ELSE Nothing
             ap == IF m > 0
                   THEN ActivationParam(a.intf, a.tech.mode, pkt, 11 + n, m)
                   ELSE Nothing
             six == Bytes(pkt, 0, 6)
  <1>1. /\ n \in Nat /\ m \in Nat
        /\ pkt \in Seq(Nat) /\ Len(pkt) = 11 + n + m
        /\ Holds(pkt, 0, head) /\ Holds(pkt, 7, a.tech.bytes)
        /\ Holds(pkt, 7 + n, a.exchange)
        /\ Byte(pkt, 6) = n /\ Byte(pkt, 10 + n) = m
        /\ Holds(pkt, 11 + n, a.param.bytes)
    BY IntfActivatedNtfHolds
  <1>2. /\ IsTech(a.tech) /\ IsActivationParam(a.intf, a.tech.mode, a.param)
        /\ Len(a.exchange) = 3
        /\ a.tech.bytes \in Seq(Nat) /\ a.param.bytes \in Seq(Nat)
    BY NtfAssumption, AnnouncementAssumption
  <1>3. /\ head \in Seq(Nat) /\ Len(head) = 7
        /\ head[1] = a.id /\ head[2] = a.intf /\ head[3] = a.protocol
        /\ head[4] = a.tech.mode /\ head[5] = a.size /\ head[6] = a.credits
    BY ActivationHeadIs
  <1> HIDE DEF pkt, head, n, m
  <1>4. /\ Len(pkt) > 6 /\ Len(pkt) > 10 + n /\ Len(pkt) >= 11 + n + m
    <2> DEFINE l == Len(pkt)
    <2>1. l = 11 + n + m /\ n \in Nat /\ m \in Nat
      BY <1>1
    <2> HIDE DEF l
    <2>2. l > 6 /\ l > 10 + n /\ l >= 11 + n + m
      BY <2>1
    <2> QED BY <2>2 DEF l
  <1>5. Byte(pkt, 1) = a.intf /\ Byte(pkt, 3) = a.tech.mode
    <2>1. Len(head) >= 2 /\ Len(head) >= 4 /\ 0 + 2 - 1 = 1 /\ 0 + 4 - 1 = 3
      BY <1>3
    <2>2. Holds(pkt, 0, head)
      BY <1>1
    <2>3. Byte(pkt, 0 + 2 - 1) = head[2] /\ Byte(pkt, 0 + 4 - 1) = head[4]
      BY <2>1, <2>2, ByteNumber
    <2> QED BY <1>3, <2>1, <2>2, <2>3
  <1>6. six = ActivatedMeans(a).head /\ six[4] = a.tech.mode
    <2> DEFINE means == <<a.id, a.intf, a.protocol, a.tech.mode, a.size, a.credits>>
    <2>1. /\ means \in Seq(Nat) /\ Len(means) = 6 /\ means[4] = a.tech.mode
          /\ ActivatedMeans(a).head = means
      BY NtfAssumption DEF ActivatedMeans
    <2>2. \A i \in 1 .. 6 : i \in 1 .. 7 /\ head[i] = means[i]
      BY <1>3
    <2>3. 0 + 6 <= Len(pkt)
      <3> DEFINE l == Len(pkt)
      <3>1. l = 11 + n + m /\ n \in Nat /\ m \in Nat
        BY <1>1
      <3> HIDE DEF l
      <3>2. 0 + 6 <= l
        BY <3>1
      <3> QED BY <3>2 DEF l
    <2>4. \A i \in 1 .. 7 : pkt[0 + i] = head[i]
      BY <1>1, <1>3 DEF Holds
    <2> HIDE DEF means
    <2>5. Holds(pkt, 0, means)
      <3>1. \A i \in 1 .. 6 : pkt[0 + i] = means[i]
        BY <2>2, <2>4
      <3> QED BY <2>1, <2>3, <3>1 DEF Holds
    <2>6. Bytes(pkt, 0, Len(means)) = means
      BY <1>1, <2>5, BytesAt
    <2> QED BY <2>1, <2>6
  <1>7. Bytes(pkt, 7 + n, 3) = a.exchange
    <2>1. Bytes(pkt, 7 + n, Len(a.exchange)) = a.exchange
      BY <1>1, BytesAt
    <2> QED BY <1>2, <2>1
  <1>8. Gives(mp, pkt, a.tech.fields, a.tech.data) /\ FitsMode(mp, a.tech.mode)
    <2>1. CASE n > 0
      <3>1. a.tech.bytes # << >> /\ mp = ModeParam(a.tech.mode, pkt, 7, n)
        BY <1>1, <2>1 DEF n
      <3> QED BY <1>1, <1>2, <3>1, ModeParamReads DEF n
    <2>2. CASE ~ (n > 0)
      <3>1. n = 0
        BY <1>1, <2>2
      <3>2. a.tech.bytes = << >> /\ mp = Nothing
        BY <1>2, <3>1 DEF n
      <3>3. FitsMode(Nothing, a.tech.mode)
        BY DEF FitsMode, Nothing, Struct
      <3> QED BY <1>2, <3>2, <3>3, EmptyTech
    <2> QED BY <2>1, <2>2
  <1>9. Gives(ap, pkt, a.param.fields, a.param.data)
    <2>1. CASE m > 0
      <3>1. /\ a.param.bytes # << >>
            /\ ap = ActivationParam(a.intf, a.tech.mode, pkt, 11 + n, m)
        BY <1>1, <2>1 DEF m
      <3> QED BY <1>1, <1>2, <3>1, ActivationParamReads DEF m
    <2>2. CASE ~ (m > 0)
      <3>1. m = 0
        BY <1>1, <2>2
      <3>2. a.param.bytes = << >> /\ ap = Nothing
        BY <1>2, <3>1 DEF m
      <3>3. NoTable(a.param.fields, a.param.data)
        BY <1>2, <3>2 DEF IsActivationParam
      <3> QED BY <3>2, <3>3, GivesNothing
    <2> QED BY <2>1, <2>2
  <1>10. ntf = [ok |-> TRUE, head |-> six, exchange |-> Bytes(pkt, 7 + n, 3),
                mode_param |-> mp, activation_param |-> ap]
    BY <1>1, <1>4, <1>5 DEF ParseIntfActivatedNtf
  <1> HIDE DEF ntf, mp, ap, six
  <1> QED BY <1>6, <1>7, <1>8, <1>9, <1>10 DEF ntf, pkt

\* One that is short of some bytes
LEMMA CutIntfActivatedNtfFails ==
  ASSUME NEW a \in Activations, NEW cut \in Nat, cut # 0
  PROVE  ~ParseIntfActivatedNtf(Cut(IntfActivatedNtf(a), cut)).ok
  <1> DEFINE pkt == IntfActivatedNtf(a)
             short == Cut(pkt, cut)
             n == Len(a.tech.bytes)
             m == Len(a.param.bytes)
             k == Len(pkt) - cut
  <1>1. /\ n \in Nat /\ m \in Nat /\ pkt \in Seq(Nat) /\ Len(pkt) = 11 + n + m
        /\ Byte(pkt, 6) = n /\ Byte(pkt, 10 + n) = m
    BY IntfActivatedNtfHolds
  <1> HIDE DEF pkt, n, m
  <1>2. CASE k > 6
    <2>1. k \in 1 .. Len(pkt) /\ k < 11 + n + m
      BY <1>1, <1>2
    <2>2. short = SubSeq(pkt, 1, k)
      BY DEF Cut
    <2> HIDE DEF k, short
    <2>3. Len(short) = k /\ \A i \in 1 .. k : short[i] = pkt[i]
      BY <1>1, <2>1, <2>2
    <2>4. Byte(short, 6) = n
      <3>1. 6 + 1 \in 1 .. k
        BY <1>2, <2>1
      <3> QED BY <1>1, <2>3, <3>1 DEF Byte
    <2>5. CASE k > 10 + n
      <3>1. (10 + n) + 1 \in 1 .. k
        BY <1>1, <2>1, <2>5
      <3>2. Byte(short, 10 + n) = m
        BY <1>1, <2>3, <3>1 DEF Byte
      <3>3. ~ (k >= 11 + n + m)
        BY <1>1, <2>1
      <3> QED BY <2>3, <2>4, <2>5, <3>2, <3>3 DEF ParseIntfActivatedNtf, Failed, short, pkt
    <2>6. CASE ~ (k > 10 + n)
      <3>1. ~ (k >= 11 + n + 0)
        BY <1>1, <2>1, <2>6
      <3> QED BY <2>3, <2>4, <2>6, <3>1 DEF ParseIntfActivatedNtf, Failed, short, pkt
    <2> QED BY <2>5, <2>6
  <1>3. CASE ~ (k > 6)
    <2>1. k \in Int /\ k <= 6
      BY <1>1, <1>3
    <2>2. short = SubSeq(pkt, 1, k)
      BY DEF Cut
    <2> HIDE DEF k, short
    <2>3. ~ (Len(short) > 6)
      BY <1>1, <2>1, <2>2
    <2> QED BY <2>3 DEF ParseIntfActivatedNtf, Failed, short, pkt
  <1> QED BY <1>2, <1>3

-----------------------------------------------------------------------------
(***************************************************************************)
(* The choice of a target                                                  *)
(***************************************************************************)
Able(t) == SupportsProtocol(t.protocol)

\* nci_state_w4_host_select_sort is the order that SelectsBest has in mind.
LEMMA ComesFirstIs ==
  ASSUME NEW a, NEW b, a.id \in Nat, b.id \in Nat
  PROVE  ComesFirst(a, b) <=> AtLeastAsGood(a, b)
  <1> DEFINE order == <<PROTOCOL_NFC_DEP, PROTOCOL_ISO_DEP, PROTOCOL_T2T>>
             known == {i \in DOMAIN order : order[i] \in {a.protocol, b.protocol}}
             p == a.protocol
             q == b.protocol
  <1>1. /\ DOMAIN order = {1, 2, 3}
        /\ order[1] = PROTOCOL_NFC_DEP /\ order[2] = PROTOCOL_ISO_DEP
        /\ order[3] = PROTOCOL_T2T
    OBVIOUS
  <1>2. /\ PROTOCOL_NFC_DEP # PROTOCOL_ISO_DEP /\ PROTOCOL_NFC_DEP # PROTOCOL_T2T
        /\ PROTOCOL_ISO_DEP # PROTOCOL_T2T
    BY DEF PROTOCOL_NFC_DEP, PROTOCOL_ISO_DEP, PROTOCOL_T2T
  <1>3. ComesFirst(a, b) <=>
            IF p = q \/ known = {} THEN a.id <= b.id
            ELSE \E i \in known : order[i] = p /\ \A k \in known : i <= k
    BY DEF ComesFirst
  <1> HIDE DEF order
  <1>4. CASE p = q
    <2>1. Rank(a) = Rank(b) /\ Rank(a) \in Nat
      BY <1>4 DEF Rank
    <2> QED BY <1>3, <1>4, <2>1 DEF AtLeastAsGood
  <1>5. CASE p # q /\ known = {}
    <2>1. p \notin {PROTOCOL_NFC_DEP, PROTOCOL_ISO_DEP, PROTOCOL_T2T}
      BY <1>1, <1>5
    <2>2. q \notin {PROTOCOL_NFC_DEP, PROTOCOL_ISO_DEP, PROTOCOL_T2T}
      BY <1>1, <1>5
    <2>3. Rank(a) = 4 /\ Rank(b) = 4
      BY <2>1, <2>2 DEF Rank
    <2> QED BY <1>3, <1>5, <2>3 DEF AtLeastAsGood
  <1>6. CASE p # q /\ known # {}
    <2>1. ComesFirst(a, b) <=> \E i \in known : order[i] = p /\ \A k \in known : i <= k
      BY <1>3, <1>6
    <2>2. \A i : i \in known <=> i \in {1, 2, 3} /\ order[i] \in {p, q}
      BY <1>1
    <2> HIDE DEF known
    <2>3. CASE p = PROTOCOL_NFC_DEP
      <3>1. 1 \in known /\ \A k \in known : 1 <= k
        BY <1>1, <2>2, <2>3
      <3>2. Rank(a) = 1 /\ Rank(b) \in {2, 3, 4}
        BY <1>2, <1>6, <2>3 DEF Rank
      <3> QED BY <1>1, <2>1, <2>3, <3>1, <3>2 DEF AtLeastAsGood
    <2>4. CASE q = PROTOCOL_NFC_DEP
      <3>1. 1 \in known /\ order[1] # p
        BY <1>1, <1>6, <2>2, <2>4
      <3>2. \A i \in known : i <= 1 => i = 1
        BY <2>2
      <3>3. ~ \E i \in known : order[i] = p /\ \A k \in known : i <= k
        BY <3>1, <3>2
      <3>4. Rank(b) = 1 /\ Rank(a) \in {2, 3, 4}
        BY <1>2, <1>6, <2>4 DEF Rank
      <3> QED BY <2>1, <3>3, <3>4 DEF AtLeastAsGood
    <2>5. CASE PROTOCOL_NFC_DEP \notin {p, q} /\ p = PROTOCOL_ISO_DEP
      <3>1. 2 \in known /\ \A k \in known : 2 <= k
        BY <1>1, <2>2, <2>5
      <3>2. Rank(a) = 2 /\ Rank(b) \in {3, 4}
        BY <1>2, <1>6, <2>5 DEF Rank
      <3> QED BY <1>1, <2>1, <2>5, <3>1, <3>2 DEF AtLeastAsGood
    <2>6. CASE PROTOCOL_NFC_DEP \notin {p, q} /\ q = PROTOCOL_ISO_DEP
      <3>1. 2 \in known /\ order[2] # p /\ 1 \notin known
        BY <1>1, <1>6, <2>2, <2>6
      <3>2. \A i \in known : i <= 2 => i = 2
        BY <2>2, <3>1
      <3>3. ~ \E i \in known : order[i] = p /\ \A k \in known : i <= k
        BY <3>1, <3>2
      <3>4. Rank(b) = 2 /\ Rank(a) \in {3, 4}
        BY <1>2, <1>6, <2>6 DEF Rank
      <3> QED BY <2>1, <3>3, <3>4 DEF AtLeastAsGood
    <2>7. CASE {PROTOCOL_NFC_DEP, PROTOCOL_ISO_DEP} \cap {p, q} = {}
      <3>1. 1 \notin known /\ 2 \notin known
        BY <1>1, <2>2, <2>7
      <3>2. 3 \in known /\ \A k \in known : k = 3
        BY <1>6, <2>2, <3>1
      <3>3. ComesFirst(a, b) <=> p = PROTOCOL_T2T
        BY <1>1, <2>1, <3>2
      <3>4. /\ p = PROTOCOL_T2T => Rank(a) = 3 /\ Rank(b) = 4
            /\ p # PROTOCOL_T2T => Rank(a) = 4 /\ Rank(b) = 3
        <4>1. p = PROTOCOL_T2T \/ q = PROTOCOL_T2T
          BY <1>1, <2>2, <3>2
        <4> QED BY <1>6, <2>7, <4>1 DEF Rank
      <3> QED BY <3>3, <3>4 DEF AtLeastAsGood
    <2> QED BY <2>3, <2>4, <2>5, <2>6, <2>7
  <1> QED BY <1>4, <1>5, <1>6

LEMMA GoodIsAnOrder ==
  ASSUME NEW a, NEW b, NEW c, a.id \in Nat, b.id \in Nat, c.id \in Nat
  PROVE  /\ AtLeastAsGood(a, a)
         /\ AtLeastAsGood(a, b) \/ AtLeastAsGood(b, a)
         /\ AtLeastAsGood(a, b) /\ AtLeastAsGood(b, c) => AtLeastAsGood(a, c)
  <1>1. \A t : Rank(t) \in Nat
    BY DEF Rank
  <1> QED BY <1>1 DEF AtLeastAsGood

\* The best one of the n first targets
Best(head, list, n) ==
    \/ head = << >> /\ \A j \in 1 .. n : ~Able(list[j])
    \/ \E i \in 1 .. n : /\ head = <<list[i]>> /\ Able(list[i])
                         /\ \A j \in 1 .. n :
                               Able(list[j]) => AtLeastAsGood(list[i], list[j])

LEMMA InsertKeepsBest ==
  ASSUME NEW list, NEW n \in Nat, n # 0, \A i \in 1 .. n : list[i].id \in Nat,
         NEW head, Best(head, list, n - 1)
  PROVE  Best(Insert(head, list[n]), list, n)
  <1> DEFINE t == list[n]
             next == Insert(head, t)
  <1>1. /\ n \in 1 .. n /\ \A i \in 1 .. n - 1 : i \in 1 .. n
        /\ \A i \in 1 .. n : i = n \/ i \in 1 .. n - 1
    OBVIOUS
  <1>2. CASE head = << >> /\ \A j \in 1 .. n - 1 : ~Able(list[j])
    <2>1. CASE Able(t)
      <3>1. next = <<t>>
        BY <1>2, <2>1 DEF Insert, Able
      <3>2. \A j \in 1 .. n : Able(list[j]) => j = n
        BY <1>1, <1>2
      <3>3. AtLeastAsGood(t, t)
        BY <1>1, GoodIsAnOrder
      <3> HIDE DEF next
      <3> QED BY <1>1, <2>1, <3>1, <3>2, <3>3 DEF Best, next
    <2>2. CASE ~Able(t)
      <3>1. next = head
        BY <2>2 DEF Insert, Able
      <3> HIDE DEF next
      <3>2. \A j \in 1 .. n : ~Able(list[j])
        BY <1>1, <1>2, <2>2
      <3> QED BY <1>2, <3>1, <3>2 DEF Best, next
    <2> QED BY <2>1, <2>2
  <1>3. ASSUME NEW i \in 1 .. n - 1, head = <<list[i]>>, Able(list[i]),
               \A j \in 1 .. n - 1 : Able(list[j]) => AtLeastAsGood(list[i], list[j])
        PROVE  Best(next, list, n)
    <2>1. head # << >> /\ head[1] = list[i]
      BY <1>3
    <2>2. i \in 1 .. n /\ list[i].id \in Nat /\ t.id \in Nat
      BY <1>1
    <2>3. ComesFirst(t, list[i]) <=> AtLeastAsGood(t, list[i])
      BY <2>2, ComesFirstIs
    <2>4. CASE Able(t) /\ AtLeastAsGood(t, list[i])
      <3>1. next = <<t>>
        BY <2>1, <2>3, <2>4 DEF Insert, Able
      <3>2. ASSUME NEW j \in 1 .. n, Able(list[j]) PROVE AtLeastAsGood(t, list[j])
        <4>1. CASE j = n
          BY <2>2, <4>1, GoodIsAnOrder
        <4>2. CASE j # n
          <5>1. AtLeastAsGood(list[i], list[j]) /\ list[j].id \in Nat
            BY <1>1, <1>3, <3>2, <4>2
          <5> QED BY <2>2, <2>4, <5>1, GoodIsAnOrder
        <4> QED BY <4>1, <4>2
      <3> HIDE DEF next
      <3> QED BY <1>1, <2>4, <3>1, <3>2 DEF Best, next
    <2>5. CASE ~ (Able(t) /\ AtLeastAsGood(t, list[i]))
      <3>1. next = head
        BY <2>1, <2>3, <2>5 DEF Insert, Able
      <3>2. ASSUME NEW j \in 1 .. n, Able(list[j]) PROVE AtLeastAsGood(list[i], list[j])
        <4>1. CASE j = n
          BY <2>2, <2>5, <3>2, <4>1, GoodIsAnOrder
        <4>2. CASE j # n
          BY <1>1, <1>3, <3>2, <4>2
        <4> QED BY <4>1, <4>2
      <3> HIDE DEF next
      <3> QED BY <1>3, <2>2, <3>1, <3>2 DEF Best, next
    <2> QED BY <2>4, <2>5
  <1> HIDE DEF next
  <1> QED BY <1>2, <1>3 DEF Best, next

\* What is selected is the best one of all targets, however many there are.
LEMMA SelectedIsBest ==
  ASSUME NEW list, Len(list) \in Nat, \A i \in 1 .. Len(list) : list[i].id \in Nat
  PROVE  Best(Selected(list), list, Len(list))
  <1> DEFINE count == Len(list)
  <1>1. PICK head : Turns(head, "head", << >>, list, count)
                    /\ Selected(list) = head[count]
    <2> DEFINE h == CHOOSE f : Turns(f, "head", << >>, list, count)
    <2>1. Turns(h, "head", << >>, list, count)
      <3>1. \E f : Turns(f, "head", << >>, list, count)
        BY TurnsExist, Zenon
      <3> QED BY <3>1
    <2>2. Selected(list) = h[count]
      BY DEF Selected, Turns, Turn
    <2> QED BY <2>1, <2>2
  <1>2. head[0] = << >> /\ \A i \in 1 .. count : head[i] = Insert(head[i - 1], list[i])
    <2>1. head[0] = << >>
      BY <1>1 DEF Turns
    <2>2. \A i \in 1 .. count : head[i] = Turn("head", head[i - 1], list, i)
      BY <1>1, TurnsAre
    <2> QED BY <2>1, <2>2 DEF Turn
  <1>3. \A i \in 0 .. count : Best(head[i], list, i)
    <2> DEFINE T == {i \in Nat : i <= count /\ ~Best(head[i], list, i)}
    <2> SUFFICES ASSUME T # {} PROVE FALSE
      OBVIOUS
    <2>1. PICK n \in T : \A m \in T : ~ (m < n)
      BY LeastNatural
    <2>2. n \in Nat /\ n <= count /\ ~Best(head[n], list, n)
      OBVIOUS
    <2>3. CASE n = 0
      BY <1>2, <2>2, <2>3 DEF Best
    <2>4. CASE n # 0
      <3>1. n \in 1 .. count /\ n - 1 \in Nat /\ n - 1 < n /\ n - 1 <= count
        BY <2>2, <2>4
      <3>2. Best(head[n - 1], list, n - 1)
        BY <2>1, <3>1
      <3>3. \A i \in 1 .. n : list[i].id \in Nat
        BY <3>1
      <3>4. Best(Insert(head[n - 1], list[n]), list, n)
        BY <2>2, <2>4, <3>2, <3>3, InsertKeepsBest
      <3> QED BY <1>2, <2>2, <3>1, <3>4
    <2> QED BY <2>3, <2>4
  <1> QED BY <1>1, <1>3

-----------------------------------------------------------------------------
(***************************************************************************)
(* The invariant: every block that is kept fits, the copies are such that  *)
(* they can be copied again, and those that W4_ALL_DISCOVERIES holds are   *)
(* of the targets of this round, in their order.                           *)
(***************************************************************************)
Compiled == \E s \in Setups : build = s.build /\ op_mode = s.op_mode

Copies(list) ==
    /\ IsSeq(list)
    /\ \A i \in DOMAIN list : Fits(list[i]) /\ IsNtf(list[i].entries[1])

Collected == Copies(discoveries)

InOrder ==
    /\ Len(told.round) = Len(discoveries)
    /\ \A i \in DOMAIN discoveries :
          /\ discoveries[i].entries[1].id = told.round[i].id
          /\ discoveries[i].entries[1].protocol = told.round[i].protocol

Base ==
    /\ Compiled
    /\ told = [round |-> told.round, select |-> told.select,
               activated |-> told.activated]
    /\ told.round \in Seq(Targets)
    /\ Collected /\ InOrder
    /\ Fits(select)
    /\ SelectsBest

Kept == kept.ok => Fits(kept.mode) /\ Fits(kept.activation)

LEMMA SizesAre ==
  ASSUME Compiled
  PROVE  Sizes(build)
  <1>1. PICK s \in Setups : build = s.build
    BY DEF Compiled
  <1>2. s.build \in [ntf : Nat \ {0}, mode : Nat \ {0}, activation : Nat \ {0}]
    BY NtfAssumption
  <1> QED BY <1>1, <1>2 DEF Sizes

\* A copy of one notification
LEMMA CopyOfOne ==
  ASSUME NEW src, IsNtf(src.struct), Sizes(build)
  PROVE  LET block == NtfCopyArray(<<src>>)
         IN  /\ Fits(block)
             /\ IsNtf(block.entries[1])
             /\ block.entries[1].id = src.struct.id
             /\ block.entries[1].protocol = src.struct.protocol
  <1> DEFINE srcs == <<src>>
  <1>1. srcs \in Seq({src}) /\ Len(srcs) = 1 /\ srcs[1] = src
    OBVIOUS
  <1>2. IsSeq(srcs)
    BY <1>1, IsSeqOf
  <1> HIDE DEF srcs
  <1>3. Sources(srcs)
    <2>1. \A i \in 1 .. 1 : i = 1
      OBVIOUS
    <2> QED BY <1>1, <1>2, <2>1 DEF Sources
  <1>4. /\ Fits(NtfCopyArray(srcs))
        /\ \A i \in 1 .. Len(srcs) :
              /\ IsNtf(NtfCopyArray(srcs).entries[i])
              /\ NtfCopyArray(srcs).entries[i].id = srcs[i].struct.id
              /\ NtfCopyArray(srcs).entries[i].protocol = srcs[i].struct.protocol
    BY <1>3, NtfCopyArrayFits
  <1>5. 1 \in 1 .. Len(srcs)
    BY <1>1
  <1>6. /\ Fits(NtfCopyArray(srcs)) /\ IsNtf(NtfCopyArray(srcs).entries[1])
        /\ NtfCopyArray(srcs).entries[1].id = src.struct.id
        /\ NtfCopyArray(srcs).entries[1].protocol = src.struct.protocol
    BY <1>1, <1>4, <1>5
  <1> QED BY <1>6 DEF srcs

\* The command is for the best one of the targets in list.
AsksForBest(asked, list) ==
    LET able == {t \in ToSet(list) : SupportsProtocol(t.protocol)}
    IN  IF able = {} THEN asked = << >>
        ELSE \E t \in able :
                /\ \A u \in able : AtLeastAsGood(t, u)
                /\ asked = <<t.id, t.protocol, RfInterface(t.protocol)>>

LEMMA SelectCommandAsks ==
  ASSUME NEW list \in Seq(Targets), NEW entries, Len(entries) = Len(list),
         \A i \in 1 .. Len(list) : /\ entries[i].id = list[i].id
                                   /\ entries[i].protocol = list[i].protocol
  PROVE  AsksForBest(SelectCommand(entries), list)
  <1> DEFINE able == {t \in ToSet(list) : SupportsProtocol(t.protocol)}
             asked == SelectCommand(entries)
             n == Len(list)
  <1>1. n \in Nat /\ DOMAIN list = 1 .. n /\ \A i \in 1 .. n : list[i] \in Targets
    OBVIOUS
  <1>2. ToSet(list) = {list[i] : i \in 1 .. n}
    BY <1>1 DEF ToSet
  <1>3. \A i \in 1 .. n : list[i].id \in Nat
    BY <1>1, NtfAssumption
  <1> HIDE DEF n
  <1>4. Best(Selected(entries), entries, n)
    <2>1. Len(entries) = n /\ \A i \in 1 .. n : entries[i].id \in Nat
      BY <1>3 DEF n
    <2> QED BY <1>1, <2>1, SelectedIsBest
  <1>5. \A i \in 1 .. n : /\ entries[i].id = list[i].id
                          /\ entries[i].protocol = list[i].protocol
    BY DEF n
  <1>6. \A i \in 1 .. n : Able(entries[i]) <=> SupportsProtocol(list[i].protocol)
    BY <1>5 DEF Able
  <1>7. \A i, j \in 1 .. n :
            AtLeastAsGood(entries[i], entries[j]) <=> AtLeastAsGood(list[i], list[j])
    <2> TAKE i, j \in 1 .. n
    <2>1. Rank(entries[i]) = Rank(list[i]) /\ Rank(entries[j]) = Rank(list[j])
      BY <1>5 DEF Rank
    <2> QED BY <1>5, <2>1 DEF AtLeastAsGood
  <1>8. ASSUME NEW i \in 1 .. n, Selected(entries) = <<entries[i]>>, Able(entries[i]),
               \A j \in 1 .. n : Able(entries[j]) => AtLeastAsGood(entries[i], entries[j])
        PROVE  \E t \in able :
                  /\ \A u \in able : AtLeastAsGood(t, u)
                  /\ asked = <<t.id, t.protocol, RfInterface(t.protocol)>>
    <2>1. list[i] \in able
      BY <1>2, <1>6, <1>8
    <2>2. \A u \in able : AtLeastAsGood(list[i], u)
      BY <1>2, <1>6, <1>7, <1>8
    <2>3. asked = <<entries[i].id, entries[i].protocol, RfInterface(entries[i].protocol)>>
      BY <1>8 DEF SelectCommand
    <2>4. asked = <<list[i].id, list[i].protocol, RfInterface(list[i].protocol)>>
      BY <1>5, <2>3
    <2> HIDE DEF able, asked
    <2> QED BY <2>1, <2>2, <2>4
  <1> HIDE DEF asked
  <1> HIDE DEF able
  <1>9. \/ able = {} /\ asked = << >>
        \/ \E t \in able : /\ \A u \in able : AtLeastAsGood(t, u)
                           /\ asked = <<t.id, t.protocol, RfInterface(t.protocol)>>
    <2>1. CASE Selected(entries) = << >> /\ \A j \in 1 .. n : ~Able(entries[j])
      BY <1>2, <1>6, <2>1 DEF able, asked, SelectCommand
    <2> QED BY <1>4, <1>8, <2>1 DEF Best
  <1> QED BY <1>9 DEF able, asked, AsksForBest

-----------------------------------------------------------------------------
(***************************************************************************)
(* The steps                                                               *)
(***************************************************************************)
ToldShape == told = [round |-> told.round, select |-> told.select,
                     activated |-> told.activated]

LEMMA InitBase == Init => Base
  <1> SUFFICES ASSUME Init PROVE Base
    OBVIOUS
  <1> USE DEF Init
  <1>1. Compiled
    BY DEF Compiled
  <1>2. ToldShape /\ told.round = << >> /\ told.select = << >>
    BY DEF ToldShape
  <1>3. told.round \in Seq(Targets) /\ Len(told.round) = 0
    BY <1>2
  <1>4. discoveries = << >> /\ DOMAIN discoveries = {} /\ Len(discoveries) = 0
    OBVIOUS
  <1>5. Collected /\ InOrder
    BY <1>3, <1>4, NoParts DEF Collected, Copies, InOrder
  <1>6. Fits(select)
    BY NoBlockFits
  <1>7. SelectsBest
    BY <1>2 DEF SelectsBest, ToSet
  <1> QED BY <1>1, <1>2, <1>3, <1>5, <1>6, <1>7 DEF Base, ToldShape

\* A step after which W4_HOST_SELECT is not being entered
LEMMA NotSelectingBase ==
  ASSUME NotSelecting, told'.select = << >>
  PROVE  Fits(select)' /\ SelectsBest'
  <1>1. Fits(select')
    BY NoBlockFits DEF NotSelecting
  <1>2. ToSet(told'.select) = {}
    BY DEF ToSet
  <1>3. SelectsBest'
    BY <1>2 DEF NotSelecting, SelectsBest
  <1> QED BY <1>1, <1>3 DEF Fits, Within, Disjoint

\* A step after which nothing is collected
LEMMA NothingCollected ==
  ASSUME discoveries' = << >>, told'.round = << >>
  PROVE  Collected' /\ InOrder' /\ told'.round \in Seq(Targets)
  <1>1. DOMAIN << >> = {} /\ Len(<< >>) = 0
    OBVIOUS
  <1>2. IsSeq(discoveries')
    BY NoParts
  <1>3. Collected'
    BY <1>1, <1>2 DEF Collected, Copies, IsSeq
  <1>4. InOrder'
    BY <1>1 DEF InOrder
  <1> QED BY <1>3, <1>4

LEMMA SameCollected ==
  ASSUME Collected, InOrder, discoveries' = discoveries, told'.round = told.round
  PROVE  Collected' /\ InOrder'
  <1>1. Collected'
    BY DEF Collected
  <1>2. InOrder'
    BY DEF InOrder
  <1> QED BY <1>1, <1>2

\* What is collected together with the copy of one more notification
Extended(ntf, pkt) ==
    LET parsed == Source(ntf, pkt, << >>)
        src == IF discoveries # << >> THEN parsed
               ELSE Element(NtfCopyArray(<<parsed>>), pkt)
    IN  Append(discoveries, NtfCopyArray(<<src>>))

LEMMA CollectOne ==
  ASSUME Base, NEW t \in Targets, NEW pkt, NEW ntf, IsNtf(ntf),
         ntf.id = t.id, ntf.protocol = t.protocol
  PROVE  LET all == Extended(ntf, pkt)
             round == Append(told.round, t)
         IN  /\ round \in Seq(Targets) /\ Len(all) = Len(round) /\ IsSeq(all)
             /\ DOMAIN all = 1 .. Len(all) /\ Len(all) \in Nat
             /\ \A i \in DOMAIN all :
                   /\ Fits(all[i]) /\ IsNtf(all[i].entries[1])
                   /\ all[i].entries[1].id = round[i].id
                   /\ all[i].entries[1].protocol = round[i].protocol
  <1> DEFINE parsed == Source(ntf, pkt, << >>)
             first == NtfCopyArray(<<parsed>>)
             src == IF discoveries # << >> THEN parsed ELSE Element(first, pkt)
             block == NtfCopyArray(<<src>>)
             all == Append(discoveries, block)
             round == Append(told.round, t)
  <1>1. Sizes(build)
    BY SizesAre DEF Base
  <1>2. parsed.struct = ntf
    BY DEF Source
  <1> HIDE DEF parsed
  <1>3. IsNtf(parsed.struct)
    BY <1>2
  <1>4. /\ IsNtf(first.entries[1])
        /\ first.entries[1].id = ntf.id /\ first.entries[1].protocol = ntf.protocol
    BY <1>1, <1>2, <1>3, CopyOfOne
  <1> HIDE DEF first
  <1>5. /\ IsNtf(src.struct)
        /\ src.struct.id = t.id /\ src.struct.protocol = t.protocol
    <2>1. Element(first, pkt).struct = first.entries[1]
      BY DEF Element, Source
    <2>2. CASE discoveries # << >>
      BY <1>2, <1>3, <2>2
    <2>3. CASE discoveries = << >>
      BY <1>4, <2>1, <2>3
    <2> QED BY <2>2, <2>3
  <1> HIDE DEF src
  <1>6. /\ Fits(block) /\ IsNtf(block.entries[1])
        /\ block.entries[1].id = t.id /\ block.entries[1].protocol = t.protocol
    BY <1>1, <1>5, CopyOfOne
  <1> HIDE DEF block
  <1>7. /\ IsSeq(discoveries) /\ told.round \in Seq(Targets)
        /\ Len(told.round) = Len(discoveries)
        /\ \A i \in DOMAIN discoveries :
              /\ Fits(discoveries[i]) /\ IsNtf(discoveries[i].entries[1])
              /\ discoveries[i].entries[1].id = told.round[i].id
              /\ discoveries[i].entries[1].protocol = told.round[i].protocol
    BY DEF Base, Collected, Copies, InOrder
  <1>8. /\ IsSeq(all) /\ Len(discoveries) \in Nat
        /\ Len(all) = Len(discoveries) + 1
        /\ DOMAIN discoveries = 1 .. Len(discoveries)
        /\ DOMAIN all = 1 .. Len(discoveries) + 1
        /\ \A i \in 1 .. Len(discoveries) : all[i] = discoveries[i]
        /\ all[Len(discoveries) + 1] = block
    BY <1>7, AppendFacts
  <1>9. /\ round \in Seq(Targets) /\ Len(round) = Len(told.round) + 1
        /\ \A i \in 1 .. Len(told.round) : round[i] = told.round[i]
        /\ round[Len(told.round) + 1] = t
    BY <1>7
  <1> HIDE DEF all, round
  <1>10. ASSUME NEW i \in DOMAIN all
         PROVE  /\ Fits(all[i]) /\ IsNtf(all[i].entries[1])
                /\ all[i].entries[1].id = round[i].id
                /\ all[i].entries[1].protocol = round[i].protocol
    <2>1. CASE i = Len(discoveries) + 1
      BY <1>6, <1>7, <1>8, <1>9, <2>1
    <2>2. CASE i # Len(discoveries) + 1
      <3>1. i \in 1 .. Len(discoveries)
        BY <1>8, <2>2
      <3>2. all[i] = discoveries[i] /\ round[i] = told.round[i]
        BY <1>7, <1>8, <1>9, <3>1
      <3> QED BY <1>7, <1>8, <3>1, <3>2
    <2> QED BY <2>1, <2>2
  <1>11. Len(all) = Len(round) /\ Len(all) \in Nat
    BY <1>7, <1>8, <1>9
  <1> QED BY <1>8, <1>9, <1>10, <1>11 DEF all, round, block, src, first, parsed, Extended

\* All of the targets of a round are copied together.
Combined(all, pkt) == NtfCopyArray([i \in DOMAIN all |-> Element(all[i], pkt)])

LEMMA HandOver ==
  ASSUME Sizes(build), NEW all, NEW round \in Seq(Targets), NEW pkt,
         Len(all) = Len(round), Len(all) \in Nat, DOMAIN all = 1 .. Len(all),
         \A i \in DOMAIN all :
            /\ IsNtf(all[i].entries[1])
            /\ all[i].entries[1].id = round[i].id
            /\ all[i].entries[1].protocol = round[i].protocol
  PROVE  LET block == Combined(all, pkt)
         IN  /\ Fits(block) /\ Len(block.entries) = Len(round)
             /\ \A i \in 1 .. Len(round) :
                   /\ block.entries[i].id = round[i].id
                   /\ block.entries[i].protocol = round[i].protocol
  <1> DEFINE n == Len(all)
             srcs == [i \in DOMAIN all |-> Element(all[i], pkt)]
             block == NtfCopyArray(srcs)
  <1>1. n \in Nat /\ DOMAIN srcs = 1 .. n /\ srcs = [i \in 1 .. n |-> srcs[i]]
    OBVIOUS
  <1>2. \A i \in 1 .. n : srcs[i].struct = all[i].entries[1]
    <2>1. \A i \in 1 .. n : srcs[i] = Element(all[i], pkt)
      OBVIOUS
    <2>2. \A b : Element(b, pkt).struct = b.entries[1]
      BY DEF Element, Source
    <2> HIDE DEF srcs
    <2> QED BY <2>1, <2>2
  <1> HIDE DEF srcs
  <1>3. srcs \in Seq({srcs[i] : i \in DOMAIN srcs}) /\ Len(srcs) = n
    BY <1>1
  <1>4. Sources(srcs)
    BY <1>1, <1>2, <1>3 DEF Sources, IsSeq
  <1>5. /\ Fits(block) /\ Len(block.entries) = Len(srcs)
        /\ \A i \in 1 .. Len(srcs) :
              /\ block.entries[i].id = srcs[i].struct.id
              /\ block.entries[i].protocol = srcs[i].struct.protocol
    BY <1>4, NtfCopyArrayFits
  <1> HIDE DEF block
  <1>6. /\ Len(block.entries) = Len(round)
        /\ \A i \in 1 .. Len(round) :
              /\ block.entries[i].id = round[i].id
              /\ block.entries[i].protocol = round[i].protocol
    BY <1>2, <1>3, <1>5
  <1> QED BY <1>5, <1>6 DEF block, srcs, Combined

LEMMA DiscoveredBase ==
  ASSUME Base, NEW t \in Targets, NEW cut \in Cuts, Discovered(t, cut)
  PROVE  Base'
  <1> DEFINE pkt == Cut(DiscoverNtf(t), cut)
             ntf == ParseDiscoverNtf(pkt)
             round == IF cut = 0 THEN Append(told.round, t) ELSE told.round
             last == cut = 0 /\ t.type # 2
             all == Extended(ntf, pkt)
  <1>1. /\ IF ntf.ok THEN Collect(ntf, pkt)
                     ELSE UNCHANGED discoveries /\ NotSelecting
        /\ told' = [told EXCEPT !.round = IF last THEN << >> ELSE round,
                                !.select = IF last THEN round ELSE << >>]
        /\ build' = build /\ op_mode' = op_mode
    BY DEF Discovered
  <1>2. ToldShape
    BY DEF Base, ToldShape
  <1>3. /\ told' = [round |-> IF last THEN << >> ELSE round,
                    select |-> IF last THEN round ELSE << >>,
                    activated |-> told.activated]
    <2> HIDE DEF last, round
    <2> QED BY <1>1, <1>2 DEF ToldShape
  <1>4. ToldShape' /\ told'.round = (IF last THEN << >> ELSE round)
        /\ told'.select = (IF last THEN round ELSE << >>)
    <2> HIDE DEF last, round
    <2> QED BY <1>3 DEF ToldShape
  <1>5. Compiled'
    BY <1>1 DEF Base, Compiled
  <1>6. Sizes(build)
    BY SizesAre DEF Base
  <1>7. CASE cut = 0
    <2>1. pkt = DiscoverNtf(t) /\ pkt \in Seq(Nat)
      BY <1>7, DiscoverNtfIs, CutNothing
    <2>2. ntf.ok /\ ntf.id = t.id /\ ntf.protocol = t.protocol /\ (ntf.last <=> t.type # 2)
      BY <2>1, DiscoverNtfParses
    <2>3. IsNtf(ntf)
      BY <2>1, <2>2, ParsedDiscoverNtf
    <2>4. Collect(ntf, pkt) /\ round = Append(told.round, t) /\ (last <=> ntf.last)
      BY <1>1, <1>7, <2>2
    <2> HIDE DEF pkt, ntf
    <2>5. /\ round \in Seq(Targets) /\ Len(all) = Len(round) /\ IsSeq(all)
          /\ DOMAIN all = 1 .. Len(all) /\ Len(all) \in Nat
          /\ \A i \in DOMAIN all :
                /\ Fits(all[i]) /\ IsNtf(all[i].entries[1])
                /\ all[i].entries[1].id = round[i].id
                /\ all[i].entries[1].protocol = round[i].protocol
      BY <2>2, <2>3, <2>4, CollectOne
    <2>6. /\ ntf.last =>
                /\ select' = Combined(all, pkt)
                /\ command' = SelectCommand(select'.entries)
                /\ discoveries' = << >>
          /\ ~ntf.last => discoveries' = all /\ NotSelecting
      BY <2>4 DEF Collect, Combined, Extended
    <2> HIDE DEF all, round, last
    <2>7. CASE ntf.last
      <3>1. told'.round = << >> /\ told'.select = round /\ discoveries' = << >>
        BY <1>4, <2>4, <2>6, <2>7
      <3> DEFINE block == Combined(all, pkt)
      <3>2. /\ Fits(block) /\ Len(block.entries) = Len(round)
            /\ \A i \in 1 .. Len(round) :
                  /\ block.entries[i].id = round[i].id
                  /\ block.entries[i].protocol = round[i].protocol
        BY <1>6, <2>5, HandOver
      <3>3. select' = block /\ command' = SelectCommand(block.entries)
        BY <2>6, <2>7
      <3> HIDE DEF block
      <3>4. SelectsBest'
        <4>1. AsksForBest(command', round)
          BY <2>5, <3>2, <3>3, SelectCommandAsks
        <4> QED BY <1>1, <3>1, <4>1 DEF SelectsBest, SupportsProtocol, AsksForBest
      <3>5. Fits(select)'
        BY <3>2, <3>3
      <3>6. Collected' /\ InOrder' /\ told'.round \in Seq(Targets)
        BY <3>1, NothingCollected
      <3> QED BY <1>4, <1>5, <3>4, <3>5, <3>6 DEF Base, ToldShape
    <2>8. CASE ~ntf.last
      <3>1. /\ told'.round = round /\ told'.select = << >> /\ discoveries' = all
            /\ NotSelecting
        BY <1>4, <2>4, <2>6, <2>8
      <3>2. Fits(select)' /\ SelectsBest'
        BY <3>1, NotSelectingBase
      <3>3. Collected'
        <4>1. Copies(all)
          BY <2>5 DEF Copies
        <4> QED BY <3>1, <4>1 DEF Collected
      <3>4. InOrder'
        BY <2>5, <3>1 DEF InOrder
      <3> QED BY <1>4, <1>5, <2>5, <3>1, <3>2, <3>3, <3>4 DEF Base, ToldShape
    <2> QED BY <2>7, <2>8
  <1>8. CASE cut # 0
    <2>1. ~ntf.ok
      BY <1>8, NtfAssumption, CutDiscoverNtfFails
    <2>2. discoveries' = discoveries /\ NotSelecting
      BY <1>1, <2>1
    <2>3. told'.round = told.round /\ told'.select = << >>
      BY <1>4, <1>8
    <2>4. Fits(select)' /\ SelectsBest'
      BY <2>2, <2>3, NotSelectingBase
    <2>5. Collected' /\ InOrder' /\ told'.round \in Seq(Targets)
      BY <2>2, <2>3, SameCollected DEF Base
    <2> QED BY <1>4, <1>5, <2>4, <2>5 DEF Base, ToldShape
  <1> QED BY <1>7, <1>8

\* All of it, whatever the next step is
LEMMA NextBase == Base /\ [Next]_vars => Base'
  <1> SUFFICES ASSUME Base, [Next]_vars PROVE Base'
    OBVIOUS
  <1>1. ToldShape
    BY DEF Base, ToldShape
  <1>2. ASSUME build' = build, op_mode' = op_mode PROVE Compiled'
    BY <1>2 DEF Base, Compiled
  <1>3. ASSUME NEW t \in Targets, NEW cut \in Cuts, Discovered(t, cut) PROVE Base'
    BY <1>3, DiscoveredBase
  <1>4. ASSUME NEW a \in Activations, NEW cut \in Cuts, Activated(a, cut) PROVE Base'
    <2>1. /\ build' = build /\ op_mode' = op_mode /\ discoveries' = discoveries
          /\ NotSelecting
          /\ told' = [told EXCEPT !.select = << >>,
                                  !.activated = IF cut = 0 THEN <<a>> ELSE << >>]
      BY <1>4 DEF Activated
    <2>2. ToldShape' /\ told'.round = told.round /\ told'.select = << >>
      BY <1>1, <2>1 DEF ToldShape
    <2>3. Fits(select)' /\ SelectsBest'
      BY <2>1, <2>2, NotSelectingBase
    <2>4. Collected' /\ InOrder' /\ told'.round \in Seq(Targets)
      BY <2>1, <2>2, SameCollected DEF Base
    <2> QED BY <1>2, <2>1, <2>2, <2>3, <2>4 DEF Base, ToldShape
  <1>5. ASSUME NEW pkt \in Others, Received(pkt) PROVE Base'
    <2>1. /\ build' = build /\ op_mode' = op_mode /\ discoveries' = discoveries
          /\ NotSelecting /\ told' = [told EXCEPT !.select = << >>]
      BY <1>5 DEF Received
    <2>2. ToldShape' /\ told'.round = told.round /\ told'.select = << >>
      BY <1>1, <2>1 DEF ToldShape
    <2>3. Fits(select)' /\ SelectsBest'
      BY <2>1, <2>2, NotSelectingBase
    <2>4. Collected' /\ InOrder' /\ told'.round \in Seq(Targets)
      BY <2>1, <2>2, SameCollected DEF Base
    <2> QED BY <1>2, <2>1, <2>2, <2>3, <2>4 DEF Base, ToldShape
  <1>6. ASSUME BackToDiscovery PROVE Base'
    <2>1. /\ build' = build /\ op_mode' = op_mode /\ discoveries' = << >>
          /\ NotSelecting
          /\ told' = [round |-> << >>, select |-> << >>, activated |-> << >>]
      BY <1>6 DEF BackToDiscovery
    <2>2. ToldShape' /\ told'.round = << >> /\ told'.select = << >>
      BY <2>1 DEF ToldShape
    <2>3. Fits(select)' /\ SelectsBest'
      BY <2>1, <2>2, NotSelectingBase
    <2>4. Collected' /\ InOrder' /\ told'.round \in Seq(Targets)
      BY <2>1, <2>2, NothingCollected
    <2> QED BY <1>2, <2>1, <2>2, <2>3, <2>4 DEF Base, ToldShape
  <1>7. ASSUME UNCHANGED vars PROVE Base'
    <2>1. /\ build' = build /\ op_mode' = op_mode /\ discoveries' = discoveries
          /\ told' = told /\ select' = select /\ command' = command
      BY <1>7 DEF vars
    <2>2. ToldShape' /\ Fits(select)' /\ told'.round \in Seq(Targets)
      BY <1>1, <2>1 DEF Base, ToldShape
    <2>3. SelectsBest'
      BY <2>1 DEF Base, SelectsBest, SupportsProtocol
    <2>4. Collected' /\ InOrder'
      BY <2>1, SameCollected DEF Base
    <2> QED BY <1>2, <2>1, <2>2, <2>3, <2>4 DEF Base, ToldShape
  <1> QED BY <1>3, <1>4, <1>5, <1>6, <1>7 DEF Next

-----------------------------------------------------------------------------
(***************************************************************************)
(* Copies that the client keeps                                            *)
(***************************************************************************)

\* What the inner functions rely on: the size of NciActivationParam is a
\* multiple of eight.
SizesOfEight == \A s \in Setups : s.build.activation % 8 = 0

LEMMA KeepFits ==
  ASSUME SizesOfEight, Compiled, NEW pkt \in Seq(Nat), ParseIntfActivatedNtf(pkt).ok
  PROVE  /\ Fits(Keep(ParseIntfActivatedNtf(pkt), pkt).mode)
         /\ Fits(Keep(ParseIntfActivatedNtf(pkt), pkt).activation)
  <1> DEFINE ntf == ParseIntfActivatedNtf(pkt)
             mode == ntf.head[4]
             mp == Source(ntf.mode_param, pkt, << >>)
             ap == Source(ntf.activation_param, pkt, << >>)
  <1>1. Sizes(build) /\ build.activation % 8 = 0
    BY SizesAre DEF Compiled, SizesOfEight
  <1>2. IsParam(ntf.mode_param) /\ IsParam(ntf.activation_param)
    BY ParsedIntfActivatedNtf
  <1> HIDE DEF ntf
  <1>3. mp.struct = ntf.mode_param /\ ap.struct = ntf.activation_param
    BY DEF Source
  <1>4. /\ Keep(ntf, pkt).mode = IF ntf.mode_param = Nothing THEN NoBlock
                                 ELSE ModeParamBlock(mode, mp)
        /\ Keep(ntf, pkt).activation =
              IF ntf.activation_param = Nothing THEN NoBlock
              ELSE ActivationParamCopy(ntf.head[2], mode, ap)
    BY DEF Keep
  <1> HIDE DEF mp, ap, mode
  <1>5. ntf.mode_param # Nothing => Fits(ModeParamBlock(mode, mp))
    BY <1>1, <1>2, <1>3, ModeParamBlockFits
  <1>6. Fits(ActivationParamCopy(ntf.head[2], mode, ap))
    BY <1>1, <1>2, <1>3, ActivationParamCopyFits
  <1>7. Fits(Keep(ntf, pkt).mode) /\ Fits(Keep(ntf, pkt).activation)
    BY <1>4, <1>5, <1>6, NoBlockFits
  <1> QED BY <1>7 DEF ntf

LEMMA NextKept ==
  ASSUME SizesOfEight, Compiled, Kept, [Next]_vars
  PROVE  Kept'
  <1>1. ASSUME kept' = kept PROVE Kept'
    BY <1>1 DEF Kept
  <1>2. ASSUME kept' = Released PROVE Kept'
    <2>1. ~kept'.ok
      BY <1>2 DEF Released
    <2> QED BY <2>1 DEF Kept
  <1>3. ASSUME NEW t \in Targets, NEW cut \in Cuts, Discovered(t, cut) PROVE Kept'
    BY <1>1, <1>3 DEF Discovered
  <1>4. ASSUME NEW a \in Activations, NEW cut \in Cuts, Activated(a, cut) PROVE Kept'
    <2> DEFINE pkt == Cut(IntfActivatedNtf(a), cut)
               ntf == ParseIntfActivatedNtf(pkt)
    <2>1. kept' = IF ntf.ok THEN Keep(ntf, pkt) ELSE Released
      BY <1>4 DEF Activated
    <2>2. cut \in Nat
      BY NtfAssumption
    <2>3. pkt \in Seq(Nat)
      BY <2>2, IntfActivatedNtfIs, CutNothing
    <2> HIDE DEF pkt
    <2>4. CASE ntf.ok
      <3>1. Fits(Keep(ntf, pkt).mode) /\ Fits(Keep(ntf, pkt).activation)
        BY <2>3, <2>4, KeepFits
      <3>2. kept' = Keep(ntf, pkt)
        BY <2>1, <2>4
      <3> HIDE DEF ntf
      <3> QED BY <3>1, <3>2 DEF Kept
    <2>5. CASE ~ntf.ok
      BY <1>2, <2>1, <2>5
    <2> QED BY <2>4, <2>5
  <1>5. ASSUME NEW pkt \in Others, Received(pkt) PROVE Kept'
    BY <1>1, <1>5 DEF Received
  <1>6. ASSUME BackToDiscovery PROVE Kept'
    BY <1>2, <1>6 DEF BackToDiscovery
  <1>7. ASSUME UNCHANGED vars PROVE Kept'
    BY <1>1, <1>7 DEF vars
  <1> QED BY <1>3, <1>4, <1>5, <1>6, <1>7 DEF Next

LEMMA BlocksFit ==
  ASSUME Base, Kept
  PROVE  CopiesFit
  <1>1. ASSUME NEW b \in Blocks PROVE Fits(b)
    <2>1. ASSUME b \in ToSet(discoveries) PROVE Fits(b)
      <3>1. PICK i \in DOMAIN discoveries : b = discoveries[i]
        BY <2>1 DEF ToSet
      <3> QED BY <3>1 DEF Base, Collected, Copies
    <2>2. ASSUME b = select PROVE Fits(b)
      BY <2>2 DEF Base
    <2>3. ASSUME kept.ok, b \in {kept.mode, kept.activation} PROVE Fits(b)
      BY <2>3 DEF Kept
    <2> QED BY <1>1, <2>1, <2>2, <2>3 DEF Blocks
  <1>2. ASSUME NEW b \in Blocks
        PROVE  /\ \A p \in ToSet(b.parts) : p.off + p.len <= b.size
               /\ \A i, j \in DOMAIN b.parts : i < j =>
                     \/ b.parts[i].off + b.parts[i].len <= b.parts[j].off
                     \/ b.parts[j].off + b.parts[j].len <= b.parts[i].off
    <2>1. Within(b.parts, 0, b.size) /\ Disjoint(b.parts)
      BY <1>1 DEF Fits
    <2>2. \A p \in ToSet(b.parts) : p.off + p.len <= b.size
      BY <2>1 DEF Within, ToSet
    <2> QED BY <2>1, <2>2 DEF Disjoint, Apart
  <1> QED BY <1>2 DEF CopiesFit

-----------------------------------------------------------------------------
(***************************************************************************)
(* What the copies say: the same as the notifications that they are copies *)
(* of, whatever the receive buffer holds by now.                           *)
(***************************************************************************)
Says(n, parts, means) ==
    WellMade(n) /\ \A pkt : Content(n, Memory(pkt, parts)) = means

LEMMA NtfCopyArraySays ==
  ASSUME NEW srcs, Sources(srcs), Sizes(build),
         \A i \in 1 .. Len(srcs) : WellMade(srcs[i].struct)
  PROVE  LET block == NtfCopyArray(srcs)
         IN  \A i \in 1 .. Len(srcs) :
                Says(block.entries[i], block.parts, Content(srcs[i].struct, srcs[i].mem))
  <1> DEFINE block == NtfCopyArray(srcs)
  <1>1. /\ Sound(block.parts)
        /\ \A i \in 1 .. Len(srcs) : CopyOf(block.entries[i], srcs[i], block.parts)
    BY NtfCopyArrayFits
  <1> HIDE DEF block
  <1>2. ASSUME NEW i \in 1 .. Len(srcs)
        PROVE  Says(block.entries[i], block.parts, Content(srcs[i].struct, srcs[i].mem))
    <2>1. PICK at, ptr \in Nat :
             /\ block.entries[i] = NtfCopy(srcs[i], at, ptr).entry
             /\ Containing(block.parts, NtfCopy(srcs[i], at, ptr).parts)
      BY <1>1 DEF CopyOf
    <2>2. IsNtf(srcs[i].struct) /\ WellMade(srcs[i].struct)
      BY DEF Sources
    <2> QED BY <1>1, <2>1, <2>2, NtfCopyReads DEF Says
  <1> QED BY <1>2 DEF block

LEMMA CopyOfOneSays ==
  ASSUME NEW src, IsNtf(src.struct), WellMade(src.struct), Sizes(build)
  PROVE  LET block == NtfCopyArray(<<src>>)
         IN  Says(block.entries[1], block.parts, Content(src.struct, src.mem))
  <1> DEFINE srcs == <<src>>
  <1>1. srcs \in Seq({src}) /\ Len(srcs) = 1 /\ srcs[1] = src
    OBVIOUS
  <1>2. IsSeq(srcs)
    BY <1>1, IsSeqOf
  <1> HIDE DEF srcs
  <1>3. Sources(srcs) /\ \A i \in 1 .. Len(srcs) : WellMade(srcs[i].struct)
    <2>1. \A i \in 1 .. 1 : i = 1
      OBVIOUS
    <2> QED BY <1>1, <1>2, <2>1 DEF Sources
  <1>4. 1 \in 1 .. Len(srcs)
    BY <1>1
  <1>5. Says(NtfCopyArray(srcs).entries[1], NtfCopyArray(srcs).parts,
             Content(src.struct, src.mem))
    BY <1>1, <1>3, <1>4, NtfCopyArraySays
  <1> QED BY <1>5 DEF srcs

\* The notifications in list say what has been announced in round.
AllSay(list, round) ==
    \A i \in DOMAIN list :
        Says(list[i].entries[1], list[i].parts, DiscoverMeans(round[i]))

LEMMA CollectSays ==
  ASSUME Base, AllSay(discoveries, told.round), NEW t \in Targets, NEW pkt,
         NEW ntf, IsNtf(ntf), WellMade(ntf),
         Content(ntf, Memory(pkt, << >>)) = DiscoverMeans(t)
  PROVE  AllSay(Extended(ntf, pkt), Append(told.round, t))
  <1> DEFINE parsed == Source(ntf, pkt, << >>)
             first == NtfCopyArray(<<parsed>>)
             src == IF discoveries # << >> THEN parsed ELSE Element(first, pkt)
             block == NtfCopyArray(<<src>>)
             all == Append(discoveries, block)
             round == Append(told.round, t)
             means == DiscoverMeans(t)
  <1>1. Sizes(build)
    BY SizesAre DEF Base
  <1>2. parsed.struct = ntf /\ parsed.mem = Memory(pkt, << >>)
    BY DEF Source
  <1> HIDE DEF parsed, means
  <1>3. IsNtf(first.entries[1]) /\ Says(first.entries[1], first.parts, means)
    BY <1>1, <1>2, CopyOfOne, CopyOfOneSays DEF means
  <1> HIDE DEF first
  <1>4. IsNtf(src.struct) /\ WellMade(src.struct) /\ Content(src.struct, src.mem) = means
    <2>1. /\ Element(first, pkt).struct = first.entries[1]
          /\ Element(first, pkt).mem = Memory(pkt, first.parts)
      BY DEF Element, Source
    <2>2. CASE discoveries # << >>
      BY <1>2, <2>2 DEF means
    <2>3. CASE discoveries = << >>
      BY <1>3, <2>1, <2>3 DEF Says
    <2> QED BY <2>2, <2>3
  <1> HIDE DEF src
  <1>5. Says(block.entries[1], block.parts, means)
    BY <1>1, <1>4, CopyOfOneSays
  <1> HIDE DEF block
  <1>6. /\ IsSeq(discoveries) /\ told.round \in Seq(Targets)
        /\ Len(told.round) = Len(discoveries)
    BY DEF Base, Collected, Copies, InOrder
  <1>7. /\ Len(discoveries) \in Nat
        /\ DOMAIN discoveries = 1 .. Len(discoveries)
        /\ DOMAIN all = 1 .. Len(discoveries) + 1
        /\ \A i \in 1 .. Len(discoveries) : all[i] = discoveries[i]
        /\ all[Len(discoveries) + 1] = block
    BY <1>6, AppendFacts
  <1>8. /\ \A i \in 1 .. Len(told.round) : round[i] = told.round[i]
        /\ round[Len(told.round) + 1] = t
    BY <1>6
  <1> HIDE DEF all, round
  <1>9. ASSUME NEW i \in DOMAIN all
        PROVE  Says(all[i].entries[1], all[i].parts, DiscoverMeans(round[i]))
    <2>1. CASE i = Len(discoveries) + 1
      BY <1>5, <1>6, <1>7, <1>8, <2>1 DEF means
    <2>2. CASE i # Len(discoveries) + 1
      <3>1. i \in 1 .. Len(discoveries)
        BY <1>7, <2>2
      <3>2. all[i] = discoveries[i] /\ round[i] = told.round[i]
        BY <1>6, <1>7, <1>8, <3>1
      <3> QED BY <1>7, <3>1, <3>2 DEF AllSay
    <2> QED BY <2>1, <2>2
  <1> QED BY <1>9 DEF AllSay, all, round, block, src, first, parsed, Extended

LEMMA HandOverSays ==
  ASSUME Sizes(build), NEW all, NEW round, NEW pkt,
         Len(all) \in Nat, DOMAIN all = 1 .. Len(all),
         \A i \in DOMAIN all : IsNtf(all[i].entries[1]), AllSay(all, round)
  PROVE  LET block == Combined(all, pkt)
         IN  /\ DOMAIN block.entries = 1 .. Len(all) /\ Len(block.entries) = Len(all)
             /\ \A i \in 1 .. Len(all) :
                   Says(block.entries[i], block.parts, DiscoverMeans(round[i]))
  <1> DEFINE n == Len(all)
             srcs == [i \in DOMAIN all |-> Element(all[i], pkt)]
             block == NtfCopyArray(srcs)
  <1>1. n \in Nat /\ DOMAIN srcs = 1 .. n /\ srcs = [i \in 1 .. n |-> srcs[i]]
    OBVIOUS
  <1>2. \A i \in 1 .. n : /\ srcs[i].struct = all[i].entries[1]
                          /\ srcs[i].mem = Memory(pkt, all[i].parts)
    <2>1. \A i \in 1 .. n : srcs[i] = Element(all[i], pkt)
      OBVIOUS
    <2>2. \A b : /\ Element(b, pkt).struct = b.entries[1]
                 /\ Element(b, pkt).mem = Memory(pkt, b.parts)
      BY DEF Element, Source
    <2> HIDE DEF srcs
    <2> QED BY <2>1, <2>2
  <1> HIDE DEF srcs
  <1>3. srcs \in Seq({srcs[i] : i \in DOMAIN srcs}) /\ Len(srcs) = n
    BY <1>1
  <1>4. Sources(srcs)
    BY <1>1, <1>2, <1>3 DEF Sources, IsSeq
  <1>5. \A i \in 1 .. n : /\ WellMade(srcs[i].struct)
                          /\ Content(srcs[i].struct, srcs[i].mem) = DiscoverMeans(round[i])
    BY <1>2 DEF AllSay, Says
  <1>6. /\ \A i \in 1 .. Len(srcs) :
              Says(block.entries[i], block.parts, Content(srcs[i].struct, srcs[i].mem))
        /\ IsSeq(block.entries) /\ Len(block.entries) = Len(srcs)
    BY <1>3, <1>4, <1>5, NtfCopyArrayFits, NtfCopyArraySays
  <1> HIDE DEF block
  <1>7. DOMAIN block.entries = 1 .. Len(block.entries)
    BY <1>6, Concatenation
  <1>8. /\ DOMAIN block.entries = 1 .. n /\ Len(block.entries) = n
        /\ \A i \in 1 .. n :
              Says(block.entries[i], block.parts, DiscoverMeans(round[i]))
    BY <1>3, <1>5, <1>6, <1>7
  <1> QED BY <1>8 DEF block, srcs, Combined

\* What W4_ALL_DISCOVERIES holds and what W4_HOST_SELECT is entered with
SelectionSays ==
    /\ Len(select.entries) = Len(told.select)
    /\ \A i \in DOMAIN select.entries :
          Says(select.entries[i], select.parts, DiscoverMeans(told.select[i]))

Faithful == AllSay(discoveries, told.round) /\ SelectionSays

LEMMA NoSelectionSays ==
  ASSUME NotSelecting, told'.select = << >>
  PROVE  SelectionSays'
  <1>1. select'.entries = << >>
    BY DEF NotSelecting, NoBlock
  <1>2. DOMAIN << >> = {} /\ Len(<< >>) = 0
    OBVIOUS
  <1> QED BY <1>1, <1>2 DEF SelectionSays

LEMMA NothingSaid ==
  ASSUME NEW list, list = << >>, NEW round
  PROVE  AllSay(list, round)
  <1>1. DOMAIN list = {}
    OBVIOUS
  <1> QED BY <1>1 DEF AllSay

LEMMA InitFaithful == Init => Faithful
  <1> SUFFICES ASSUME Init PROVE Faithful
    OBVIOUS
  <1>1. /\ discoveries = << >> /\ select.entries = << >>
        /\ told.select = << >>
    BY DEF Init, NoBlock
  <1>2. DOMAIN << >> = {} /\ Len(<< >>) = 0
    OBVIOUS
  <1>3. AllSay(discoveries, told.round)
    BY <1>1, NothingSaid
  <1>4. SelectionSays
    BY <1>1, <1>2 DEF SelectionSays
  <1> QED BY <1>3, <1>4 DEF Faithful

LEMMA DiscoveredFaithful ==
  ASSUME Base, Faithful, NEW t \in Targets, NEW cut \in Cuts, Discovered(t, cut)
  PROVE  Faithful'
  <1> DEFINE pkt == Cut(DiscoverNtf(t), cut)
             ntf == ParseDiscoverNtf(pkt)
             round == IF cut = 0 THEN Append(told.round, t) ELSE told.round
             last == cut = 0 /\ t.type # 2
             all == Extended(ntf, pkt)
  <1>1. /\ IF ntf.ok THEN Collect(ntf, pkt)
                     ELSE UNCHANGED discoveries /\ NotSelecting
        /\ told' = [told EXCEPT !.round = IF last THEN << >> ELSE round,
                                !.select = IF last THEN round ELSE << >>]
    BY DEF Discovered
  <1>2. ToldShape
    BY DEF Base, ToldShape
  <1>3. /\ told'.round = (IF last THEN << >> ELSE round)
        /\ told'.select = (IF last THEN round ELSE << >>)
    <2> HIDE DEF last, round
    <2> QED BY <1>1, <1>2 DEF ToldShape
  <1>4. Sizes(build)
    BY SizesAre DEF Base
  <1>5. CASE cut = 0
    <2>1. pkt = DiscoverNtf(t) /\ pkt \in Seq(Nat)
      BY <1>5, DiscoverNtfIs, CutNothing
    <2>2. ntf.ok /\ ntf.id = t.id /\ ntf.protocol = t.protocol /\ (ntf.last <=> t.type # 2)
      BY <2>1, DiscoverNtfParses
    <2>3. IsNtf(ntf)
      BY <2>1, <2>2, ParsedDiscoverNtf
    <2>4. Collect(ntf, pkt) /\ round = Append(told.round, t) /\ (last <=> ntf.last)
      BY <1>1, <1>5, <2>2
    <2>5. WellMade(ntf) /\ Content(ntf, Memory(pkt, << >>)) = DiscoverMeans(t)
      BY <2>1, DiscoverNtfSays
    <2> HIDE DEF pkt, ntf
    <2>6. /\ Len(all) = Len(round) /\ DOMAIN all = 1 .. Len(all) /\ Len(all) \in Nat
          /\ \A i \in DOMAIN all : IsNtf(all[i].entries[1])
      BY <2>2, <2>3, <2>4, CollectOne
    <2>7. AllSay(all, round)
      BY <2>3, <2>4, <2>5, CollectSays DEF Faithful
    <2>8. /\ ntf.last => select' = Combined(all, pkt) /\ discoveries' = << >>
          /\ ~ntf.last => discoveries' = all /\ NotSelecting
      BY <2>4 DEF Collect, Combined, Extended
    <2> HIDE DEF all, round, last
    <2>9. CASE ntf.last
      <3>1. told'.select = round /\ discoveries' = << >> /\ select' = Combined(all, pkt)
        BY <1>3, <2>4, <2>8, <2>9
      <3> DEFINE block == Combined(all, pkt)
      <3>2. /\ DOMAIN block.entries = 1 .. Len(all) /\ Len(block.entries) = Len(all)
            /\ \A i \in 1 .. Len(all) :
                  Says(block.entries[i], block.parts, DiscoverMeans(round[i]))
        BY <1>4, <2>6, <2>7, HandOverSays
      <3>3. select' = block
        BY <3>1
      <3> HIDE DEF block
      <3>4. SelectionSays'
        BY <2>6, <3>1, <3>2, <3>3 DEF SelectionSays
      <3>5. AllSay(discoveries', told'.round)
        BY <3>1, NothingSaid
      <3> QED BY <3>4, <3>5 DEF Faithful, AllSay
    <2>10. CASE ~ntf.last
      <3>1. /\ told'.round = round /\ told'.select = << >> /\ discoveries' = all
            /\ NotSelecting
        BY <1>3, <2>4, <2>8, <2>10
      <3>2. SelectionSays'
        BY <3>1, NoSelectionSays
      <3>3. AllSay(discoveries', told'.round)
        BY <2>7, <3>1
      <3> QED BY <3>2, <3>3 DEF Faithful, AllSay
    <2> QED BY <2>9, <2>10
  <1>6. CASE cut # 0
    <2>1. ~ntf.ok
      BY <1>6, NtfAssumption, CutDiscoverNtfFails
    <2>2. discoveries' = discoveries /\ NotSelecting
      BY <1>1, <2>1
    <2>3. told'.round = told.round /\ told'.select = << >>
      BY <1>3, <1>6
    <2>4. SelectionSays'
      BY <2>2, <2>3, NoSelectionSays
    <2>5. AllSay(discoveries', told'.round)
      BY <2>2, <2>3 DEF Faithful
    <2> QED BY <2>4, <2>5 DEF Faithful, AllSay
  <1> QED BY <1>5, <1>6

LEMMA NextFaithful == Base /\ Faithful /\ [Next]_vars => Faithful'
  <1> SUFFICES ASSUME Base, Faithful, [Next]_vars PROVE Faithful'
    OBVIOUS
  <1>1. ToldShape
    BY DEF Base, ToldShape
  <1>2. ASSUME NotSelecting, told'.select = << >>,
               \/ discoveries' = discoveries /\ told'.round = told.round
               \/ discoveries' = << >>
        PROVE  Faithful'
    <2>1. AllSay(discoveries', told'.round)
      BY <1>2, NothingSaid DEF Faithful
    <2>2. SelectionSays'
      BY <1>2, NoSelectionSays
    <2> QED BY <2>1, <2>2 DEF Faithful, AllSay
  <1>3. ASSUME NEW t \in Targets, NEW cut \in Cuts, Discovered(t, cut)
        PROVE  Faithful'
    BY <1>3, DiscoveredFaithful
  <1>4. ASSUME NEW a \in Activations, NEW cut \in Cuts, Activated(a, cut)
        PROVE  Faithful'
    <2>1. /\ discoveries' = discoveries /\ NotSelecting
          /\ told' = [told EXCEPT !.select = << >>,
                                  !.activated = IF cut = 0 THEN <<a>> ELSE << >>]
      BY <1>4 DEF Activated
    <2>2. told'.round = told.round /\ told'.select = << >>
      BY <1>1, <2>1 DEF ToldShape
    <2> QED BY <1>2, <2>1, <2>2
  <1>5. ASSUME NEW pkt \in Others, Received(pkt) PROVE Faithful'
    <2>1. /\ discoveries' = discoveries /\ NotSelecting
          /\ told' = [told EXCEPT !.select = << >>]
      BY <1>5 DEF Received
    <2>2. told'.round = told.round /\ told'.select = << >>
      BY <1>1, <2>1 DEF ToldShape
    <2> QED BY <1>2, <2>1, <2>2
  <1>6. ASSUME BackToDiscovery PROVE Faithful'
    BY <1>2, <1>6 DEF BackToDiscovery
  <1>7. ASSUME UNCHANGED vars PROVE Faithful'
    BY <1>7 DEF vars, Faithful, SelectionSays, AllSay
  <1> QED BY <1>3, <1>4, <1>5, <1>6, <1>7 DEF Next

-----------------------------------------------------------------------------
(***************************************************************************)
(* What the copies of the client say                                       *)
(***************************************************************************)
Kind(b) == IF b = NoBlock THEN Nothing ELSE b.entries[1]

BlockSays(b, f, d) ==
    /\ Kind(b).fields = f
    /\ \A pkt : Read(Kind(b).data, Memory(pkt, b.parts)) = d

ClientSays ==
    /\ kept.ok <=> told.activated # << >>
    /\ kept.ok =>
          \E a \in Activations :
             /\ told.activated = <<a>>
             /\ kept.head = ActivatedMeans(a).head /\ kept.exchange = a.exchange
             /\ BlockSays(kept.mode, a.tech.fields, a.tech.data)
             /\ BlockSays(kept.activation, a.param.fields, a.param.data)

LEMMA NoBlockSays ==
  ASSUME NEW pkt, NEW f, NEW d, Gives(Nothing, pkt, f, d)
  PROVE  BlockSays(NoBlock, f, d)
  <1>1. Nothing.data.len = 0
    BY NullIs DEF Nothing, Struct
  <1>2. \A q : Read(Nothing.data, Memory(q, NoBlock.parts))
                 = Read(Nothing.data, Memory(pkt, << >>))
    BY <1>1, ReadNothing
  <1> QED BY <1>2 DEF BlockSays, Kind, Gives

LEMMA ModeParamBlockSays ==
  ASSUME NEW param, IsParam(param), Sizes(build), NEW mode, FitsMode(param, mode),
         param # Nothing, NEW pkt, NEW f, NEW d, Gives(param, pkt, f, d)
  PROVE  BlockSays(ModeParamBlock(mode, Source(param, pkt, << >>)), f, d)
  <1> DEFINE mem == Memory(pkt, << >>)
             copy == ModeParamCopy(param, mode, mem, 0)
             block == ModeParamBlock(mode, Source(param, pkt, << >>))
  <1>1. /\ block.entries = <<copy.param>> /\ block.parts = copy.parts
        /\ block.entries[1] = copy.param
    BY DEF ModeParamBlock, Source
  <1>2. IsSeq(copy.parts) /\ Within(copy.parts, 0, 0 + copy.size) /\ Disjoint(copy.parts)
    BY ModeParamCopyFits
  <1> HIDE DEF copy, block, mem
  <1>3. Sound(copy.parts) /\ Containing(copy.parts, copy.parts)
    BY <1>2 DEF Sound, Within, Containing
  <1>4. /\ copy.param.fields = param.fields
        /\ \A q : Read(copy.param.data, Memory(q, copy.parts)) = Read(param.data, mem)
    BY <1>3, ModeParamCopyReads DEF copy
  <1>5. block # NoBlock
    <2>1. NoBlock.entries = << >> /\ << >> # <<copy.param>>
      BY DEF NoBlock
    <2> QED BY <1>1, <2>1
  <1>6. Kind(block) = copy.param
    BY <1>1, <1>5 DEF Kind
  <1> QED BY <1>1, <1>4, <1>6 DEF BlockSays, Gives, mem, block

LEMMA ActivationParamCopySays ==
  ASSUME NEW param, IsParam(param), Sizes(build), NEW intf, NEW mode,
         NEW pkt, NEW f, NEW d, Gives(param, pkt, f, d)
  PROVE  BlockSays(ActivationParamCopy(intf, mode, Source(param, pkt, << >>)), f, d)
  <1> DEFINE mem == Memory(pkt, << >>)
             struct == StructPart(0, build.activation)
             far == Align8(build.activation)
             len == param.data.len
             read == Read(param.data, mem)
             bytes == Part(far, read)
             block == ActivationParamCopy(intf, mode, Source(param, pkt, << >>))
             two == <<struct, bytes>>
  <1>1. /\ build.activation \in Nat /\ far \in Nat /\ build.activation <= far
        /\ len \in Nat /\ (len = 0 <=> param.data = Null)
        /\ param = [fields |-> param.fields, data |-> param.data]
    BY Aligned DEF Sizes, IsParam, IsPointer
  <1>2. CASE param.data = Null
    <2>1. block.entries = <<param>> /\ block.entries[1] = param
      BY <1>2 DEF ActivationParamCopy, Source
    <2> HIDE DEF block
    <2>2. block # NoBlock
      <3>1. NoBlock.entries = << >> /\ << >> # <<param>>
        BY DEF NoBlock
      <3> QED BY <2>1, <3>1
    <2>3. Kind(block) = param
      BY <2>1, <2>2 DEF Kind
    <2>4. \A q : Read(param.data, Memory(q, block.parts)) = read
      BY <1>1, <1>2, ReadNothing
    <2> QED BY <2>3, <2>4 DEF BlockSays, Gives, block
  <1>3. CASE param.data # Null
    <2> DEFINE moved == [param EXCEPT !.data = InBlock(far, len)]
    <2>1. /\ block.entries = <<moved>> /\ block.entries[1] = moved
          /\ block.parts = two
      BY <1>3 DEF ActivationParamCopy, Source
    <2>2. moved = [fields |-> param.fields, data |-> InBlock(far, len)]
      BY <1>1
    <2>3. struct.off = 0 /\ struct.len = build.activation
      BY StructPartIs
    <2>4. bytes.off = far /\ bytes.len = len
      BY <1>1, BytesPart
    <2>5. read = [k \in 1 .. len |-> read[k]] /\ len \in Nat \ {0}
      BY <1>1, <1>3, ReadShape
    <2> HIDE DEF block, moved, struct, bytes, far, len, read, mem
    <2>6. Sound(two)
      <3>1. /\ struct.off \in Nat /\ struct.len \in Nat
            /\ bytes.off \in Nat /\ bytes.len \in Nat
            /\ 0 <= struct.off /\ struct.off + struct.len <= bytes.off
            /\ bytes.off + bytes.len <= far + len /\ far + len \in Nat
        BY <1>1, <2>3, <2>4
      <3>2. IsSeq(two) /\ Within(two, 0, far + len) /\ Disjoint(two)
        BY <3>1, TwoParts
      <3> QED BY <3>2 DEF Sound, Within
    <2>7. 2 \in DOMAIN two /\ two[2] = bytes
      OBVIOUS
    <2> HIDE DEF two
    <2>8. \A q : Read(InBlock(far, len), Memory(q, two)) = read
      BY <1>1, <2>5, <2>6, <2>7, ReadPart DEF bytes
    <2>9. block # NoBlock
      <3>1. NoBlock.entries = << >> /\ << >> # <<moved>>
        BY DEF NoBlock
      <3> QED BY <2>1, <3>1
    <2>10. Kind(block) = moved
      BY <2>1, <2>9 DEF Kind
    <2>11. Kind(block).fields = param.fields /\ Kind(block).data = InBlock(far, len)
      BY <2>2, <2>10
    <2> QED BY <2>1, <2>8, <2>11 DEF BlockSays, Gives, block, read, mem
  <1> QED BY <1>2, <1>3

LEMMA KeepSays ==
  ASSUME Compiled, NEW a \in Activations
  PROVE  LET pkt == IntfActivatedNtf(a)
             keep == Keep(ParseIntfActivatedNtf(pkt), pkt)
         IN  /\ keep.ok
             /\ keep.head = ActivatedMeans(a).head /\ keep.exchange = a.exchange
             /\ BlockSays(keep.mode, a.tech.fields, a.tech.data)
             /\ BlockSays(keep.activation, a.param.fields, a.param.data)
  <1> DEFINE pkt == IntfActivatedNtf(a)
             ntf == ParseIntfActivatedNtf(pkt)
             mode == ntf.head[4]
             mp == ntf.mode_param
             ap == ntf.activation_param
             modeBlock == ModeParamBlock(mode, Source(mp, pkt, << >>))
             block == ActivationParamCopy(ntf.head[2], mode, Source(ap, pkt, << >>))
             keep == Keep(ntf, pkt)
  <1>1. Sizes(build)
    BY SizesAre
  <1>2. /\ ntf.ok
        /\ ntf.head = ActivatedMeans(a).head /\ mode = a.tech.mode
        /\ ntf.exchange = a.exchange
        /\ Gives(mp, pkt, a.tech.fields, a.tech.data) /\ FitsMode(mp, a.tech.mode)
        /\ Gives(ap, pkt, a.param.fields, a.param.data)
    BY IntfActivatedNtfSays
  <1>3. IsParam(mp) /\ IsParam(ap)
    BY <1>2, IntfActivatedNtfIs, ParsedIntfActivatedNtf
  <1>4. /\ keep.ok /\ keep.head = ntf.head /\ keep.exchange = ntf.exchange
        /\ keep.mode = (IF mp = Nothing THEN NoBlock ELSE modeBlock)
        /\ keep.activation = (IF ap = Nothing THEN NoBlock ELSE block)
    BY DEF Keep
  <1> HIDE DEF pkt, keep, ntf, mp, ap, mode
  <1>5. BlockSays(keep.mode, a.tech.fields, a.tech.data)
    <2>1. CASE mp = Nothing
      BY <1>2, <1>4, <2>1, NoBlockSays
    <2>2. CASE mp # Nothing
      <3>1. BlockSays(modeBlock, a.tech.fields, a.tech.data)
        BY <1>1, <1>2, <1>3, <2>2, ModeParamBlockSays
      <3> QED BY <1>4, <2>2, <3>1
    <2> QED BY <2>1, <2>2
  <1>6. BlockSays(keep.activation, a.param.fields, a.param.data)
    <2>1. CASE ap = Nothing
      BY <1>2, <1>4, <2>1, NoBlockSays
    <2>2. CASE ap # Nothing
      <3>1. BlockSays(block, a.param.fields, a.param.data)
        BY <1>1, <1>2, <1>3, ActivationParamCopySays
      <3> QED BY <1>4, <2>2, <3>1
    <2> QED BY <2>1, <2>2
  <1> QED BY <1>2, <1>4, <1>5, <1>6 DEF keep, ntf, pkt

LEMMA InitClientSays == Init => ClientSays
  BY DEF Init, ClientSays, Released

LEMMA NextClientSays == Base /\ ClientSays /\ [Next]_vars => ClientSays'
  <1> SUFFICES ASSUME Base, ClientSays, [Next]_vars PROVE ClientSays'
    OBVIOUS
  <1>1. ToldShape
    BY DEF Base, ToldShape
  <1>2. ASSUME kept' = kept, told'.activated = told.activated PROVE ClientSays'
    BY <1>2 DEF ClientSays
  <1>3. ASSUME kept' = Released, told'.activated = << >> PROVE ClientSays'
    BY <1>3 DEF ClientSays, Released
  <1>4. ASSUME NEW t \in Targets, NEW cut \in Cuts, Discovered(t, cut)
        PROVE  ClientSays'
    <2>1. told'.activated = told.activated
      BY <1>1, <1>4 DEF Discovered, ToldShape
    <2> QED BY <1>2, <1>4, <2>1 DEF Discovered
  <1>5. ASSUME NEW a \in Activations, NEW cut \in Cuts, Activated(a, cut)
        PROVE  ClientSays'
    <2> DEFINE pkt == Cut(IntfActivatedNtf(a), cut)
               ntf == ParseIntfActivatedNtf(pkt)
    <2>1. /\ kept' = IF ntf.ok THEN Keep(ntf, pkt) ELSE Released
          /\ told' = [told EXCEPT !.select = << >>,
                                  !.activated = IF cut = 0 THEN <<a>> ELSE << >>]
      BY <1>5 DEF Activated
    <2>2. told'.activated = IF cut = 0 THEN <<a>> ELSE << >>
      BY <1>1, <2>1 DEF ToldShape
    <2>3. CASE cut = 0
      <3>1. pkt = IntfActivatedNtf(a)
        BY <2>3, IntfActivatedNtfIs, CutNothing
      <3>2. ntf.ok
        BY <3>1, IntfActivatedNtfSays
      <3>3. /\ kept'.ok
            /\ kept'.head = ActivatedMeans(a).head /\ kept'.exchange = a.exchange
            /\ BlockSays(kept'.mode, a.tech.fields, a.tech.data)
            /\ BlockSays(kept'.activation, a.param.fields, a.param.data)
        <4>1. kept' = Keep(ParseIntfActivatedNtf(IntfActivatedNtf(a)), IntfActivatedNtf(a))
          BY <2>1, <3>1, <3>2
        <4>2. Compiled
          BY DEF Base
        <4> QED BY <4>1, <4>2, KeepSays
      <3>4. told'.activated = <<a>> /\ told'.activated # << >>
        BY <2>2, <2>3
      <3> QED BY <3>3, <3>4 DEF ClientSays, BlockSays
    <2>4. CASE cut # 0
      <3>1. ~ntf.ok
        BY <2>4, NtfAssumption, CutIntfActivatedNtfFails
      <3> QED BY <1>3, <2>1, <2>2, <2>4, <3>1
    <2> QED BY <2>3, <2>4
  <1>6. ASSUME NEW pkt \in Others, Received(pkt) PROVE ClientSays'
    <2>1. told'.activated = told.activated
      BY <1>1, <1>6 DEF Received, ToldShape
    <2> QED BY <1>2, <1>6, <2>1 DEF Received
  <1>7. ASSUME BackToDiscovery PROVE ClientSays'
    BY <1>3, <1>7 DEF BackToDiscovery
  <1>8. ASSUME UNCHANGED vars PROVE ClientSays'
    BY <1>2, <1>8 DEF vars
  <1> QED BY <1>4, <1>5, <1>6, <1>7, <1>8 DEF Next

LEMMA ClientIsTold ==
  ASSUME ClientSays
  PROVE  ClientCopyAsAnnounced
  <1> DEFINE struct(b) == IF b = NoBlock THEN Nothing ELSE b.entries[1]
             data(b) == Read(struct(b).data, Memory(buffer, b.parts))
             means == [head |-> kept.head, exchange |-> kept.exchange,
                       fields |-> <<struct(kept.mode).fields,
                                    struct(kept.activation).fields>>,
                       data |-> <<data(kept.mode), data(kept.activation)>>]
  <1>1. ASSUME kept.ok PROVE means = ActivatedMeans(told.activated[1])
    <2>1. PICK a \in Activations :
             /\ told.activated = <<a>>
             /\ kept.head = ActivatedMeans(a).head /\ kept.exchange = a.exchange
             /\ BlockSays(kept.mode, a.tech.fields, a.tech.data)
             /\ BlockSays(kept.activation, a.param.fields, a.param.data)
      BY <1>1 DEF ClientSays
    <2>2. told.activated[1] = a
      BY <2>1
    <2>3. \A b, f, d : BlockSays(b, f, d) => struct(b).fields = f /\ data(b) = d
      BY DEF BlockSays, Kind
    <2>4. /\ struct(kept.mode).fields = a.tech.fields
          /\ struct(kept.activation).fields = a.param.fields
          /\ data(kept.mode) = a.tech.data /\ data(kept.activation) = a.param.data
      BY <2>1, <2>3
    <2> HIDE DEF struct, data
    <2> QED BY <2>1, <2>2, <2>4 DEF ActivatedMeans
  <1> QED BY <1>1 DEF ClientCopyAsAnnounced, ClientSays

-----------------------------------------------------------------------------
(***************************************************************************)
(* Theorems                                                                *)
(***************************************************************************)

\* The inductive invariant: the copies that W4_ALL_DISCOVERIES holds have the
\* ids and protocols of the targets of this round, in the order in which
\* nci_state_w4_all_discoveries_discover_ntf was told of them and without those
\* of broken notifications, and every block that nci_discovery_ntf_copy_array
\* makes is as large as what is copied into it.
THEOREM RoundIsCollected == Spec => []Base
  BY InitBase, NextBase, PTL DEF Spec

\* nci_state_w4_host_select_entered selects the best one of the targets of a
\* round that op_mode allows, in whatever order and however many they are.
THEOREM BestIsSelected == Spec => []SelectsBest
  <1>1. Base => SelectsBest
    BY DEF Base
  <1> QED BY <1>1, RoundIsCollected, PTL

\* The copies that nci_util.c makes of notifications and of parameters fit in
\* the blocks that have been allocated for them, for all packets and sizes of
\* structures, as long as that of NciActivationParam is a multiple of eight.
THEOREM BlocksAreFilled ==
  ASSUME SizesOfEight
  PROVE  Spec => []CopiesFit
  <1>1. Init => Kept
    BY DEF Init, Kept, Released
  <1>2. Base /\ Kept /\ [Next]_vars => Kept'
    BY NextKept DEF Base
  <1>3. Base /\ Kept => CopiesFit
    BY BlocksFit
  <1> QED BY <1>1, <1>2, <1>3, RoundIsCollected, PTL DEF Spec


\* The inductive invariant of the next two: what has been copied says what the
\* NFCC has announced, and its pointers lead nowhere but into its own block.
THEOREM CopiesAreFaithful == Spec => []Faithful
  BY InitFaithful, NextFaithful, RoundIsCollected, PTL DEF Spec

\* W4_ALL_DISCOVERIES holds the targets of the round, in their order, with every
\* field and byte that nci_parse_discover_ntf has found in their notifications,
\* whatever packets have gone through the receive buffer of the SAR since.
THEOREM CollectedFaithfully == Spec => []CollectedAsAnnounced
  <1>1. Base /\ Faithful => CollectedAsAnnounced
    <2> SUFFICES ASSUME Base, Faithful PROVE CollectedAsAnnounced
      OBVIOUS
    <2>1. Len(discoveries) = Len(told.round)
      BY DEF Base, InOrder
    <2>2. \A n, b : ReadBack(n, b) = Content(n, Memory(buffer, b.parts))
      BY DEF ReadBack, Content
    <2>3. \A i \in DOMAIN discoveries :
             ReadBack(discoveries[i].entries[1], discoveries[i])
                = DiscoverMeans(told.round[i])
      BY <2>2 DEF Faithful, AllSay, Says
    <2> QED BY <2>1, <2>3 DEF CollectedAsAnnounced
  <1> QED BY <1>1, RoundIsCollected, CopiesAreFaithful, PTL

\* The array that W4_HOST_SELECT is entered with holds all of the targets, and
\* nci_discovery_ntf_copy_array mixes nothing up, whatever their parameters are
\* and however many and long.
THEOREM HandedOverFaithfully == Spec => []HandedOverAsAnnounced
  <1>1. Faithful => HandedOverAsAnnounced
    <2> SUFFICES ASSUME Faithful PROVE HandedOverAsAnnounced
      OBVIOUS
    <2>1. \A n, b : ReadBack(n, b) = Content(n, Memory(buffer, b.parts))
      BY DEF ReadBack, Content
    <2> QED BY <2>1 DEF Faithful, SelectionSays, Says, HandedOverAsAnnounced
  <1> QED BY <1>1, CopiesAreFaithful, PTL

\* The copies that a client makes by nci_util_copy_mode_param and
\* nci_util_copy_activation_param are and stay those of the latest activation,
\* for all sizes of structures.
THEOREM ClientCopyIsFaithful == Spec => []ClientCopyAsAnnounced
  <1>1. Base /\ ClientSays /\ [Next]_vars => ClientSays'
    BY NextClientSays
  <1>2. ClientSays => ClientCopyAsAnnounced
    BY ClientIsTold
  <1> QED BY <1>1, <1>2, InitClientSays, RoundIsCollected, PTL DEF Spec
=============================================================================
