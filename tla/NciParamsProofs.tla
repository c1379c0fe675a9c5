--------------------------- MODULE NciParamsProofs ---------------------------
(***************************************************************************)
(* Proofs about NciParams, for any configuration file that the program     *)
(* starts with, any lists of parameters, and bounds of any size.           *)
(*                                                                         *)
(* Three invariants, one on the other: Typed (what struct nci_sm and the   *)
(* link can hold), Told (a parameter that a listener does not know is still to be   *)
(* announced by one of the calls under way), and Given (the last           *)
(* CORE_SET_CONFIG_CMD that is on its way to the NFCC, or the last one that *)
(* it has got, carries the current LLCP parameters).                       *)
(***************************************************************************)
EXTENDS NciParams, WellFoundedInduction, TLAPS

Ops == {"RESET", "INIT", "SET_CONFIG"}
Commands == [op : Ops, gb : Seq(Nat)]
Answers == [rsp : {TRUE}, op : Ops, ok : BOOLEAN, version : {1, 2}]
Replies == Answers \cup {ResetNtf}
Calls == [keys : SUBSET Keys, running : BOOLEAN]
States == [state : {"INIT", "IDLE", "ERROR"}, trans : BOOLEAN, version : 0 .. 2,
           wait : {None} \cup Ops]
Sars == [out : Seq(Commands), cmd_id : BOOLEAN, writing : BOOLEAN, complete : BOOLEAN]
SarOK(q) == q \in Sars /\ (q.complete => q.writing)

\* What the get functions of nci_core_params can return
Valid(v) ==
    /\ v = [k \in Keys |-> v[k]]
    /\ v["LLC_VERSION"] \in 0 .. MaxUint8
    /\ v["LLC_WKS"] \in 0 .. MaxUint16 /\ v["LLC_WKS"] % 2 = 1
    /\ v["LA_NFCID1"] \in Bytes /\ v["LA_NFCID1"].len \in {0, 4, 7, 10}
    /\ v["LI_A_HB"] \in Bytes /\ v["LI_A_HB"].len <= MaxHistBytes

Typed ==
    /\ Valid(values) /\ Valid(defaults)
    /\ seen = [k \in Keys |-> seen[k]]
    /\ calls \in Seq(Calls) /\ Len(calls) <= MaxDepth
    /\ sm \in States /\ SarOK(sar)
    /\ wire \in Seq(Commands) /\ replies \in Seq(Replies)
    /\ nfcc \in [version : {1, 2}, gb : Seq(Nat), refused : BOOLEAN]

\* As far as a listener can tell: an NFCID1 that the NFCC is to make up may be
\* empty or may say so in its first byte.
Same(key, x, y) == x = y \/ (key = "LA_NFCID1" /\ Dynamic(x) /\ Dynamic(y))

Told ==
    \A k \in Keys : \/ Same(k, seen[k], values[k])
                    \/ \E i \in DOMAIN calls : k \in calls[i].keys

\* All that is on its way to the NFCC
Pipe == wire \o sar.out
NotIn(s, i) == s[i].op # "SET_CONFIG"

\* The last CORE_SET_CONFIG_CMD that is on its way says what it has to say, or
\* the last one that the NFCC has got did.
Informed ==
    \/ \E j \in DOMAIN Pipe : /\ Pipe[j] = SetConfigCommand
                              /\ \A i \in DOMAIN Pipe : i > j => NotIn(Pipe, i)
    \/ /\ \A i \in DOMAIN Pipe : NotIn(Pipe, i)
       /\ nfcc.refused \/ nfcc.gb = GeneralBytes

Idle == sm.state = "IDLE" => sm.wait = None /\ ~sm.trans

Given ==
    calls = << >> /\ (sm.state = "IDLE" \/ sm.wait = "SET_CONFIG") => Informed

-----------------------------------------------------------------------------
(***************************************************************************)
(* Values                                                                  *)
(***************************************************************************)

LEMMA KeysAre == Keys = {"LLC_VERSION", "LLC_WKS", "LA_NFCID1", "LI_A_HB"}
  BY DEF Keys, Number

LEMMA EmptyIsBytes == Empty \in Bytes /\ Empty.len = 0
  BY DEF Empty, Bytes

LEMMA SetNfcid1Valid ==
  ASSUME NEW old \in Bytes, old.len \in {0, 4, 7, 10}, NEW id \in Bytes
  PROVE  /\ SetNfcid1(old, id) \in Bytes
         /\ SetNfcid1(old, id).len \in {0, 4, 7, 10}
  BY EmptyIsBytes DEF SetNfcid1

LEMMA SetHistBytesValid ==
  ASSUME NEW hb \in Bytes
  PROVE  SetHistBytes(hb) \in Bytes /\ SetHistBytes(hb).len <= MaxHistBytes
  BY EmptyIsBytes DEF SetHistBytes, Bytes, MaxHistBytes

LEMMA ParamIs ==
  ASSUME NEW p \in Param
  PROVE  \/ p.key = "LLC_VERSION" /\ p.value \in 0 .. MaxUint8
         \/ p.key = "LLC_WKS" /\ p.value \in 0 .. MaxUint16
         \/ p.key = "LA_NFCID1" /\ p.value \in Bytes
         \/ p.key = "LI_A_HB" /\ p.value \in Bytes
  <1>1. CASE p \in [key : {"LLC_VERSION"}, value : 0 .. MaxUint8]
    BY <1>1
  <1>2. CASE p \in [key : {"LLC_WKS"}, value : 0 .. MaxUint16]
    BY <1>2
  <1>3. CASE p \in [key : {"LA_NFCID1", "LI_A_HB"}, value : Bytes]
    BY <1>3
  <1> QED BY <1>1, <1>2, <1>3 DEF Param

\* What the NFCC can be given, one parameter of it
Good(key, x) ==
    /\ key = "LLC_VERSION" => x \in 0 .. MaxUint8
    /\ key = "LLC_WKS" => x \in 0 .. MaxUint16 /\ x % 2 = 1
    /\ key = "LA_NFCID1" => x \in Bytes /\ x.len \in {0, 4, 7, 10}
    /\ key = "LI_A_HB" => x \in Bytes /\ x.len <= MaxHistBytes

With(v, key, x) == [v EXCEPT ![key] = x]

LEMMA ValidWith ==
  ASSUME NEW v, Valid(v), NEW key \in Keys, NEW x, Good(key, x)
  PROVE  Valid(With(v, key, x))
  <1> DEFINE w == With(v, key, x)
  <1>1. w = [k \in Keys |-> IF k = key THEN x ELSE v[k]]
    BY DEF Valid, With
  <1>2. \A k \in Keys : w[k] = IF k = key THEN x ELSE v[k]
    BY <1>1
  <1>3. w = [k \in Keys |-> w[k]]
    BY <1>1
  <1>4. Valid(w)
    <2> HIDE DEF w
    <2> QED BY <1>2, <1>3, KeysAre DEF Valid, Good
  <1> QED BY <1>4

LEMMA OddAbove ==
  ASSUME NEW h \in Nat, NEW n \in 0 .. 2 * h + 1
  PROVE  n + 1 - (n % 2) \in 0 .. 2 * h + 1 /\ (n + 1 - (n % 2)) % 2 = 1
  <1> DEFINE q == n \div 2
             r == n % 2
  <1>1. q \in Nat /\ r \in 0 .. 1 /\ n = 2 * q + r
    OBVIOUS
  <1>2. n + 1 - r = 2 * q + 1
    <2> HIDE DEF q, r
    <2> QED BY <1>1
  <1>3. (2 * q + 1) % 2 = 1
    <2> HIDE DEF q, r
    <2> QED BY <1>1
  <1>4. 2 * q + 1 \in 0 .. 2 * h + 1
    <2> HIDE DEF q, r
    <2> QED BY <1>1
  <1> QED BY <1>2, <1>3, <1>4, Zenon

LEMMA NextOdd ==
  ASSUME NEW n \in 0 .. MaxUint16
  PROVE  n + 1 - (n % 2) \in 0 .. MaxUint16 /\ (n + 1 - (n % 2)) % 2 = 1
  <1>1. PICK h \in Nat : MaxUint16 = 2 * h + 1
    <2>1. 2 * 32767 + 1 = MaxUint16
      BY DEF MaxUint16
    <2> QED BY <2>1
  <1> QED BY <1>1, OddAbove

\* A parameter that is set is one that the NFCC can be given
\* (the set functions of nci_core_params).
LEMMA SetValid ==
  ASSUME NEW v, Valid(v), NEW p \in Param
  PROVE  Valid(Set(v, p))
  <1>1. CASE p.key = "LLC_VERSION" /\ p.value \in 0 .. MaxUint8
    <2>1. Set(v, p) = With(v, "LLC_VERSION", p.value)
      BY <1>1 DEF Set, With
    <2>2. Good("LLC_VERSION", p.value) /\ "LLC_VERSION" \in Keys
      BY <1>1, KeysAre DEF Good
    <2> QED BY <2>1, <2>2, ValidWith
  <1>2. CASE p.key = "LLC_WKS" /\ p.value \in 0 .. MaxUint16
    <2> DEFINE x == p.value + 1 - (p.value % 2)
    <2>1. Set(v, p) = With(v, "LLC_WKS", x)
      BY <1>2 DEF Set, With
    <2>2. x \in 0 .. MaxUint16 /\ x % 2 = 1
      BY <1>2, NextOdd
    <2> HIDE DEF x
    <2>3. Good("LLC_WKS", x) /\ "LLC_WKS" \in Keys
      BY <2>2, KeysAre DEF Good
    <2> QED BY <2>1, <2>3, ValidWith
  <1>3. CASE p.key = "LA_NFCID1" /\ p.value \in Bytes
    <2> DEFINE x == SetNfcid1(v["LA_NFCID1"], p.value)
    <2>1. Set(v, p) = With(v, "LA_NFCID1", x)
      BY <1>3 DEF Set, With
    <2>2. x \in Bytes /\ x.len \in {0, 4, 7, 10}
      BY <1>3, SetNfcid1Valid DEF Valid
    <2> HIDE DEF x
    <2>3. Good("LA_NFCID1", x) /\ "LA_NFCID1" \in Keys
      BY <2>2, KeysAre DEF Good
    <2> QED BY <2>1, <2>3, ValidWith
  <1>4. CASE p.key = "LI_A_HB" /\ p.value \in Bytes
    <2> DEFINE x == SetHistBytes(p.value)
    <2>1. Set(v, p) = With(v, "LI_A_HB", x)
      BY <1>4 DEF Set, With
    <2>2. x \in Bytes /\ x.len <= MaxHistBytes
      BY <1>4, SetHistBytesValid
    <2> HIDE DEF x
    <2>3. Good("LI_A_HB", x) /\ "LI_A_HB" \in Keys
      BY <2>2, KeysAre DEF Good
    <2> QED BY <2>1, <2>3, ValidWith
  <1> QED BY <1>1, <1>2, <1>3, <1>4, ParamIs

(***************************************************************************)
(* The loop over a list of parameters. What holds of the n first turns is  *)
(* shown by the least n that it does not hold of.                          *)
(***************************************************************************)
LEMMA LeastNatural ==
  ASSUME NEW T, T \subseteq Nat, T # {}
  PROVE  \E n \in T : \A m \in T : ~ (m < n)
  <1> DEFINE R == OpToRel(<, Nat)
  <1>1. IsWellFoundedOn(R, Nat)
    BY NatLessThanWellFounded
  <1>2. \A m, n \in Nat : m < n => <<m, n>> \in R
    BY DEF OpToRel
  <1> HIDE DEF R
  <1>3. \E n \in T : \A m \in T : ~ (<<m, n>> \in R)
    BY <1>1, WFMin
  <1> QED BY <1>2, <1>3

\* f is what the parameters are after each of the n first turns.
Turns(f, base, list, n) ==
    f = [i \in 0 .. n |-> IF i = 0 THEN base ELSE Set(f[i - 1], list[i])]

LEMMA TurnsExist ==
  ASSUME NEW base, NEW list, NEW n \in Nat
  PROVE  \E f : Turns(f, base, list, n)
  <1> DEFINE T == {m \in Nat : ~ \E f : Turns(f, base, list, m)}
  <1>1. SUFFICES ASSUME T # {} PROVE FALSE
    OBVIOUS
  <1>2. PICK m \in T : \A j \in T : ~ (j < m)
    BY <1>1, LeastNatural
  <1>3. m \in Nat /\ ~ \E f : Turns(f, base, list, m)
    OBVIOUS
  <1>4. CASE m = 0
    <2>1. Turns([i \in 0 .. 0 |-> base], base, list, 0)
      BY DEF Turns
    <2> QED BY <1>3, <1>4, <2>1
  <1>5. CASE m # 0
    <2>1. m - 1 \in Nat /\ m - 1 < m
      BY <1>3, <1>5
    <2>2. PICK g : Turns(g, base, list, m - 1)
      BY <1>2, <2>1
    <2> DEFINE f == [i \in 0 .. m |-> IF i = m THEN Set(g[m - 1], list[m]) ELSE g[i]]
    <2>3. \A i \in 0 .. m - 1 : g[i] = IF i = 0 THEN base ELSE Set(g[i - 1], list[i])
      BY <2>2 DEF Turns
    <2>4. \A i \in 0 .. m - 1 : f[i] = g[i]
      BY <1>3
    <2>5. \A i \in 0 .. m : f[i] = IF i = 0 THEN base ELSE Set(f[i - 1], list[i])
      <3> SUFFICES ASSUME NEW i \in 0 .. m
                   PROVE  f[i] = IF i = 0 THEN base ELSE Set(f[i - 1], list[i])
        OBVIOUS
      <3>1. CASE i = m
        <4>1. f[i] = Set(g[m - 1], list[m])
          BY <3>1
        <4>2. f[i - 1] = g[m - 1]
          BY <2>1, <2>4, <3>1
        <4> HIDE DEF f
        <4> QED BY <1>5, <3>1, <4>1, <4>2
      <3>2. CASE i # m
        <4>1. i \in 0 .. m - 1
          BY <1>3, <3>2
        <4>2. i # 0 => f[i - 1] = g[i - 1]
          BY <1>3, <2>4, <4>1
        <4>3. f[i] = g[i]
          BY <2>4, <4>1
        <4> HIDE DEF f
        <4> QED BY <2>3, <4>1, <4>2, <4>3
      <3> QED BY <3>1, <3>2
    <2>6. f = [i \in 0 .. m |-> f[i]]
      OBVIOUS
    <2> HIDE DEF f
    <2>7. Turns(f, base, list, m)
      BY <2>5, <2>6 DEF Turns
    <2> QED BY <1>3, <2>7
  <1> QED BY <1>4, <1>5

\* nci_core_set_params: the parameters stay valid, however long the list is.
LEMMA SetAllValid ==
  ASSUME NEW base, Valid(base), NEW list \in Seq(Param)
  PROVE  Valid(SetAll(base, list))
  <1>1. PICK f : /\ Turns(f, base, list, Len(list))
                 /\ SetAll(base, list) = f[Len(list)]
    <2>1. \E f : Turns(f, base, list, Len(list))
      <3>1. Len(list) \in Nat
        OBVIOUS
      <3> QED BY <3>1, TurnsExist, Zenon
    <2> DEFINE a == CHOOSE f : Turns(f, base, list, Len(list))
    <2>2. Turns(a, base, list, Len(list))
      BY <2>1
    <2>3. SetAll(base, list) = a[Len(list)]
      BY DEF SetAll, Turns
    <2> QED BY <2>2, <2>3
  <1>2. \A i \in 0 .. Len(list) :
            f[i] = IF i = 0 THEN base ELSE Set(f[i - 1], list[i])
    BY <1>1 DEF Turns
  <1> DEFINE T == {i \in Nat : i <= Len(list) /\ ~Valid(f[i])}
  <1>3. T = {}
    <2> SUFFICES ASSUME T # {} PROVE FALSE
      OBVIOUS
    <2>1. PICK i \in T : \A j \in T : ~ (j < i)
      BY LeastNatural
    <2>2. i \in Nat /\ i <= Len(list) /\ ~Valid(f[i])
      OBVIOUS
    <2>3. CASE i = 0
      BY <1>2, <2>2, <2>3
    <2>4. CASE i # 0
      <3>1. i - 1 \in Nat /\ i - 1 < i /\ i - 1 <= Len(list)
        BY <2>2, <2>4
      <3>2. Valid(f[i - 1])
        BY <2>1, <3>1
      <3>3. list[i] \in Param
        BY <2>2, <2>4
      <3>4. f[i] = Set(f[i - 1], list[i])
        BY <1>2, <2>2, <2>4
      <3> QED BY <2>2, <3>2, <3>3, <3>4, SetValid
    <2> QED BY <2>3, <2>4
  <1>4. Len(list) \in Nat /\ Len(list) <= Len(list)
    OBVIOUS
  <1> QED BY <1>1, <1>3, <1>4

-----------------------------------------------------------------------------
(***************************************************************************)
(* Sequences                                                               *)
(***************************************************************************)

LEMMA WithoutLast ==
  ASSUME NEW S, NEW u \in Seq(S), u # << >>
  PROVE  SubSeq(u, 1, Len(u) - 1) \in Seq(S)
  <1>1. Len(u) \in Nat /\ Len(u) > 0 /\ \A i \in 1 .. Len(u) : u[i] \in S
    OBVIOUS
  <1>2. \A i \in 1 .. Len(u) - 1 : u[i] \in S
    BY <1>1
  <1> QED BY <1>1, <1>2

\* The first element of u, at the end of v
LEMMA FirstMoves ==
  ASSUME NEW S, NEW v \in Seq(S), NEW u \in Seq(S), u # << >>
  PROVE  Append(v, u[1]) \o Tail(u) = v \o u
  <1> DEFINE w == Append(v, u[1])
             x == Tail(u)
             a == w \o x
             b == v \o u
  <1>1. Len(u) \in Nat /\ Len(u) > 0 /\ Len(v) \in Nat
    OBVIOUS
  <1>2. x \in Seq(S) /\ Len(x) = Len(u) - 1
    OBVIOUS
  <1>3. \A i \in 1 .. Len(u) - 1 : x[i] = u[i + 1]
    OBVIOUS
  <1>4. w \in Seq(S) /\ Len(w) = Len(v) + 1
    OBVIOUS
  <1>5. (\A i \in 1 .. Len(v) : w[i] = v[i]) /\ w[Len(v) + 1] = u[1]
    OBVIOUS
  <1>6. b \in Seq(S) /\ Len(b) = Len(v) + Len(u)
    OBVIOUS
  <1>7. \A i \in 1 .. Len(v) + Len(u) :
            b[i] = IF i <= Len(v) THEN v[i] ELSE u[i - Len(v)]
    BY <1>1
  <1> HIDE DEF w, x, b
  <1>8. a \in Seq(S) /\ Len(a) = Len(v) + Len(u)
    BY <1>1, <1>2, <1>4
  <1>9. \A i \in 1 .. Len(v) + Len(u) :
            a[i] = IF i <= Len(v) + 1 THEN w[i] ELSE x[i - Len(v) - 1]
    BY <1>1, <1>2, <1>4
  <1> HIDE DEF a
  <1>10. \A i \in 1 .. Len(v) + Len(u) : a[i] = b[i]
    <2> SUFFICES ASSUME NEW i \in 1 .. Len(v) + Len(u) PROVE a[i] = b[i]
      OBVIOUS
    <2>1. CASE i <= Len(v)
      BY <1>1, <1>5, <1>7, <1>9, <2>1
    <2>2. CASE i = Len(v) + 1
      BY <1>1, <1>5, <1>7, <1>9, <2>2
    <2>3. CASE i > Len(v) + 1
      <3>1. i - Len(v) - 1 \in 1 .. Len(u) - 1
        BY <1>1, <2>3
      <3> QED BY <1>1, <1>3, <1>7, <1>9, <2>3, <3>1
    <2> QED BY <1>1, <2>1, <2>2, <2>3
  <1>11. a = b
    BY <1>1, <1>6, <1>8, <1>10
  <1> QED BY <1>11 DEF a, b, w, x

LEMMA LastIsLast ==
  ASSUME NEW S, NEW v \in Seq(S), NEW u \in Seq(S), u # << >>
  PROVE  \E j \in DOMAIN (v \o u) :
            (v \o u)[j] = u[Len(u)] /\ \A i \in DOMAIN (v \o u) : ~ (i > j)
  <1> DEFINE b == v \o u
             j == Len(v) + Len(u)
  <1>1. Len(u) \in Nat /\ Len(u) > 0 /\ Len(v) \in Nat
    OBVIOUS
  <1>2. DOMAIN b = 1 .. j
    OBVIOUS
  <1>3. b[j] = u[Len(u)]
    BY <1>1
  <1> HIDE DEF b
  <1>4. j \in DOMAIN b /\ \A i \in DOMAIN b : ~ (i > j)
    BY <1>1, <1>2
  <1> HIDE DEF j
  <1>5. \E k \in DOMAIN b : b[k] = u[Len(u)] /\ \A i \in DOMAIN b : ~ (i > k)
    BY <1>3, <1>4
  <1> QED BY <1>5 DEF b

(***************************************************************************)
(* Types                                                                   *)
(***************************************************************************)

LEMMA DefaultsValid ==
  ASSUME NEW file \in Files,
         NEW d, d = [k \in Keys |->
                       CASE k = "LLC_VERSION" -> 17
                         [] k = "LLC_WKS" -> 3
                         [] k = "LA_NFCID1" -> DefaultNfcid1(file.nfcid1)
                         [] k = "LI_A_HB" -> DefaultHistBytes(file.hb)]
  PROVE  Valid(d)
  <1> DEFINE x == DefaultNfcid1(file.nfcid1)
             y == DefaultHistBytes(file.hb)
  <1>1. file.nfcid1 \in Text /\ file.hb \in Text
    BY ParamsAssumption
  <1>2. x \in Bytes /\ x.len \in {0, 4, 7, 10}
    BY <1>1, EmptyIsBytes DEF DefaultNfcid1, Text, Bytes
  <1>3. y \in Bytes /\ y.len <= MaxHistBytes
    BY <1>1, EmptyIsBytes DEF DefaultHistBytes, Text, Bytes, MaxHistBytes
  <1>4. d = [k \in Keys |-> d[k]]
    <2> DEFINE e(k) == CASE k = "LLC_VERSION" -> 17
                         [] k = "LLC_WKS" -> 3
                         [] k = "LA_NFCID1" -> x
                         [] k = "LI_A_HB" -> y
    <2>1. d = [k \in Keys |-> e(k)]
      OBVIOUS
    <2> HIDE DEF e
    <2> QED BY <2>1
  <1> HIDE DEF x, y
  <1>5. d["LLC_VERSION"] = 17 /\ d["LLC_WKS"] = 3
    BY KeysAre DEF x, y
  <1>6. d["LA_NFCID1"] = x /\ d["LI_A_HB"] = y
    BY KeysAre DEF x, y
  <1>7. 17 \in 0 .. MaxUint8 /\ 3 \in 0 .. MaxUint16 /\ 3 % 2 = 1
    BY DEF MaxUint8, MaxUint16
  <1> QED BY <1>2, <1>3, <1>4, <1>5, <1>6, <1>7 DEF Valid

LEMMA CommandFacts ==
  /\ \A op \in {"RESET", "INIT"} : Command(op) \in Commands /\ Command(op).op = op
  /\ Valid(values) => /\ SetConfigCommand \in Commands
                      /\ SetConfigCommand.op = "SET_CONFIG"
  <1>1. << >> \in Seq(Nat)
    OBVIOUS
  <1>2. ASSUME Valid(values) PROVE GeneralBytes \in Seq(Nat)
    <2> DEFINE v == values["LLC_VERSION"]
               w == values["LLC_WKS"]
    <2>1. v \in Nat /\ w \in Nat
      BY <1>2 DEF Valid
    <2> HIDE DEF v, w
    <2>2. w \div 256 \in Nat /\ w % 256 \in Nat
      BY <2>1
    <2> DEFINE b == w \div 256
               c == w % 256
    <2>3. GeneralBytes = <<v, b, c>>
      BY DEF GeneralBytes, v, w
    <2> HIDE DEF b, c
    <2>4. b \in Nat /\ c \in Nat
      BY <2>2 DEF b, c
    <2>5. <<v, b, c>> \in Seq(Nat)
      BY <2>1, <2>4
    <2> QED BY <2>3, <2>5
  <1> QED BY <1>1, <1>2 DEF Command, Commands, Ops, SetConfigCommand

LEMMA EmptySarOK == SarOK(EmptySar)
  <1>1. << >> \in Seq(Commands)
    OBVIOUS
  <1> QED BY <1>1 DEF SarOK, Sars, EmptySar

LEMMA InitTyped == Init => Typed
  <1> SUFFICES ASSUME Init PROVE Typed
    OBVIOUS
  <1>1. Valid(defaults)
    BY DefaultsValid DEF Init
  <1>2. Valid(values) /\ seen = [k \in Keys |-> seen[k]]
    BY <1>1 DEF Init, Valid
  <1>3. << >> \in Seq(Calls) /\ << >> \in Seq(Commands) /\ << >> \in Seq(Replies)
    OBVIOUS
  <1>4. << >> \in Seq(Nat)
    OBVIOUS
  <1>5. Len(calls) <= MaxDepth
    BY ParamsAssumption DEF Init
  <1>6. nfcc \in [version : {1, 2}, gb : Seq(Nat), refused : BOOLEAN]
    BY <1>4, ParamsAssumption DEF Init
  <1>7. sm \in States
    BY DEF Init, States
  <1>8. SarOK(sar)
    BY <1>3, EmptySarOK DEF Init
  <1> QED BY <1>1, <1>2, <1>3, <1>5, <1>6, <1>7, <1>8 DEF Init, Typed

\* nci_core_cancel_command leaves the writing alone.
LEMMA CancelledOK ==
  ASSUME NEW q, SarOK(q)
  PROVE  SarOK(Cancelled(q))
  <1>1. q \in Sars /\ (q.complete => q.writing)
    BY DEF SarOK
  <1>2. CASE ~q.cmd_id
    BY <1>2 DEF Cancelled
  <1>3. CASE q.cmd_id /\ q.out = << >>
    BY <1>1, <1>3 DEF Cancelled, SarOK, Sars
  <1>4. CASE q.cmd_id /\ q.out # << >>
    <2> DEFINE front == SubSeq(q.out, 1, Len(q.out) - 1)
    <2>1. q.out \in Seq(Commands)
      BY <1>1 DEF Sars
    <2>2. front \in Seq(Commands)
      BY <1>4, <2>1, WithoutLast
    <2>3. Cancelled(q) = [q EXCEPT !.cmd_id = FALSE, !.out = front]
      BY <1>4 DEF Cancelled
    <2> HIDE DEF front
    <2> QED BY <1>1, <2>2, <2>3 DEF SarOK, Sars
  <1> QED BY <1>2, <1>3, <1>4

\* What is sent comes last in the queue.
LEMMA SendTyped ==
  ASSUME NEW q, SarOK(q), NEW s \in States, NEW cmd \in Commands, Send(q, s, cmd)
  PROVE  /\ sm' \in States
         /\ sm'.wait = cmd.op /\ sm'.state = s.state /\ sm'.trans = s.trans
         /\ SarOK(sar')
         /\ \E front \in Seq(Commands) : sar'.out = Append(front, cmd)
  <1> DEFINE c == Cancelled(q)
  <1>1. cmd.op \in Ops
    BY DEF Commands
  <1>2. sm' = [s EXCEPT !.wait = cmd.op]
    BY DEF Send
  <1>3. sar' = [c EXCEPT !.out = Append(@, cmd), !.cmd_id = TRUE]
    BY DEF Send
  <1>4. c \in Sars /\ (c.complete => c.writing)
    BY CancelledOK DEF SarOK
  <1> HIDE DEF c
  <1>5. c.out \in Seq(Commands)
    BY <1>4 DEF Sars
  <1>6. Append(c.out, cmd) \in Seq(Commands)
    BY <1>5
  <1>7. SarOK(sar')
    BY <1>3, <1>4, <1>6 DEF SarOK, Sars
  <1>8. sar'.out = Append(c.out, cmd)
    BY <1>3, <1>4 DEF Sars
  <1> QED BY <1>1, <1>2, <1>5, <1>7, <1>8 DEF States

\* What is restarted is of its type.
LEMMA RestartTyped ==
  ASSUME Typed, RestartInternal
  PROVE  /\ sm' \in States /\ SarOK(sar')
         /\ sm'.state = "INIT" /\ sm'.wait = "RESET" /\ sm'.trans = TRUE
         /\ wire' \in Seq(Commands)
  <1> DEFINE s == [state |-> "INIT", trans |-> TRUE, version |-> 0, wait |-> None]
  <1>1. Command("RESET") \in Commands /\ Command("RESET").op = "RESET"
    BY CommandFacts
  <1>2. Send(EmptySar, s, Command("RESET")) /\ CancelWrite
    BY DEF RestartInternal
  <1>3. s \in States /\ s.state = "INIT" /\ s.trans = TRUE
    BY DEF States
  <1> HIDE DEF s
  <1>4. wire' \in Seq(Commands)
    <2>1. CASE UNCHANGED wire
      BY <2>1 DEF Typed
    <2>2. CASE wire # << >> /\ wire' = SubSeq(wire, 1, Len(wire) - 1)
      BY <2>2, WithoutLast DEF Typed
    <2> QED BY <1>2, <2>1, <2>2 DEF CancelWrite
  <1> QED BY <1>1, <1>2, <1>3, <1>4, EmptySarOK, SendTyped

\* A call announces what it has changed.
LEMMA ChangeTyped ==
  ASSUME Typed, ClientRuns, NEW new, Valid(new), Change(values, new)
  PROVE  Typed'
  <1> DEFINE keys == Changed(values, new)
             call == [keys |-> keys, running |-> FALSE]
  <1>1. keys \subseteq Keys
    BY DEF Changed
  <1>2. values' = new /\ UNCHANGED <<defaults, seen, host, link>>
    BY DEF Change
  <1>3. calls' = IF keys = {} THEN calls ELSE Append(calls, call)
    BY DEF Change
  <1> HIDE DEF keys
  <1>4. call \in Calls
    BY <1>1 DEF Calls
  <1> HIDE DEF call
  <1>5. Len(calls) + 1 <= MaxDepth
    BY ParamsAssumption DEF ClientRuns, Typed
  <1>6. calls' \in Seq(Calls) /\ Len(calls') <= MaxDepth
    BY <1>3, <1>4, <1>5 DEF Typed
  <1>7. Valid(values')
    BY <1>2
  <1> QED BY <1>2, <1>6, <1>7 DEF Typed, Valid, host, link

\* The innermost call
LEMMA TopFacts ==
  ASSUME Typed, calls # << >>
  PROVE  /\ Len(calls) \in DOMAIN calls /\ Top \in Calls
         /\ Len(calls) \in Nat /\ DOMAIN calls = 1 .. Len(calls)
  BY DEF Typed, Top

LEMMA ErrorTyped ==
  ASSUME Typed, NEW q, SarOK(q), Error(q)
  PROVE  /\ sm' \in States /\ SarOK(sar')
         /\ sm'.wait = None /\ sm'.state = "ERROR" /\ sm'.trans = FALSE
  <1>1. sm' = [sm EXCEPT !.state = "ERROR", !.trans = FALSE, !.wait = None]
    BY DEF Error
  <1>2. sar' = Cancelled(q)
    BY DEF Error
  <1> QED BY <1>1, <1>2, CancelledOK DEF Typed, States

\* How a response is handled, as far as it matters below
LEMMA ResponseTyped ==
  ASSUME Typed, NEW r \in Answers, HandleResponse(r)
  PROVE  /\ sm' \in States /\ SarOK(sar')
         /\ \/ UNCHANGED host
            \/ /\ sm.wait = "SET_CONFIG" /\ sar'.out = sar.out
               /\ sm'.state = "IDLE" /\ sm'.wait = None /\ ~sm'.trans
            \/ sm'.state = "ERROR" /\ sm'.wait = None
            \/ /\ sm.wait = "INIT" /\ sm'.state = sm.state
               /\ sm'.wait = "SET_CONFIG"
               /\ \E front \in Seq(Commands) :
                     sar'.out = Append(front, SetConfigCommand)
            \/ /\ sm.wait = "RESET" /\ sm'.state = sm.state
               /\ sm'.wait \in {None, "INIT"}
  <1> DEFINE s == [sm EXCEPT !.wait = None]
             q == [sar EXCEPT !.cmd_id = FALSE]
  <1>1. sm \in States /\ SarOK(sar)
    BY DEF Typed
  <1>2. s \in States /\ s.state = sm.state /\ s.trans = sm.trans /\ s.wait = None
    BY <1>1 DEF States
  <1>3. r.op \in Ops /\ r.ok \in BOOLEAN /\ r.version \in {1, 2}
    BY DEF Answers
  <1>4. SarOK(q) /\ q.out = sar.out
    BY <1>1 DEF SarOK, Sars
  <1>5. CASE r.op # sm.wait
    BY <1>1, <1>5 DEF HandleResponse, host
  <1>6. CASE r.op = sm.wait /\ r.op = "SET_CONFIG"
    <2>1. sm' = [s EXCEPT !.state = "IDLE", !.trans = FALSE] /\ sar' = q
      BY <1>6 DEF HandleResponse
    <2> HIDE DEF s, q
    <2> QED BY <1>2, <1>4, <1>6, <2>1 DEF States
  <1>7. CASE r.op = sm.wait /\ r.op # "SET_CONFIG" /\ ~r.ok
    <2>1. Error(q)
      BY <1>7 DEF HandleResponse
    <2> HIDE DEF q
    <2> QED BY <1>4, <2>1, ErrorTyped
  <1>8. CASE r.op = sm.wait /\ r.op = "INIT" /\ r.ok
    <2>1. Send(q, s, SetConfigCommand)
      BY <1>8 DEF HandleResponse
    <2>2. SetConfigCommand \in Commands /\ SetConfigCommand.op = "SET_CONFIG"
      BY CommandFacts DEF Typed
    <2> HIDE DEF s, q
    <2> QED BY <1>2, <1>4, <1>8, <2>1, <2>2, SendTyped
  <1>9. CASE r.op = sm.wait /\ r.op = "RESET" /\ r.ok /\ r.version = 1
    <2> DEFINE u == [s EXCEPT !.version = 1]
    <2>1. Send(q, u, Command("INIT"))
      BY <1>9 DEF HandleResponse
    <2>2. u \in States /\ u.state = sm.state
      <3> HIDE DEF s
      <3> QED BY <1>2 DEF States
    <2>3. Command("INIT") \in Commands /\ Command("INIT").op = "INIT"
      BY CommandFacts
    <2> HIDE DEF s, q, u
    <2> QED BY <1>4, <1>9, <2>1, <2>2, <2>3, SendTyped
  <1>10. CASE r.op = sm.wait /\ r.op = "RESET" /\ r.ok /\ r.version = 2
    <2>1. sm' = [s EXCEPT !.version = 2] /\ sar' = q
      BY <1>10 DEF HandleResponse
    <2> HIDE DEF s, q
    <2> QED BY <1>2, <1>4, <1>10, <2>1 DEF States
  <1> QED BY <1>3, <1>5, <1>6, <1>7, <1>8, <1>9, <1>10 DEF Ops

LEMMA NotificationTyped ==
  ASSUME Typed, HandleResetNtf
  PROVE  /\ sm' \in States /\ SarOK(sar')
         /\ \/ UNCHANGED host
            \/ sm.trans /\ sm'.state = sm.state /\ sm'.wait = "INIT"
  <1>1. CASE sm.trans /\ sm.version = 2
    <2>1. Send(sar, sm, Command("INIT"))
      BY <1>1 DEF HandleResetNtf
    <2>2. Command("INIT") \in Commands /\ Command("INIT").op = "INIT"
      BY CommandFacts
    <2> QED BY <1>1, <2>1, <2>2, SendTyped DEF Typed
  <1>2. CASE ~(sm.trans /\ sm.version = 2)
    BY <1>2 DEF HandleResetNtf, host, Typed
  <1> QED BY <1>1, <1>2

\* What is given to the HAL is not in the queue any more, and all else is as it
\* was, in the order that it had.
LEMMA WriteTyped ==
  ASSUME Typed, StartWrite \/ WriteCompleted
  PROVE  /\ SarOK(sar') /\ wire' \in Seq(Commands)
         /\ UNCHANGED <<values, defaults, calls, seen, sm, replies, nfcc, Pipe>>
  <1>1. PICK q : /\ SarOK(q) /\ q.out = sar.out
                 /\ AttemptWrite(q)
    <2>1. CASE StartWrite
      BY <2>1 DEF StartWrite, Typed
    <2>2. CASE WriteCompleted
      <3> DEFINE q == [sar EXCEPT !.cmd_id = @ /\ ~sar.complete,
                                  !.writing = FALSE, !.complete = FALSE]
      <3>1. SarOK(q) /\ q.out = sar.out
        BY DEF SarOK, Sars, Typed
      <3>2. AttemptWrite(q)
        BY <2>2 DEF WriteCompleted
      <3> HIDE DEF q
      <3> QED BY <3>1, <3>2
    <2> QED BY <2>1, <2>2
  <1>2. UNCHANGED <<values, defaults, calls, seen, sm, replies, nfcc>>
    BY DEF StartWrite, WriteCompleted
  <1>3. q \in Sars /\ q.out \in Seq(Commands) /\ wire \in Seq(Commands)
    BY <1>1 DEF SarOK, Sars, Typed
  <1>4. CASE q.out = << >>
    <2>1. sar' = q /\ wire' = wire
      BY <1>1, <1>4 DEF AttemptWrite
    <2> QED BY <1>1, <1>2, <1>3, <2>1 DEF Pipe
  <1>5. CASE q.out # << >>
    <2> DEFINE cmd == q.out[1]
               rest == Tail(q.out)
    <2>1. wire' = Append(wire, cmd)
      BY <1>1, <1>5 DEF AttemptWrite
    <2>2. sar' = [q EXCEPT !.out = rest, !.writing = TRUE, !.complete = TRUE]
      BY <1>1, <1>5 DEF AttemptWrite
    <2>3. cmd \in Commands /\ rest \in Seq(Commands)
      BY <1>3, <1>5
    <2>4. Append(wire, cmd) \o rest = wire \o q.out
      BY <1>3, <1>5, FirstMoves
    <2> HIDE DEF cmd, rest
    <2>5. SarOK(sar') /\ sar'.out = rest
      BY <1>3, <2>2, <2>3 DEF SarOK, Sars
    <2>6. wire' \in Seq(Commands)
      BY <1>3, <2>1, <2>3
    <2>7. UNCHANGED Pipe
      BY <1>1, <2>1, <2>4, <2>5 DEF Pipe
    <2> QED BY <1>2, <2>5, <2>6, <2>7
  <1> QED BY <1>4, <1>5

\* The parameters that a call is to leave are valid.
LEMMA SetParamsSets ==
  ASSUME Typed, NEW list \in Lists, NEW reset \in BOOLEAN
  PROVE  Valid(SetAll(IF reset THEN defaults ELSE values, list))
  <1>1. Valid(IF reset THEN defaults ELSE values)
    BY DEF Typed
  <1>2. list \in Seq(Param)
    BY ParamsAssumption
  <1> QED BY <1>1, <1>2, SetAllValid

LEMMA ResetParamSets ==
  ASSUME Typed, NEW key \in Keys
  PROVE  Valid([values EXCEPT ![key] = defaults[key]])
  <1>1. Good(key, defaults[key])
    BY DEF Good, Typed, Valid
  <1>2. Valid(With(values, key, defaults[key]))
    BY <1>1, ValidWith DEF Typed
  <1> QED BY <1>2 DEF With

LEMMA NextTyped ==
  ASSUME Typed, [Next]_vars
  PROVE  Typed'
  <1>1. CASE UNCHANGED vars
    BY <1>1 DEF vars, Typed, Valid
  <1>2. ASSUME NEW list \in Lists, NEW reset \in BOOLEAN, SetParams(list, reset)
        PROVE  Typed'
    <2> DEFINE new == SetAll(IF reset THEN defaults ELSE values, list)
    <2>1. Valid(new)
      BY SetParamsSets
    <2>2. ClientRuns /\ Change(values, new)
      BY <1>2 DEF SetParams
    <2> HIDE DEF new
    <2> QED BY <2>1, <2>2, ChangeTyped
  <1>3. ASSUME NEW key \in Keys, ResetParam(key)
        PROVE  Typed'
    <2> DEFINE new == [values EXCEPT ![key] = defaults[key]]
    <2>1. Valid(new)
      BY ResetParamSets
    <2>2. ClientRuns /\ Change(values, new)
      BY <1>3 DEF ResetParam
    <2> HIDE DEF new
    <2> QED BY <2>1, <2>2, ChangeTyped
  <1>4. CASE Restart
    <2>1. RestartInternal /\ UNCHANGED <<values, defaults, calls, seen, replies, nfcc>>
      BY <1>4 DEF Restart
    <2> QED BY <2>1, RestartTyped DEF Typed, Valid
  <1>5. CASE Emit
    <2>1. calls # << >>
      BY <1>5 DEF Emit
    <2>2. calls' = [calls EXCEPT ![Len(calls)] = [Top EXCEPT !.running = TRUE]]
      BY <1>5 DEF Emit, Top
    <2>3. [Top EXCEPT !.running = TRUE] \in Calls
      BY <2>1, TopFacts DEF Calls
    <2>4. calls' \in Seq(Calls) /\ Len(calls') = Len(calls)
      BY <2>1, <2>2, <2>3, TopFacts DEF Typed
    <2>5. UNCHANGED <<values, defaults, seen, host, link>>
      BY <1>5 DEF Emit
    <2> QED BY <2>4, <2>5 DEF Typed, Valid, host, link
  <1>6. CASE Listen
    <2> DEFINE key == First(Top.keys)
               call == [keys |-> Top.keys \ {key}, running |-> FALSE]
    <2>1. calls # << >>
      BY <1>6 DEF Listen
    <2>2. calls' = [calls EXCEPT ![Len(calls)] = call]
      BY <1>6 DEF Listen
    <2>3. call \in Calls
      BY <2>1, TopFacts DEF Calls
    <2> HIDE DEF call
    <2>4. calls' \in Seq(Calls) /\ Len(calls') = Len(calls)
      BY <2>1, <2>2, <2>3, TopFacts DEF Typed
    <2>5. seen' = [seen EXCEPT ![key] = values[key]]
      BY <1>6 DEF Listen
    <2> HIDE DEF key
    <2>6. seen' = [k \in Keys |-> seen'[k]]
      BY <2>5 DEF Typed
    <2>7. UNCHANGED <<values, defaults, host, link>>
      BY <1>6 DEF Listen
    <2> QED BY <2>4, <2>6, <2>7 DEF Typed, Valid, host, link
  <1>7. CASE Return
    <2>1. calls # << >>
      BY <1>7 DEF Return
    <2>2. calls' = SubSeq(calls, 1, Len(calls) - 1)
      BY <1>7 DEF Return
    <2>3. calls' \in Seq(Calls) /\ Len(calls') <= Len(calls)
      BY <2>1, <2>2, TopFacts DEF Typed
    <2>4. Len(calls') <= MaxDepth
      BY <2>3, ParamsAssumption DEF Typed
    <2>5. RestartInternal /\ UNCHANGED <<values, defaults, seen, replies, nfcc>>
      BY <1>7 DEF Return
    <2> QED BY <2>3, <2>4, <2>5, RestartTyped DEF Typed, Valid
  <1>8. CASE StartWrite \/ WriteCompleted
    BY <1>8, WriteTyped DEF Typed, Valid
  <1>9. CASE Receive
    <2>1. replies # << >> /\ replies' = Tail(replies)
      BY <1>9 DEF Receive
    <2>2. replies' \in Seq(Replies) /\ replies[1] \in Replies
      BY <2>1 DEF Typed
    <2>3. UNCHANGED <<values, defaults, calls, seen, wire, nfcc>>
      BY <1>9 DEF Receive
    <2>4. CASE replies[1].rsp
      <3>1. replies[1] \in Answers
        BY <2>2, <2>4 DEF Replies, ResetNtf
      <3>2. HandleResponse(replies[1])
        BY <1>9, <2>4 DEF Receive
      <3> QED BY <2>2, <2>3, <3>1, <3>2, ResponseTyped DEF Typed, Valid
    <2>5. CASE ~replies[1].rsp
      <3>1. HandleResetNtf
        BY <1>9, <2>5 DEF Receive
      <3> QED BY <2>2, <2>3, <3>1, NotificationTyped DEF Typed, Valid
    <2> QED BY <2>4, <2>5
  <1>10. CASE Timeout
    <2>1. Error(sar) /\ UNCHANGED <<values, defaults, calls, seen, link>>
      BY <1>10 DEF Timeout
    <2> QED BY <2>1, ErrorTyped DEF Typed, Valid, link
  <1>11. ASSUME NEW ok \in BOOLEAN, Perform(ok)
         PROVE  Typed'
    <2> DEFINE cmd == wire[1]
               a == Answer(cmd, ok)
               all == IF cmd.op = "RESET" /\ ok /\ nfcc.version = 2
                      THEN <<a, ResetNtf>> ELSE <<a>>
    <2>1. wire # << >>
      BY <1>11 DEF Perform
    <2>2. cmd \in Commands /\ Tail(wire) \in Seq(Commands)
      BY <2>1 DEF Typed
    <2>3. cmd.op \in Ops /\ cmd.gb \in Seq(Nat)
      BY <2>2 DEF Commands
    <2>4. a \in Answers
      BY <2>3 DEF Answer, Answers, Typed
    <2>5. wire' = Tail(wire)
      BY <1>11 DEF Perform
    <2>6. replies' = replies \o all
      BY <1>11 DEF Perform
    <2>7. nfcc' = IF cmd.op # "SET_CONFIG" THEN nfcc
                  ELSE IF ok THEN [nfcc EXCEPT !.gb = cmd.gb, !.refused = FALSE]
                  ELSE [nfcc EXCEPT !.refused = TRUE]
      BY <1>11 DEF Perform
    <2>8. all \in Seq(Replies)
      <3>1. a \in Replies /\ ResetNtf \in Replies
        BY <2>4 DEF Replies
      <3> HIDE DEF a
      <3> QED BY <3>1
    <2> HIDE DEF all
    <2>9. replies' \in Seq(Replies)
      BY <2>6, <2>8 DEF Typed
    <2> HIDE DEF cmd
    <2>10. nfcc' \in [version : {1, 2}, gb : Seq(Nat), refused : BOOLEAN]
      BY <2>3, <2>7 DEF Typed
    <2>11. UNCHANGED <<values, defaults, calls, seen, host>>
      BY <1>11 DEF Perform
    <2> QED BY <2>2, <2>5, <2>9, <2>10, <2>11 DEF Typed, Valid, host
  <1>12. CASE Lose
    <2>1. replies # << >> /\ replies' = Tail(replies)
      BY <1>12 DEF Lose
    <2>2. replies' \in Seq(Replies)
      BY <2>1 DEF Typed
    <2>3. UNCHANGED <<values, defaults, calls, seen, host, wire, nfcc>>
      BY <1>12 DEF Lose
    <2> QED BY <2>2, <2>3 DEF Typed, Valid, host
  <1> QED BY <1>1, <1>2, <1>3, <1>4, <1>5, <1>6, <1>7, <1>8, <1>9, <1>10, <1>11,
             <1>12 DEF Next, Client

-----------------------------------------------------------------------------
(***************************************************************************)
(* Announcements                                                           *)
(***************************************************************************)

\* What is not announced makes no difference to a listener (nci_nfcid1_equal
\* takes more than one NFCID1 for the same).
LEMMA EqualIsSame ==
  ASSUME NEW v, Valid(v), NEW w, Valid(w), NEW k \in Keys, Equal(k, v[k], w[k])
  PROVE  Same(k, v[k], w[k])
  <1>1. CASE k = "LA_NFCID1"
    <2> DEFINE x == v["LA_NFCID1"]
               y == w["LA_NFCID1"]
    <2>1. x \in Bytes /\ y \in Bytes
      BY DEF Valid
    <2>2. Nfcid1Equal(x, y)
      BY <1>1 DEF Equal
    <2> HIDE DEF x, y
    <2>3. CASE x.len = y.len /\ x.bytes = y.bytes
      <3>1. x = y
        BY <2>1, <2>3 DEF Bytes
      <3> QED BY <1>1, <3>1 DEF Same, x, y
    <2>4. CASE ~(x.len = y.len /\ x.bytes = y.bytes)
      <3>1. Dynamic(x) /\ Dynamic(y)
        BY <2>2, <2>4 DEF Nfcid1Equal, Dynamic
      <3> QED BY <1>1, <3>1 DEF Same, x, y
    <2> QED BY <2>3, <2>4
  <1>2. CASE k # "LA_NFCID1"
    BY <1>2 DEF Equal, Same
  <1> QED BY <1>1, <1>2

LEMMA ChangeTold ==
  ASSUME Typed, Told, NEW new, Valid(new), Change(values, new)
  PROVE  Told'
  <1> DEFINE keys == Changed(values, new)
             call == [keys |-> keys, running |-> FALSE]
  <1>1. values' = new /\ seen' = seen
    BY DEF Change
  <1>2. calls' = IF keys = {} THEN calls ELSE Append(calls, call)
    BY DEF Change
  <1>3. \A k \in Keys \ keys : Equal(k, values[k], new[k])
    BY DEF Changed
  <1>4. call.keys = keys
    OBVIOUS
  <1> HIDE DEF keys, call
  <1>5. \A i \in DOMAIN calls : i \in DOMAIN calls' /\ calls'[i] = calls[i]
    BY <1>2 DEF Typed
  <1>6. keys # {} => /\ Len(calls) + 1 \in DOMAIN calls'
                     /\ calls'[Len(calls) + 1] = call
    BY <1>2 DEF Typed
  <1> SUFFICES ASSUME NEW k \in Keys
               PROVE  \/ Same(k, seen'[k], values'[k])
                      \/ \E i \in DOMAIN calls' : k \in calls'[i].keys
    BY DEF Told
  <1>7. CASE k \in keys
    BY <1>4, <1>6, <1>7
  <1>8. CASE k \notin keys
    <2>1. Same(k, values[k], new[k])
      BY <1>3, <1>8, EqualIsSame DEF Typed
    <2>2. CASE Same(k, seen[k], values[k])
      <3>1. Same(k, seen[k], new[k])
        BY <2>1, <2>2 DEF Same
      <3> QED BY <1>1, <3>1
    <2>3. CASE \E i \in DOMAIN calls : k \in calls[i].keys
      BY <1>5, <2>3
    <2> QED BY <2>2, <2>3 DEF Told
  <1> QED BY <1>7, <1>8

LEMMA InitTold == Init => Told
  BY DEF Init, Told, Same

LEMMA NextTold ==
  ASSUME Typed, Told, [Next]_vars
  PROVE  Told'
  <1>1. ASSUME UNCHANGED <<values, calls, seen>> PROVE Told'
    BY <1>1 DEF Told
  <1>2. ASSUME NEW list \in Lists, NEW reset \in BOOLEAN, SetParams(list, reset)
        PROVE  Told'
    <2> DEFINE new == SetAll(IF reset THEN defaults ELSE values, list)
    <2>1. Valid(new)
      BY SetParamsSets
    <2>2. Change(values, new)
      BY <1>2 DEF SetParams
    <2> HIDE DEF new
    <2> QED BY <2>1, <2>2, ChangeTold
  <1>3. ASSUME NEW key \in Keys, ResetParam(key)
        PROVE  Told'
    <2> DEFINE new == [values EXCEPT ![key] = defaults[key]]
    <2>1. Valid(new)
      BY ResetParamSets
    <2>2. Change(values, new)
      BY <1>3 DEF ResetParam
    <2> HIDE DEF new
    <2> QED BY <2>1, <2>2, ChangeTold
  <1>4. CASE Emit
    <2>1. calls # << >> /\ UNCHANGED <<values, seen>>
      BY <1>4 DEF Emit
    <2>2. calls' = [calls EXCEPT ![Len(calls)] = [Top EXCEPT !.running = TRUE]]
      BY <1>4 DEF Emit, Top
    <2>3. [Top EXCEPT !.running = TRUE].keys = Top.keys
      BY <2>1, TopFacts DEF Calls
    <2>4. \A i \in DOMAIN calls : i \in DOMAIN calls' /\ calls'[i].keys = calls[i].keys
      BY <2>1, <2>2, <2>3, TopFacts DEF Top
    <2> QED BY <2>1, <2>4 DEF Told
  <1>5. CASE Listen
    <2> DEFINE key == First(Top.keys)
               call == [keys |-> Top.keys \ {key}, running |-> FALSE]
    <2>1. calls # << >> /\ UNCHANGED values
      BY <1>5 DEF Listen
    <2>2. calls' = [calls EXCEPT ![Len(calls)] = call]
      BY <1>5 DEF Listen
    <2>3. seen' = [seen EXCEPT ![key] = values[key]]
      BY <1>5 DEF Listen
    <2>4. call.keys = Top.keys \ {key}
      OBVIOUS
    <2> HIDE DEF key, call
    <2>5. \A i \in DOMAIN calls : /\ i \in DOMAIN calls'
                                  /\ calls[i].keys \ {key} \subseteq calls'[i].keys
      BY <2>1, <2>2, <2>4, TopFacts DEF Top
    <2>6. \A k \in Keys : seen'[k] = IF k = key THEN values[k] ELSE seen[k]
      BY <2>3 DEF Typed
    <2> QED BY <2>1, <2>5, <2>6 DEF Told, Same
  <1>6. CASE Return
    <2>1. calls # << >> /\ Top.keys = {} /\ UNCHANGED <<values, seen>>
      BY <1>6 DEF Return
    <2>2. calls' = SubSeq(calls, 1, Len(calls) - 1)
      BY <1>6 DEF Return
    <2>3. \A i \in DOMAIN calls : i # Len(calls) => /\ i \in DOMAIN calls'
                                                    /\ calls'[i] = calls[i]
      BY <2>1, <2>2, TopFacts DEF Typed
    <2> QED BY <2>1, <2>3 DEF Told, Top
  <1> QED BY <1>1, <1>2, <1>3, <1>4, <1>5, <1>6
          DEF Next, Client, vars, Restart, StartWrite, WriteCompleted, Receive, Timeout,
              Perform, Lose

(***************************************************************************)
(* Whatever clients ask for, and however they do it in the middle of the   *)
(* signals of another call, struct nci_sm has parameters that the NFCC can *)
(* be given, if the program starts with its configuration file at all.     *)
(***************************************************************************)
THEOREM TypeCorrect == Spec => []TypeOK
  <1>1. Typed => TypeOK
    BY DEF Typed, Valid, TypeOK, Ops, States, SarOK
  <1> QED BY <1>1, InitTyped, NextTyped, PTL DEF Spec

(***************************************************************************)
(* A client that reads a parameter whenever it is told of its change has   *)
(* the current values when the outermost nci_core_set_params or            *)
(* nci_core_reset_param returns, for lists of any length and calls nested  *)
(* to any depth.                                                           *)
(***************************************************************************)
THEOREM ListenersAreTold == Spec => []ListenersAreUpToDate
  <1>1. Told => ListenersAreUpToDate
    BY DEF Told, Same, ListenersAreUpToDate
  <1> QED BY <1>1, InitTyped, NextTyped, InitTold, NextTold, PTL DEF Spec

-----------------------------------------------------------------------------
(***************************************************************************)
(* The LLCP parameters                                                     *)
(***************************************************************************)

\* GeneralBytes is all of the parameters that the NFCC gets.
LEMMA GeneralBytesSame ==
  ASSUME UNCHANGED <<values["LLC_VERSION"], values["LLC_WKS"]>>
  PROVE  UNCHANGED <<GeneralBytes, SetConfigCommand>>
  BY DEF GeneralBytes, SetConfigCommand

LEMMA InformedSame ==
  ASSUME Informed, UNCHANGED <<Pipe, nfcc, GeneralBytes, SetConfigCommand>>
  PROVE  Informed'
  BY DEF Informed, NotIn

\* The first command on the wire is the first one of all.
LEMMA PipeTail ==
  ASSUME Typed, wire # << >>, wire' = Tail(wire), UNCHANGED sar
  PROVE  /\ Pipe \in Seq(Commands) /\ Pipe # << >>
         /\ Pipe' = Tail(Pipe)
         /\ Pipe[1] = wire[1]
  <1> DEFINE out == sar.out
  <1>1. wire \in Seq(Commands) /\ out \in Seq(Commands)
    BY DEF Typed, SarOK, Sars
  <1> HIDE DEF out
  <1>2. Pipe \in Seq(Commands) /\ Len(Pipe) = Len(wire) + Len(out)
    BY <1>1 DEF Pipe, out
  <1>3. Tail(wire) \o out = Tail(wire \o out)
    <2> DEFINE a == Tail(wire) \o out
               b == Tail(wire \o out)
    <2>1. Len(wire) \in Nat /\ Len(wire) > 0 /\ Len(out) \in Nat
      BY <1>1
    <2>2. Len(a) = Len(wire) - 1 + Len(out) /\ Len(b) = Len(wire) + Len(out) - 1
      BY <1>1
    <2>3. a \in Seq(Commands) /\ b \in Seq(Commands)
      BY <1>1
    <2>4. \A i \in 1 .. Len(a) : a[i] = b[i]
      BY <1>1, <2>2
    <2> HIDE DEF a, b
    <2>5. a = b
      BY <2>1, <2>2, <2>3, <2>4
    <2> QED BY <2>5 DEF a, b
  <1> QED BY <1>1, <1>2, <1>3 DEF Pipe, out

LEMMA InformedByPerform ==
  ASSUME Typed, Informed, NEW ok \in BOOLEAN, Perform(ok)
  PROVE  Informed'
  <1> DEFINE cmd == wire[1]
             p == Pipe
             t == Pipe'
  <1>1. wire # << >> /\ wire' = Tail(wire) /\ UNCHANGED sar /\ values' = values
    BY DEF Perform, host
  <1>2. /\ p \in Seq(Commands) /\ p # << >> /\ t = Tail(p) /\ p[1] = cmd
    BY <1>1, PipeTail
  <1>3. nfcc' = IF cmd.op # "SET_CONFIG" THEN nfcc
                ELSE IF ok THEN [nfcc EXCEPT !.gb = cmd.gb, !.refused = FALSE]
                ELSE [nfcc EXCEPT !.refused = TRUE]
    BY DEF Perform
  <1>4. UNCHANGED <<GeneralBytes, SetConfigCommand>>
    BY <1>1, GeneralBytesSame
  <1>5. /\ Len(p) \in Nat /\ Len(p) > 0
        /\ DOMAIN p = 1 .. Len(p) /\ DOMAIN t = 1 .. Len(p) - 1
        /\ \A i \in DOMAIN t : t[i] = p[i + 1]
    BY <1>2
  <1> HIDE DEF cmd, p, t
  <1>6. CASE \E j \in DOMAIN p : /\ p[j] = SetConfigCommand
                                 /\ \A i \in DOMAIN p : i > j => NotIn(p, i)
    <2>1. PICK j \in DOMAIN p : /\ p[j] = SetConfigCommand
                                /\ \A i \in DOMAIN p : i > j => NotIn(p, i)
      BY <1>6
    <2>2. CASE j = 1
      <3>1. cmd = SetConfigCommand
        BY <1>2, <2>1, <2>2
      <3>2. cmd.op = "SET_CONFIG" /\ cmd.gb = GeneralBytes
        BY <3>1 DEF SetConfigCommand
      <3>3. nfcc'.refused \/ nfcc'.gb = GeneralBytes
        BY <1>3, <3>2 DEF Typed
      <3>4. \A i \in DOMAIN t : NotIn(t, i)
        BY <1>5, <2>1, <2>2 DEF NotIn
      <3> QED BY <1>4, <3>3, <3>4 DEF Informed, NotIn, t
    <2>3. CASE j # 1
      <3>1. j - 1 \in DOMAIN t /\ t[j - 1] = SetConfigCommand
        BY <1>5, <2>1, <2>3
      <3>2. \A i \in DOMAIN t : i > j - 1 => NotIn(t, i)
        BY <1>5, <2>1 DEF NotIn
      <3> QED BY <1>4, <3>1, <3>2 DEF Informed, NotIn, t
    <2> QED BY <2>2, <2>3
  <1>7. CASE /\ \A i \in DOMAIN p : NotIn(p, i)
             /\ nfcc.refused \/ nfcc.gb = GeneralBytes
    <2>1. cmd.op # "SET_CONFIG"
      BY <1>2, <1>5, <1>7 DEF NotIn
    <2>2. nfcc' = nfcc
      BY <1>3, <2>1
    <2>3. \A i \in DOMAIN t : NotIn(t, i)
      BY <1>5, <1>7 DEF NotIn
    <2> QED BY <1>4, <1>7, <2>2, <2>3 DEF Informed, NotIn, t
  <1> QED BY <1>6, <1>7 DEF Informed, p

\* A change that is not announced is not one of the LLCP parameters.
LEMMA ChangeGiven ==
  ASSUME Typed, Idle, Given, NEW new, Valid(new), Change(values, new)
  PROVE  Idle' /\ Given'
  <1> DEFINE keys == Changed(values, new)
             call == [keys |-> keys, running |-> FALSE]
  <1>1. values' = new /\ UNCHANGED <<host, link>>
    BY DEF Change
  <1>2. calls' = IF keys = {} THEN calls ELSE Append(calls, call)
    BY DEF Change
  <1>3. \A k \in Keys \ keys : Equal(k, values[k], new[k])
    BY DEF Changed
  <1> HIDE DEF keys, call
  <1>4. Idle'
    BY <1>1 DEF Idle, host
  <1>5. CASE keys = {}
    <2>1. calls' = calls
      BY <1>2, <1>5
    <2>2. new["LLC_VERSION"] = values["LLC_VERSION"] /\ new["LLC_WKS"] = values["LLC_WKS"]
      BY <1>3, <1>5, KeysAre DEF Equal
    <2>3. UNCHANGED <<GeneralBytes, SetConfigCommand>>
      BY <1>1, <2>2, GeneralBytesSame
    <2>4. UNCHANGED <<Pipe, nfcc>>
      BY <1>1 DEF Pipe, host, link
    <2>5. UNCHANGED sm
      BY <1>1 DEF host
    <2> QED BY <1>4, <2>1, <2>3, <2>4, <2>5, InformedSame DEF Given
  <1>6. CASE keys # {}
    <2>1. calls \in Seq(Calls) /\ calls' = Append(calls, call)
      BY <1>2, <1>6 DEF Typed
    <2>2. Len(calls') = Len(calls) + 1 /\ Len(calls) \in Nat
      BY <2>1
    <2>3. Len(<< >>) = 0
      OBVIOUS
    <2>4. calls' # << >>
      BY <2>2, <2>3
    <2> QED BY <1>4, <2>4 DEF Given
  <1> QED BY <1>5, <1>6

LEMMA InitGiven == Init => Idle /\ Given
  BY DEF Init, Idle, Given, None

\* What comes last in the queue is the last one of all.
LEMMA SentLast ==
  ASSUME Typed, NEW front \in Seq(Commands),
         sar'.out = Append(front, SetConfigCommand), UNCHANGED <<wire, values>>
  PROVE  Informed'
  <1> DEFINE c == SetConfigCommand
             p == Pipe'
             q == Append(front, c)
  <1>1. SetConfigCommand' = c
    BY GeneralBytesSame
  <1>2. p = wire \o q
    BY DEF Pipe
  <1>3. wire \in Seq(Commands) /\ c \in Commands
    BY CommandFacts DEF Typed
  <1> HIDE DEF c, p
  <1>4. q \in Seq(Commands) /\ q # << >> /\ q[Len(q)] = c
    BY <1>3
  <1> HIDE DEF q
  <1>5. \E j \in DOMAIN p : p[j] = q[Len(q)] /\ \A i \in DOMAIN p : ~ (i > j)
    BY <1>2, <1>3, <1>4, LastIsLast
  <1> QED BY <1>1, <1>4, <1>5 DEF Informed, p

LEMMA NextGiven ==
  ASSUME Typed, Idle, Given, [Next]_vars
  PROVE  Idle' /\ Given'
  <1>1. ASSUME UNCHANGED <<values, calls, host, link>> PROVE Idle' /\ Given'
    <2>1. UNCHANGED <<GeneralBytes, SetConfigCommand>>
      BY <1>1, GeneralBytesSame
    <2>2. UNCHANGED <<Pipe, nfcc, sm, calls>>
      BY <1>1 DEF Pipe, host, link
    <2> QED BY <2>1, <2>2, InformedSame DEF Given, Idle
  <1>2. ASSUME RestartInternal PROVE Idle' /\ Given'
    BY <1>2, RestartTyped DEF Idle, Given
  <1>3. ASSUME NEW list \in Lists, NEW reset \in BOOLEAN, SetParams(list, reset)
        PROVE  Idle' /\ Given'
    <2> DEFINE new == SetAll(IF reset THEN defaults ELSE values, list)
    <2>1. Valid(new)
      BY SetParamsSets
    <2>2. Change(values, new)
      BY <1>3 DEF SetParams
    <2> HIDE DEF new
    <2> QED BY <2>1, <2>2, ChangeGiven
  <1>4. ASSUME NEW key \in Keys, ResetParam(key)
        PROVE  Idle' /\ Given'
    <2> DEFINE new == [values EXCEPT ![key] = defaults[key]]
    <2>1. Valid(new)
      BY ResetParamSets
    <2>2. Change(values, new)
      BY <1>4 DEF ResetParam
    <2> HIDE DEF new
    <2> QED BY <2>1, <2>2, ChangeGiven
  <1>5. ASSUME calls # << >>, Len(calls') = Len(calls), UNCHANGED host
        PROVE  Idle' /\ Given'
    <2>1. calls' # << >>
      BY <1>5, TopFacts
    <2> QED BY <1>5, <2>1 DEF Idle, Given, host
  <1>6. CASE Emit
    <2>1. Len(calls') = Len(calls)
      BY <1>6 DEF Emit, Typed
    <2> QED BY <1>5, <1>6, <2>1 DEF Emit
  <1>7. CASE Listen
    <2> DEFINE key == First(Top.keys)
               call == [keys |-> Top.keys \ {key}, running |-> FALSE]
    <2>1. calls' = [calls EXCEPT ![Len(calls)] = call]
      BY <1>7 DEF Listen
    <2> HIDE DEF call
    <2>2. Len(calls') = Len(calls)
      BY <2>1 DEF Typed
    <2> QED BY <1>5, <1>7, <2>2 DEF Listen
  <1>8. CASE Return
    BY <1>2, <1>8 DEF Return
  <1>9. CASE StartWrite \/ WriteCompleted
    <2>1. UNCHANGED <<values, calls, sm, nfcc, Pipe>>
      BY <1>9, WriteTyped
    <2>2. UNCHANGED <<GeneralBytes, SetConfigCommand>>
      BY <2>1, GeneralBytesSame
    <2> QED BY <2>1, <2>2, InformedSame DEF Given, Idle
  <1>10. CASE Receive
    <2>1. replies # << >> /\ UNCHANGED <<values, calls, wire, nfcc>>
      BY <1>10 DEF Receive
    <2>2. replies[1] \in Replies
      BY <2>1 DEF Typed
    <2>3. ASSUME sar'.out = sar.out PROVE UNCHANGED <<Pipe, GeneralBytes, SetConfigCommand>>
      BY <2>1, <2>3, GeneralBytesSame DEF Pipe
    <2>4. ASSUME UNCHANGED host PROVE Idle' /\ Given'
      BY <2>1, <2>3, <2>4, InformedSame DEF Given, Idle, host
    <2>5. CASE replies[1].rsp
      <3>1. replies[1] \in Answers
        BY <2>2, <2>5 DEF Replies, ResetNtf
      <3>2. HandleResponse(replies[1])
        BY <1>10, <2>5 DEF Receive
      <3>3. CASE /\ sm.wait = "SET_CONFIG" /\ sar'.out = sar.out
                 /\ sm'.state = "IDLE" /\ sm'.wait = None /\ ~sm'.trans
        BY <2>1, <2>3, <3>3, InformedSame DEF Given, Idle
      <3>4. CASE sm'.state = "ERROR" /\ sm'.wait = None
        BY <3>4 DEF Given, Idle, None
      <3>5. CASE /\ sm.wait = "INIT" /\ sm'.state = sm.state
                 /\ sm'.wait = "SET_CONFIG"
                 /\ \E front \in Seq(Commands) :
                       sar'.out = Append(front, SetConfigCommand)
        BY <2>1, <3>5, SentLast DEF Given, Idle, None
      <3>6. CASE /\ sm.wait = "RESET" /\ sm'.state = sm.state
                 /\ sm'.wait \in {None, "INIT"}
        BY <3>6 DEF Given, Idle, None
      <3> QED BY <2>4, <3>1, <3>2, <3>3, <3>4, <3>5, <3>6, ResponseTyped
    <2>6. CASE ~replies[1].rsp
      <3>1. HandleResetNtf
        BY <1>10, <2>6 DEF Receive
      <3>2. CASE sm.trans /\ sm'.state = sm.state /\ sm'.wait = "INIT"
        BY <3>2 DEF Given, Idle
      <3> QED BY <2>4, <3>1, <3>2, NotificationTyped
    <2> QED BY <2>5, <2>6
  <1>11. CASE Timeout
    BY <1>11, ErrorTyped DEF Timeout, Idle, Given, None, Typed
  <1>12. ASSUME NEW ok \in BOOLEAN, Perform(ok)
         PROVE  Idle' /\ Given'
    <2>1. UNCHANGED <<sm, calls>>
      BY <1>12 DEF Perform, host
    <2> QED BY <1>12, <2>1, InformedByPerform DEF Given, Idle
  <1>13. CASE Lose
    <2>1. UNCHANGED <<values, calls, sm, sar, wire, nfcc>>
      BY <1>13 DEF Lose, host
    <2>2. UNCHANGED <<GeneralBytes, SetConfigCommand>>
      BY <2>1, GeneralBytesSame
    <2> QED BY <2>1, <2>2, InformedSame DEF Given, Idle, Pipe
  <1> QED BY <1>1, <1>2, <1>3, <1>4, <1>6, <1>7, <1>8, <1>9, <1>10, <1>11, <1>12,
             <1>13 DEF Next, Client, vars, Restart, host, link

(***************************************************************************)
(* Once the NFCC has been reset and has got every command, it has the      *)
(* current LLCP parameters or has refused them, whatever was restarted,    *)
(* lost, late or taken for the answer to another command on the way.       *)
(***************************************************************************)
THEOREM NfccIsGivenLlcParams == Spec => []NfccHasLlcParams
  <1>1. Typed /\ Given => NfccHasLlcParams
    <2> SUFFICES ASSUME Typed, Given, sm.state = "IDLE", calls = << >>,
                        sar.out = << >>, wire = << >>, ~nfcc.refused
                 PROVE  /\ nfcc.gb[1] = values["LLC_VERSION"]
                        /\ nfcc.gb[2] * 256 + nfcc.gb[3] = values["LLC_WKS"]
      BY DEF NfccHasLlcParams
    <2>1. Informed
      BY DEF Given
    <2>2. Pipe = << >>
      BY DEF Pipe
    <2>3. nfcc.gb = GeneralBytes
      BY <2>1, <2>2 DEF Informed
    <2> DEFINE w == values["LLC_WKS"]
    <2>4. w \in Nat
      BY DEF Typed, Valid
    <2>5. /\ GeneralBytes[1] = values["LLC_VERSION"]
          /\ GeneralBytes[2] = w \div 256 /\ GeneralBytes[3] = w % 256
      BY DEF GeneralBytes
    <2> HIDE DEF w
    <2> DEFINE b == w \div 256
               c == w % 256
    <2>6. b \in Nat /\ c \in Nat /\ w = 256 * b + c
      BY <2>4
    <2>7. nfcc.gb[2] = b /\ nfcc.gb[3] = c
      BY <2>3, <2>5
    <2> HIDE DEF b, c
    <2>8. nfcc.gb[2] * 256 + nfcc.gb[3] = w
      BY <2>6, <2>7
    <2> QED BY <2>3, <2>5, <2>8 DEF w
  <1> QED BY <1>1, InitTyped, NextTyped, InitGiven, NextGiven, PTL DEF Spec

=============================================================================
