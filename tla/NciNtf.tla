------------------------------- MODULE NciNtf -------------------------------
(***************************************************************************)
(* RF_DISCOVER_NTF and RF_INTF_ACTIVATED_NTF: how nci_util.c takes them    *)
(* apart and copies what has to be kept, and which one of the announced    *)
(* targets W4_HOST_SELECT asks for.                                        *)
(*                                                                         *)
(* A parsed notification does not own its bytes. It points into the        *)
(* receive buffer of the SAR, which the next packet overwrites. Those who  *)
(* keep a notification make a copy in one block of memory: an array of     *)
(* structures, the bytes that they point to behind them, everything        *)
(* aligned. Targets are copied when they are announced, again by the state *)
(* that collects them and once more, together, when the last one is known. *)
(*                                                                         *)
(* The packets are well-formed, or cut short. Who handles a notification   *)
(* in which state is the subject of module NciSm.                          *)
(***************************************************************************)
EXTENDS Integers, Sequences, SequencesExt

CONSTANTS
    Setups,       \* sizes of structures on a platform, and an op_mode
    Targets,      \* RF_DISCOVER_NTFs that the NFCC sends
    Activations,  \* RF_INTF_ACTIVATED_NTFs that the NFCC sends
    Others,       \* other packets
    Cuts,         \* numbers of bytes that a packet may be short of
    MaxTargets    \* bound: targets of a round

ASSUME NtfAssumption ==
    /\ Setups \subseteq [build : [ntf : Nat \ {0}, mode : Nat \ {0},
                                  activation : Nat \ {0}],
                         op_mode : SUBSET {"RW", "PEER", "CE"}]
    /\ \A t \in Targets : /\ {t.id, t.protocol, t.tech.mode, t.type} \subseteq Nat
                          /\ t.tech.bytes \in Seq(Nat)
    /\ \A a \in Activations :
          /\ {a.id, a.intf, a.protocol, a.tech.mode, a.size, a.credits} \subseteq Nat
          /\ {a.tech.bytes, a.exchange, a.param.bytes} \subseteq Seq(Nat)
    /\ Cuts \subseteq Nat
    /\ MaxTargets \in Nat

VARIABLES
    build,        \* what the program is compiled for
    op_mode,      \* NciSm.op_mode
    buffer,       \* the packet that is in the receive buffer
    discoveries,  \* NciStateW4AllDiscoveries.discoveries
    select,       \* the array that W4_HOST_SELECT is being entered with
    command,      \* RF_DISCOVER_SELECT_CMD that it sends, if any
    kept,         \* copies of parameters, of a client with an active target
    told          \* observes: what the NFCC has announced, whole

vars == <<build, op_mode, buffer, discoveries, select, command, kept, told>>

-----------------------------------------------------------------------------
(***************************************************************************)
(* Modes, interfaces and protocols, by their codes                         *)
(***************************************************************************)
PASSIVE_POLL_A == 0
PASSIVE_POLL_B == 1
PASSIVE_POLL_F == 2
ACTIVE_POLL_A == 3
ACTIVE_POLL_F == 5
PASSIVE_POLL_V == 6
PASSIVE_LISTEN_A == 128
PASSIVE_LISTEN_B == 129
PASSIVE_LISTEN_F == 130
ACTIVE_LISTEN_A == 131
ACTIVE_LISTEN_F == 133
PASSIVE_LISTEN_V == 134

PollA == {PASSIVE_POLL_A, ACTIVE_POLL_A}
PollF == {PASSIVE_POLL_F, ACTIVE_POLL_F}
ListenA == {PASSIVE_LISTEN_A, ACTIVE_LISTEN_A}
ListenF == {PASSIVE_LISTEN_F, ACTIVE_LISTEN_F}

FRAME == 1
ISO_DEP == 2
NFC_DEP == 3

PROTOCOL_T2T == 2
PROTOCOL_ISO_DEP == 4
PROTOCOL_NFC_DEP == 5
PROTOCOL_T5T == 6

-----------------------------------------------------------------------------
(***************************************************************************)
(* Memory. A pointer with a length (GUtilData) leads nowhere, into the     *)
(* receive buffer or into the block that it is itself a part of. A parsed  *)
(* parameter is a structure with at most one of them; NULL is `Nothing`.   *)
(***************************************************************************)
Null == [mem |-> "null", off |-> 0, len |-> 0]
InBuffer(off, len) == [mem |-> "buffer", off |-> off, len |-> len]
InBlock(off, len) == [mem |-> "block", off |-> off, len |-> len]
BytesOf(off, len) == IF len > 0 THEN InBuffer(off, len) ELSE Null

Struct(fields, data) == [fields |-> fields, data |-> data]
Nothing == Struct([null |-> TRUE], Null)

\* A block is its size and the parts of it that have been written. Structures
\* are written, too; what is in them does not matter here.
Part(off, bytes) == [off |-> off, len |-> Len(bytes), bytes |-> bytes]
StructPart(off, len) == [off |-> off, len |-> len, bytes |-> << >>]

\* What a pointer leads to, in a memory that consists of the receive buffer
\* and the parts of a block. Bytes that nobody has written are zero, and the
\* receive buffer may have become shorter than it was.
Memory(pkt, parts) == [buffer |-> pkt, parts |-> parts]
Read(data, mem) ==
    LET at(off) == {p \in ToSet(mem.parts) :
                        p.bytes # << >> /\ off \in p.off .. p.off + p.len - 1}
        byte(off) == IF data.mem = "buffer"
                     THEN IF off < Len(mem.buffer) THEN mem.buffer[off + 1] ELSE 0
                     ELSE IF at(off) = {} THEN 0
                     ELSE LET p == CHOOSE p \in at(off) : TRUE
                          IN  p.bytes[off - p.off + 1]
    IN  [i \in 1 .. data.len |-> byte(data.off + i - 1)]

Align8(n) == ((n + 7) \div 8) * 8

-----------------------------------------------------------------------------
(***************************************************************************)
(* Parsers. They look at `len` bytes of the buffer, starting at `o`.       *)
(***************************************************************************)
Byte(pkt, i) == pkt[i + 1]
Bytes(pkt, i, n) == SubSeq(pkt, i + 1, i + n)
Bit(byte, n) == (byte \div n) % 2 = 1

\* FSCI to FSC and FSDI to FSD
FrameSize(i) == IF i < 9 THEN <<16, 24, 32, 40, 48, 64, 96, 128, 256>>[i + 1]
                ELSE 256

PollAParam(pkt, o, len) ==
    LET n == Byte(pkt, o + 2)
        m == Byte(pkt, o + n + 3)
    IN  IF len >= 4 /\ n <= 10 /\ len >= n + 4 /\ len >= n + 4 + m
        THEN Struct([sens_res |-> Bytes(pkt, o, 2),
                     nfcid1 |-> Bytes(pkt, o + 3, n),
                     sel_res_len |-> m,
                     sel_res |-> IF m > 0 THEN Byte(pkt, o + n + 4) ELSE 0], Null)
        ELSE Nothing

PollBParam(pkt, o, len) ==
    LET n == Byte(pkt, o)
    IN  IF len >= 1 /\ n >= 11
        THEN Struct([nfcid0 |-> Bytes(pkt, o + 1, 4),
                     fsc |-> FrameSize(Byte(pkt, o + 10) \div 16),
                     app_data |-> Bytes(pkt, o + 5, 4)],
                    InBuffer(o + 9, n - 8))
        ELSE Nothing

PollFParam(pkt, o, len) ==
    IF len > 1 /\ Byte(pkt, o + 1) >= 8 /\ Byte(pkt, o + 1) + 2 <= len
    THEN Struct([bitrate |-> Byte(pkt, o), nfcid2 |-> Bytes(pkt, o + 2, 8)], Null)
    ELSE Nothing

ListenFParam(pkt, o, len) ==
    LET n == Byte(pkt, o)
    IN  IF len > 0 /\ n + 1 <= len /\ n \in {0, 8}
        THEN Struct([listen_f |-> TRUE], BytesOf(o + 1, n))
        ELSE Nothing

PollVParam(pkt, o, len) ==
    IF len >= 10
    THEN Struct([res_flag |-> Byte(pkt, o), dsfid |-> Byte(pkt, o + 1),
                 uid |-> Bytes(pkt, o + 2, 8)], Null)
    ELSE Nothing

\* nci_parse_mode_param
ModeParam(mode, pkt, o, len) ==
    CASE mode \in PollA -> PollAParam(pkt, o, len)
      [] mode = PASSIVE_POLL_B -> PollBParam(pkt, o, len)
      [] mode \in PollF -> PollFParam(pkt, o, len)
      [] mode \in ListenF -> ListenFParam(pkt, o, len)
      [] mode = PASSIVE_POLL_V -> PollVParam(pkt, o, len)
      [] OTHER -> Nothing

\* Mutant: TA is expected whether T0 announces it or not.
IsoDepPollAParamFixed(pkt, o, len) ==
    LET n == Byte(pkt, o)
    IN  IF n >= 2 /\ len >= n + 1
        THEN Struct([t0 |-> Byte(pkt, o + 1), fsc |-> FrameSize(Byte(pkt, o + 1) % 16),
                     ta |-> Byte(pkt, o + 2), tb |-> 0, tc |-> 0],
                    BytesOf(o + 3, n - 2))
        ELSE Nothing

\* The ATS: T0 says which of TA, TB and TC are there; the rest is T1 to Tk.
IsoDepPollAParam(pkt, o, len) ==
    LET n == Byte(pkt, o)
        t0 == Byte(pkt, o + 1)
        ta == o + 2
        tb == ta + (IF Bit(t0, 16) THEN 1 ELSE 0)
        tc == tb + (IF Bit(t0, 32) THEN 1 ELSE 0)
        t1 == tc + (IF Bit(t0, 64) THEN 1 ELSE 0)
        end == o + 1 + n
        opt(bit, at) == IF Bit(t0, bit) THEN Byte(pkt, at) ELSE 0
    IN  IF n >= 1 /\ len >= n + 1 /\ t1 <= end
        THEN Struct([t0 |-> t0, fsc |-> FrameSize(t0 % 16), ta |-> opt(16, ta),
                     tb |-> opt(32, tb), tc |-> opt(64, tc)],
                    BytesOf(t1, end - t1))
        ELSE Nothing

IsoDepListenAParam(pkt, o, len) ==
    IF len > 0
    THEN Struct([fsd |-> FrameSize(Byte(pkt, o) \div 16),
                 did |-> Byte(pkt, o) % 16], Null)
    ELSE Nothing

IsoDepPollBParam(pkt, o, len) ==
    LET n == Byte(pkt, o)
    IN  IF n >= 1
        THEN Struct([mbli |-> Byte(pkt, o + 1) \div 16, did |-> Byte(pkt, o + 1) % 16],
                    BytesOf(o + 2, n - 1))
        ELSE Nothing

IsoDepListenBParam(pkt, o, len) ==
    LET n == Byte(pkt, o)
    IN  IF n >= 8 /\ len > n
        THEN Struct([nfcid0 |-> Bytes(pkt, o + 1, 4), param |-> Bytes(pkt, o + 5, 4)],
                    BytesOf(o + 9, n - 8))
        ELSE Nothing

\* ATR_RES and ATR_REQ, without the general bytes. TO is in the former only.
NfcDepPollParam(pkt, o, len) ==
    LET n == Byte(pkt, o)
    IN  IF n >= 15 /\ len >= n + 1
        THEN Struct([nfcid3 |-> Bytes(pkt, o + 1, 10), did |-> Byte(pkt, o + 11),
                     bs |-> Byte(pkt, o + 12), br |-> Byte(pkt, o + 13),
                     to |-> Byte(pkt, o + 14), pp |-> Byte(pkt, o + 15)],
                    BytesOf(o + 16, n - 15))
        ELSE Nothing

NfcDepListenParam(pkt, o, len) ==
    LET n == Byte(pkt, o)
    IN  IF n >= 14 /\ len >= n + 1
        THEN Struct([nfcid3 |-> Bytes(pkt, o + 1, 10), did |-> Byte(pkt, o + 11),
                     bs |-> Byte(pkt, o + 12), br |-> Byte(pkt, o + 13),
                     pp |-> Byte(pkt, o + 14)],
                    BytesOf(o + 15, n - 14))
        ELSE Nothing

\* nci_parse_activation_param
ActivationParam(intf, mode, pkt, o, len) ==
    CASE intf = ISO_DEP /\ mode \in PollA -> IsoDepPollAParam(pkt, o, len)
      [] intf = ISO_DEP /\ mode \in ListenA -> IsoDepListenAParam(pkt, o, len)
      [] intf = ISO_DEP /\ mode = PASSIVE_POLL_B -> IsoDepPollBParam(pkt, o, len)
      [] intf = ISO_DEP /\ mode = PASSIVE_LISTEN_B -> IsoDepListenBParam(pkt, o, len)
      [] intf = NFC_DEP /\ mode \in PollA \cup PollF -> NfcDepPollParam(pkt, o, len)
      [] intf = NFC_DEP /\ mode \in ListenA \cup ListenF ->
            NfcDepListenParam(pkt, o, len)
      [] OTHER -> Nothing

Failed == [ok |-> FALSE]

\* Mutant: the last byte may be missing.
ParseDiscoverNtfShort(pkt) ==
    LET n == Byte(pkt, 3)
    IN  IF Len(pkt) >= 4 /\ Len(pkt) >= 4 + n
        THEN [ok |-> TRUE, id |-> Byte(pkt, 0), protocol |-> Byte(pkt, 1),
              mode |-> Byte(pkt, 2), bytes |-> BytesOf(4, n),
              param |-> IF n > 0 THEN ModeParam(Byte(pkt, 2), pkt, 4, n) ELSE Nothing,
              last |-> Len(pkt) = 4 + n \/ Byte(pkt, 4 + n) # 2]
        ELSE Failed

\* nci_parse_discover_ntf
ParseDiscoverNtf(pkt) ==
    LET n == Byte(pkt, 3)
    IN  IF Len(pkt) >= 5 /\ Len(pkt) >= 5 + n
        THEN [ok |-> TRUE, id |-> Byte(pkt, 0), protocol |-> Byte(pkt, 1),
              mode |-> Byte(pkt, 2), bytes |-> BytesOf(4, n),
              param |-> IF n > 0 THEN ModeParam(Byte(pkt, 2), pkt, 4, n) ELSE Nothing,
              last |-> Byte(pkt, 4 + n) # 2]
        ELSE Failed

\* nci_parse_intf_activated_ntf: the head is the discovery id, the interface,
\* the protocol, the mode, the size of data packets and the credits.
ParseIntfActivatedNtf(pkt) ==
    LET n == Byte(pkt, 6)
        m == IF Len(pkt) > 10 + n THEN Byte(pkt, 10 + n) ELSE 0
        intf == Byte(pkt, 1)
        mode == Byte(pkt, 3)
    IN  IF Len(pkt) > 6 /\ Len(pkt) >= 11 + n + m
        THEN [ok |-> TRUE, head |-> Bytes(pkt, 0, 6),
              exchange |-> Bytes(pkt, 7 + n, 3),
              mode_param |->
                IF n > 0 THEN ModeParam(mode, pkt, 7, n) ELSE Nothing,
              activation_param |->
                IF m > 0 THEN ActivationParam(intf, mode, pkt, 11 + n, m)
                ELSE Nothing]
        ELSE Failed

-----------------------------------------------------------------------------
(***************************************************************************)
(* Copies. A source is a structure with the memory that it points into.    *)
(***************************************************************************)
CopiedModes == PollA \cup PollF \cup ListenF \cup {PASSIVE_POLL_B, PASSIVE_POLL_V}
ModesWithData == ListenF \cup {PASSIVE_POLL_B}

\* nci_mode_param_size
ModeParamSize(param, mode) ==
    IF param = Nothing \/ mode \notin CopiedModes THEN 0
    ELSE IF mode \in ModesWithData /\ param.data.len > 0
         THEN Align8(build.mode) + Align8(param.data.len)
         ELSE build.mode

\* Mutant: the copy points to where the original does.
ModeParamCopyShallow(param, mode, mem, at) ==
    [size |-> build.mode, param |-> param, parts |-> <<StructPart(at, build.mode)>>]

\* nci_mode_param_copy_impl, to the place `at` of a block
ModeParamCopy(param, mode, mem, at) ==
    LET far == Align8(build.mode)
        struct == StructPart(at, build.mode)
    IN  IF mode \notin CopiedModes THEN [size |-> 0, param |-> Nothing, parts |-> << >>]
        ELSE IF mode \in ModesWithData /\ param.data # Null
             THEN [size |-> far + Align8(param.data.len),
                   param |-> [param EXCEPT !.data = InBlock(at + far, param.data.len)],
                   parts |-> <<struct, Part(at + far, Read(param.data, mem))>>]
             ELSE [size |-> build.mode, param |-> param, parts |-> <<struct>>]

\* One element of the array: the structure itself is at `at`, what it points
\* to is copied to `ptr`.
NtfCopy(src, at, ptr) ==
    LET ntf == src.struct
        struct == StructPart(at, build.ntf)
        bytes == Part(ptr, Read(ntf.bytes, src.mem))
        past == ptr + Align8(ntf.bytes.len)
        param == ModeParamCopy(ntf.param, ntf.mode, src.mem, past)
    IN  IF ntf.bytes.len = 0
        THEN [entry |-> ntf, end |-> ptr, parts |-> <<struct>>]
        ELSE IF ntf.param = Nothing
        THEN [entry |-> [ntf EXCEPT !.bytes = InBlock(ptr, ntf.bytes.len)],
              end |-> past, parts |-> <<struct, bytes>>]
        ELSE [entry |-> [ntf EXCEPT !.bytes = InBlock(ptr, ntf.bytes.len),
                                    !.param = param.param],
              end |-> past + Align8(param.size),
              parts |-> <<struct, bytes>> \o param.parts]

\* What a notification takes behind the array
Need(ntf) ==
    IF ntf.bytes.len = 0 THEN 0
    ELSE Align8(ntf.bytes.len) + Align8(ModeParamSize(ntf.param, ntf.mode))

CopyNext(done, src, at) ==
    LET next == NtfCopy(src, at, done.end)
    IN  [entries |-> Append(done.entries, next.entry), end |-> next.end,
         parts |-> done.parts \o next.parts]

\* nci_discovery_ntf_copy_array: the size of the block is computed first.
NtfCopyArray(srcs) ==
    LET count == Len(srcs)
        array == Align8(build.ntf * count)
        size[i \in 0 .. count] ==
            IF i = 0 THEN array ELSE size[i - 1] + Need(srcs[i].struct)
        copy[i \in 0 .. count] ==
            IF i = 0 THEN [entries |-> << >>, end |-> array, parts |-> << >>]
            ELSE CopyNext(copy[i - 1], srcs[i], (i - 1) * build.ntf)
        all == copy[count]
    IN  [size |-> size[count], entries |-> all.entries, parts |-> all.parts]

\* Mutant: room is left for the structure only.
ActivationParamSizeShort(intf, mode, param) == build.activation

\* What nci_util_copy_activation_param allocates. For NFC-DEP the size of the
\* structure is not aligned.
ActivationParamSize(intf, mode, param) ==
    IF param.data.len = 0 THEN build.activation
    ELSE (IF intf = NFC_DEP THEN build.activation ELSE Align8(build.activation))
            + Align8(param.data.len)

\* nci_util_copy_activation_param
ActivationParamCopy(intf, mode, src) ==
    LET param == src.struct
        struct == StructPart(0, build.activation)
        far == Align8(build.activation)
    IN  IF param.data = Null
        THEN [size |-> ActivationParamSize(intf, mode, param), entries |-> <<param>>,
              parts |-> <<struct>>]
        ELSE [size |-> ActivationParamSize(intf, mode, param),
              entries |-> <<[param EXCEPT !.data = InBlock(far, param.data.len)]>>,
              parts |-> <<struct, Part(far, Read(param.data, src.mem))>>]

\* nci_util_copy_mode_param
ModeParamBlock(mode, src) ==
    LET copy == ModeParamCopy(src.struct, mode, src.mem, 0)
    IN  [size |-> ModeParamSize(src.struct, mode), entries |-> <<copy.param>>,
         parts |-> copy.parts]

NoBlock == [size |-> 0, entries |-> << >>, parts |-> << >>]

-----------------------------------------------------------------------------
(***************************************************************************)
(* The choice of a target                                                  *)
(***************************************************************************)

\* nci_sm_supports_protocol
SupportsProtocol(protocol) ==
    CASE protocol \in {PROTOCOL_T2T, PROTOCOL_T5T} -> "RW" \in op_mode
      [] protocol = PROTOCOL_ISO_DEP -> op_mode \cap {"RW", "CE"} # {}
      [] protocol = PROTOCOL_NFC_DEP -> "PEER" \in op_mode
      [] OTHER -> FALSE

\* Mutant: only the protocols are compared.
ComesFirstByProtocol(a, b) ==
    \/ a.protocol = b.protocol
    \/ a.protocol = PROTOCOL_NFC_DEP
    \/ a.protocol = PROTOCOL_ISO_DEP /\ b.protocol # PROTOCOL_NFC_DEP

\* nci_state_w4_host_select_sort(a, b) <= 0
ComesFirst(a, b) ==
    LET order == <<PROTOCOL_NFC_DEP, PROTOCOL_ISO_DEP, PROTOCOL_T2T>>
        known == {i \in DOMAIN order : order[i] \in {a.protocol, b.protocol}}
    IN  IF a.protocol = b.protocol \/ known = {} THEN a.id <= b.id
        ELSE \E i \in known : order[i] = a.protocol /\ \A k \in known : i <= k

\* The head of the list that g_slist_insert_sorted makes of the targets with a
\* supported protocol, if there are any. Nobody looks at the rest of it.
Insert(head, target) ==
    IF /\ SupportsProtocol(target.protocol)
       /\ head = << >> \/ ComesFirst(target, head[1])
    THEN <<target>>
    ELSE head

Selected(targets) ==
    LET head[i \in 0 .. Len(targets)] ==
            IF i = 0 THEN << >> ELSE Insert(head[i - 1], targets[i])
    IN  head[Len(targets)]

RfInterface(protocol) ==
    CASE protocol = PROTOCOL_ISO_DEP -> ISO_DEP
      [] protocol = PROTOCOL_NFC_DEP -> NFC_DEP
      [] OTHER -> FRAME

\* nci_state_w4_host_select_entered. With nothing to select the machine goes
\* back to DISCOVERY.
SelectCommand(targets) ==
    LET best == Selected(targets)
    IN  IF best = << >> THEN << >>
        ELSE <<best[1].id, best[1].protocol, RfInterface(best[1].protocol)>>

-----------------------------------------------------------------------------
(***************************************************************************)
(* The NFCC. Parameters are given by their bytes and by what is in them:   *)
(* the fields and the data of variable length that the tables of the NCI   *)
(* specification describe.                                                 *)
(***************************************************************************)
DiscoverNtf(t) ==
    <<t.id, t.protocol, t.tech.mode, Len(t.tech.bytes)>> \o t.tech.bytes \o <<t.type>>

IntfActivatedNtf(a) ==
    <<a.id, a.intf, a.protocol, a.tech.mode, a.size, a.credits, Len(a.tech.bytes)>>
        \o a.tech.bytes \o a.exchange \o <<Len(a.param.bytes)>> \o a.param.bytes

\* The tables for the parameters of each technology: `f` are the fields and `d`
\* the data of variable length that the bytes `b` stand for.
PollATable(b, f, d) ==
    /\ f \in [sens_res : Seq(Nat), nfcid1 : Seq(Nat), sel_res_len : {0, 1}, sel_res : Nat]
    /\ Len(f.sens_res) = 2 /\ Len(f.nfcid1) <= 10 /\ d = << >>
    /\ \/ f.sel_res_len = 0 /\ f.sel_res = 0
          /\ b = f.sens_res \o <<Len(f.nfcid1)>> \o f.nfcid1 \o <<0>>
       \/ f.sel_res_len = 1
          /\ b = f.sens_res \o <<Len(f.nfcid1)>> \o f.nfcid1 \o <<1, f.sel_res>>

\* FSCI is in the second byte of the protocol info, which is the data.
PollBTable(b, f, d) ==
    /\ f \in [nfcid0 : Seq(Nat), fsc : Nat, app_data : Seq(Nat)]
    /\ Len(f.nfcid0) = 4 /\ Len(f.app_data) = 4 /\ Len(d) >= 3
    /\ f.fsc = FrameSize(d[2] \div 16)
    /\ b = <<8 + Len(d)>> \o f.nfcid0 \o f.app_data \o d

\* More than NFCID2 may follow in SENSF_RES.
PollFTable(b, f, d) ==
    /\ f \in [bitrate : Nat, nfcid2 : Seq(Nat)]
    /\ Len(f.nfcid2) = 8 /\ Len(b) >= 10 /\ d = << >>
    /\ b = <<f.bitrate, Len(b) - 2>> \o f.nfcid2 \o SubSeq(b, 11, Len(b))

ListenFTable(b, f, d) ==
    f = [listen_f |-> TRUE] /\ Len(d) \in {0, 8} /\ b = <<Len(d)>> \o d

PollVTable(b, f, d) ==
    /\ f \in [res_flag : Nat, dsfid : Nat, uid : Seq(Nat)]
    /\ Len(f.uid) = 8 /\ d = << >>
    /\ b = <<f.res_flag, f.dsfid>> \o f.uid

NoTable(f, d) == f = Nothing.fields /\ d = << >>

IsTech(tech) ==
    LET b == tech.bytes
        f == tech.fields
        d == tech.data
    IN  /\ d \in Seq(Nat)
        /\ CASE b = << >> -> NoTable(f, d)
             [] b # << >> /\ tech.mode \in PollA -> PollATable(b, f, d)
             [] b # << >> /\ tech.mode = PASSIVE_POLL_B -> PollBTable(b, f, d)
             [] b # << >> /\ tech.mode \in PollF -> PollFTable(b, f, d)
             [] b # << >> /\ tech.mode \in ListenF -> ListenFTable(b, f, d)
             [] b # << >> /\ tech.mode = PASSIVE_POLL_V -> PollVTable(b, f, d)
             [] OTHER -> NoTable(f, d)

\* The tables for the activation parameters: ATS, RATS, the answer and the
\* command ATTRIB, ATR_RES and ATR_REQ, each behind its length or alone
AtsTable(b, f, d) ==
    LET opt(bit, value) == IF Bit(f.t0, bit) THEN <<value>> ELSE << >>
    IN  /\ f \in [t0 : Nat, fsc : Nat, ta : Nat, tb : Nat, tc : Nat]
        /\ f.fsc = FrameSize(f.t0 % 16)
        /\ Bit(f.t0, 16) \/ f.ta = 0
        /\ Bit(f.t0, 32) \/ f.tb = 0
        /\ Bit(f.t0, 64) \/ f.tc = 0
        /\ b = <<Len(b) - 1, f.t0>>
                   \o opt(16, f.ta) \o opt(32, f.tb) \o opt(64, f.tc) \o d

RatsTable(b, f, d) ==
    /\ Len(b) = 1 /\ d = << >>
    /\ f = [fsd |-> FrameSize(b[1] \div 16), did |-> b[1] % 16]

AttribRspTable(b, f, d) ==
    /\ f \in [mbli : Nat, did : 0 .. 15]
    /\ b = <<1 + Len(d), 16 * f.mbli + f.did>> \o d

AttribCmdTable(b, f, d) ==
    /\ f \in [nfcid0 : Seq(Nat), param : Seq(Nat)]
    /\ Len(f.nfcid0) = 4 /\ Len(f.param) = 4
    /\ b = <<8 + Len(d)>> \o f.nfcid0 \o f.param \o d

AtrResTable(b, f, d) ==
    /\ f \in [nfcid3 : Seq(Nat), did : Nat, bs : Nat, br : Nat, to : Nat, pp : Nat]
    /\ Len(f.nfcid3) = 10
    /\ b = <<15 + Len(d)>> \o f.nfcid3 \o <<f.did, f.bs, f.br, f.to, f.pp>> \o d

AtrReqTable(b, f, d) ==
    /\ f \in [nfcid3 : Seq(Nat), did : Nat, bs : Nat, br : Nat, pp : Nat]
    /\ Len(f.nfcid3) = 10
    /\ b = <<14 + Len(d)>> \o f.nfcid3 \o <<f.did, f.bs, f.br, f.pp>> \o d

IsActivationParam(intf, mode, param) ==
    LET b == param.bytes
        f == param.fields
        d == param.data
        iso(modes) == b # << >> /\ intf = ISO_DEP /\ mode \in modes
        nfc(modes) == b # << >> /\ intf = NFC_DEP /\ mode \in modes
    IN  /\ d \in Seq(Nat)
        /\ CASE b = << >> -> NoTable(f, d)
             [] iso(PollA) -> AtsTable(b, f, d)
             [] iso(ListenA) -> RatsTable(b, f, d)
             [] iso({PASSIVE_POLL_B}) -> AttribRspTable(b, f, d)
             [] iso({PASSIVE_LISTEN_B}) -> AttribCmdTable(b, f, d)
             [] nfc(PollA \cup PollF) -> AtrResTable(b, f, d)
             [] nfc(ListenA \cup ListenF) -> AtrReqTable(b, f, d)
             [] OTHER -> NoTable(f, d)

\* The NFCC announces what the bytes say.
ASSUME AnnouncementAssumption ==
    /\ \A t \in Targets : IsTech(t.tech)
    /\ \A a \in Activations : /\ IsTech(a.tech)
                              /\ IsActivationParam(a.intf, a.tech.mode, a.param)
                              /\ Len(a.exchange) = 3

\* What the receiver is to know
DiscoverMeans(t) ==
    [id |-> t.id, protocol |-> t.protocol, mode |-> t.tech.mode,
     bytes |-> t.tech.bytes, fields |-> t.tech.fields, data |-> t.tech.data,
     last |-> t.type # 2]
ActivatedMeans(a) ==
    [head |-> <<a.id, a.intf, a.protocol, a.tech.mode, a.size, a.credits>>,
     exchange |-> a.exchange, fields |-> <<a.tech.fields, a.param.fields>>,
     data |-> <<a.tech.data, a.param.data>>]

-----------------------------------------------------------------------------
Released == [ok |-> FALSE]

Init ==
    /\ \E s \in Setups : build = s.build /\ op_mode = s.op_mode
    /\ buffer = << >>
    /\ discoveries = << >>
    /\ select = NoBlock
    /\ command = << >>
    /\ kept = Released
    /\ told = [round |-> << >>, select |-> << >>, activated |-> << >>]

Source(struct, pkt, parts) == [struct |-> struct, mem |-> Memory(pkt, parts)]
Element(block, pkt) == Source(block.entries[1], pkt, block.parts)

\* W4_HOST_SELECT keeps nothing once it has been entered.
NotSelecting == select' = NoBlock /\ command' = << >>

\* RF_DISCOVER_NTF. The first one of a round goes through the parameter that
\* W4_ALL_DISCOVERIES is entered with, and the last one of it ends the round.
Collect(ntf, pkt) ==
    LET parsed == Source(ntf, pkt, << >>)
        src == IF discoveries # << >> THEN parsed
               ELSE Element(NtfCopyArray(<<parsed>>), pkt)
        all == Append(discoveries, NtfCopyArray(<<src>>))
    IN  IF ntf.last
        THEN /\ select' = NtfCopyArray([i \in DOMAIN all |-> Element(all[i], pkt)])
             /\ command' = SelectCommand(select'.entries)
             /\ discoveries' = << >>
        ELSE /\ discoveries' = all
             /\ NotSelecting

\* The notification may be short of its last `cut` bytes.
Cut(pkt, cut) == SubSeq(pkt, 1, Len(pkt) - cut)

Discovered(t, cut) ==
    LET pkt == Cut(DiscoverNtf(t), cut)
        ntf == ParseDiscoverNtf(pkt)
        round == IF cut = 0 THEN Append(told.round, t) ELSE told.round
        last == cut = 0 /\ t.type # 2
    IN  /\ Len(discoveries) < MaxTargets
        /\ ~kept.ok
        /\ buffer' = pkt
        /\ IF ntf.ok THEN Collect(ntf, pkt)
                     ELSE UNCHANGED discoveries /\ NotSelecting
        /\ told' = [told EXCEPT !.round = IF last THEN << >> ELSE round,
                                !.select = IF last THEN round ELSE << >>]
        /\ UNCHANGED <<build, op_mode, kept>>

\* RF_INTF_ACTIVATED_NTF and a client that copies the parameters when told of it
Keep(ntf, pkt) ==
    LET mode == ntf.head[4]
    IN  [ok |-> TRUE, head |-> ntf.head, exchange |-> ntf.exchange,
         mode |-> IF ntf.mode_param = Nothing THEN NoBlock
                  ELSE ModeParamBlock(mode, Source(ntf.mode_param, pkt, << >>)),
         activation |->
            IF ntf.activation_param = Nothing THEN NoBlock
            ELSE ActivationParamCopy(ntf.head[2], mode,
                                     Source(ntf.activation_param, pkt, << >>))]

\* W4_ALL_DISCOVERIES does not expect this notification.
Activated(a, cut) ==
    LET pkt == Cut(IntfActivatedNtf(a), cut)
        ntf == ParseIntfActivatedNtf(pkt)
    IN  /\ discoveries = << >>
        /\ ~kept.ok
        /\ buffer' = pkt
        /\ kept' = IF ntf.ok THEN Keep(ntf, pkt) ELSE Released
        /\ told' = [told EXCEPT !.select = << >>,
                                !.activated = IF cut = 0 THEN <<a>> ELSE << >>]
        /\ NotSelecting
        /\ UNCHANGED <<build, op_mode, discoveries>>

\* Another packet takes the place of the one in the buffer.
Received(pkt) ==
    /\ buffer' = pkt
    /\ NotSelecting
    /\ told' = [told EXCEPT !.select = << >>]
    /\ UNCHANGED <<build, op_mode, discoveries, kept>>

\* The machine goes back to DISCOVERY: what W4_ALL_DISCOVERIES has collected
\* is dropped, and the client forgets the target.
BackToDiscovery ==
    /\ discoveries' = << >>
    /\ NotSelecting
    /\ kept' = Released
    /\ told' = [round |-> << >>, select |-> << >>, activated |-> << >>]
    /\ UNCHANGED <<build, op_mode, buffer>>

Next ==
    \/ \E t \in Targets, cut \in Cuts : Discovered(t, cut)
    \/ \E a \in Activations, cut \in Cuts : Activated(a, cut)
    \/ \E pkt \in Others : Received(pkt)
    \/ BackToDiscovery

Spec == Init /\ [][Next]_vars

-----------------------------------------------------------------------------
(***************************************************************************)
(* Properties                                                              *)
(***************************************************************************)
ReadBack(ntf, block) ==
    [id |-> ntf.id, protocol |-> ntf.protocol, mode |-> ntf.mode,
     bytes |-> Read(ntf.bytes, Memory(buffer, block.parts)),
     fields |-> ntf.param.fields,
     data |-> Read(ntf.param.data, Memory(buffer, block.parts)),
     last |-> ntf.last]

Blocks == ToSet(discoveries) \cup {select}
            \cup (IF kept.ok THEN {kept.mode, kept.activation} ELSE {})

\* W4_ALL_DISCOVERIES holds the targets of this round, in their order, with
\* every byte that they were announced with: none of a broken notification,
\* none of an earlier round, and nothing that a later packet could change.
CollectedAsAnnounced ==
    /\ Len(discoveries) = Len(told.round)
    /\ \A i \in DOMAIN discoveries :
          ReadBack(discoveries[i].entries[1], discoveries[i])
              = DiscoverMeans(told.round[i])

\* W4_HOST_SELECT is entered with all of the targets: copying them together
\* mixes nothing up, whatever their parameters are and however long.
HandedOverAsAnnounced ==
    /\ Len(select.entries) = Len(told.select)
    /\ \A i \in DOMAIN select.entries :
          ReadBack(select.entries[i], select) = DiscoverMeans(told.select[i])

Rank(t) == CASE t.protocol = PROTOCOL_NFC_DEP -> 1
             [] t.protocol = PROTOCOL_ISO_DEP -> 2
             [] t.protocol = PROTOCOL_T2T -> 3
             [] OTHER -> 4
AtLeastAsGood(t, u) == Rank(t) < Rank(u) \/ (Rank(t) = Rank(u) /\ t.id <= u.id)

\* The target that is selected is one of this round, of a protocol that op_mode
\* allows, with the interface that goes with it, and none of the others is
\* preferred to it: NFC-DEP to ISO-DEP to T2T to the rest, and the lower
\* discovery id, in whatever order they were announced. Nothing is selected
\* only if nothing can be.
SelectsBest ==
    LET able == {t \in ToSet(told.select) : SupportsProtocol(t.protocol)}
    IN  IF able = {} THEN command = << >>
        ELSE \E t \in able :
                /\ \A u \in able : AtLeastAsGood(t, u)
                /\ command = <<t.id, t.protocol, RfInterface(t.protocol)>>

\* What the client has copied from RF_INTF_ACTIVATED_NTF is the parameters of
\* the latest activation and stays so, when the receive buffer is used again.
ClientCopyAsAnnounced ==
    LET struct(b) == IF b = NoBlock THEN Nothing ELSE b.entries[1]
        data(b) == Read(struct(b).data, Memory(buffer, b.parts))
    IN  /\ kept.ok <=> told.activated # << >>
        /\ kept.ok =>
              [head |-> kept.head, exchange |-> kept.exchange,
               fields |-> <<struct(kept.mode).fields, struct(kept.activation).fields>>,
               data |-> <<data(kept.mode), data(kept.activation)>>]
              = ActivatedMeans(told.activated[1])

\* What is copied fits in the block that has been allocated for it, and no two
\* parts of a block overlap, although its size and the places of the parts are
\* computed by different functions.
CopiesFit ==
    \A b \in Blocks :
        /\ \A p \in ToSet(b.parts) : p.off + p.len <= b.size
        /\ \A i, j \in DOMAIN b.parts : i < j =>
              \/ b.parts[i].off + b.parts[i].len <= b.parts[j].off
              \/ b.parts[j].off + b.parts[j].len <= b.parts[i].off
=============================================================================
