------------------------------ MODULE MCNciNtf ------------------------------
(***************************************************************************)
(* An instance of NciNtf for TLC: packets as the tables of the NCI         *)
(* specification lay them out, quoted in nci_util.c.                       *)
(***************************************************************************)
EXTENDS NciNtf

\* LP64 and a 32-bit build
Lp64 == [ntf |-> 40, mode |-> 32, activation |-> 32]
Ilp32 == [ntf |-> 28, mode |-> 20, activation |-> 24]
SomeSetups == {[build |-> Lp64, op_mode |-> {"RW", "PEER"}],
               [build |-> Ilp32, op_mode |-> {"RW"}],
               [build |-> Ilp32, op_mode |-> {"PEER", "CE"}]}

\* n bytes, all of them different
Fill(x, n) == [i \in 1 .. n |-> x + i]
Params(mode, bytes, fields, data) ==
    [mode |-> mode, bytes |-> bytes, fields |-> fields, data |-> data]
NoParams(mode) == Params(mode, << >>, [null |-> TRUE], << >>)

A(mode, n, m, x) == Params(mode,
    Fill(x, 2) \o <<n>> \o Fill(x + 2, n) \o <<m>> \o Fill(x + 20, m),
    [sens_res |-> Fill(x, 2), nfcid1 |-> Fill(x + 2, n),
     sel_res_len |-> m, sel_res |-> IF m > 0 THEN x + 21 ELSE 0], << >>)
B(n, x, fsci, fsc) ==
    LET info == <<x, 16 * fsci + 1>> \o Fill(x + 10, n - 2)
    IN  Params(PASSIVE_POLL_B, <<8 + n>> \o Fill(x, 4) \o Fill(x + 4, 4) \o info,
               [nfcid0 |-> Fill(x, 4), fsc |-> fsc, app_data |-> Fill(x + 4, 4)], info)
F(mode, n, x) == Params(mode, <<2, n>> \o Fill(x, n),
    [bitrate |-> 2, nfcid2 |-> Fill(x, 8)], << >>)
LF(mode, n, x) == Params(mode, <<n>> \o Fill(x, n), [listen_f |-> TRUE], Fill(x, n))
V(x) == Params(PASSIVE_POLL_V, <<x, x + 1>> \o Fill(x + 1, 8),
    [res_flag |-> x, dsfid |-> x + 1, uid |-> Fill(x + 1, 8)], << >>)

\* Six announcements, and each of them as the last one of its round
Announced == {<<1, 2, A(PASSIVE_POLL_A, 7, 1, 40)>>, <<2, 4, B(3, 80, 8, 256)>>,
              <<3, 4, B(4, 90, 12, 256)>>, <<4, 3, F(PASSIVE_POLL_F, 16, 120)>>,
              <<5, 6, V(160)>>, <<6, 128, NoParams(PASSIVE_POLL_F)>>}
SomeTargets == {[id |-> t[1], protocol |-> t[2], tech |-> t[3], type |-> type] :
                    t \in Announced, type \in {0, 2}}
                \cup {[id |-> 1, protocol |-> 5, tech |-> A(ACTIVE_POLL_A, 10, 0, 60),
                       type |-> 1]}

Part2(bytes, fields, data) == [bytes |-> bytes, fields |-> fields, data |-> data]
NoPart2 == Part2(<< >>, [null |-> TRUE], << >>)
Ats(flags, fsci, fsc, k, x) ==
    LET t0 == fsci + (IF "ta" \in flags THEN 16 ELSE 0)
                   + (IF "tb" \in flags THEN 32 ELSE 0)
                   + (IF "tc" \in flags THEN 64 ELSE 0)
        opt(f, v) == IF f \in flags THEN <<v>> ELSE << >>
        val(f, v) == IF f \in flags THEN v ELSE 0
        ats == <<t0>> \o opt("ta", x) \o opt("tb", x + 1) \o opt("tc", x + 2)
                \o Fill(x + 2, k)
    IN  Part2(<<Len(ats)>> \o ats,
              [t0 |-> t0, fsc |-> fsc, ta |-> val("ta", x), tb |-> val("tb", x + 1),
               tc |-> val("tc", x + 2)], Fill(x + 2, k))
Rats(x) == Part2(<<16 * 5 + 3>>, [fsd |-> 64, did |-> 3], << >>)
AttribRsp(k, x) == Part2(<<k + 1, 16 * 2 + 9>> \o Fill(x, k), [mbli |-> 2, did |-> 9],
                         Fill(x, k))
AttribCmd(k, x) == Part2(<<8 + k>> \o Fill(x, 8 + k),
    [nfcid0 |-> Fill(x, 4), param |-> Fill(x + 4, 4)], Fill(x + 8, k))
AtrRes(k, x) == Part2(<<15 + k>> \o Fill(x, 15 + k),
    [nfcid3 |-> Fill(x, 10), did |-> x + 11, bs |-> x + 12, br |-> x + 13,
     to |-> x + 14, pp |-> x + 15], Fill(x + 15, k))
AtrReq(k, x) == Part2(<<14 + k>> \o Fill(x, 14 + k),
    [nfcid3 |-> Fill(x, 10), did |-> x + 11, bs |-> x + 12, br |-> x + 13,
     pp |-> x + 14], Fill(x + 14, k))

Act(intf, tech, param) ==
    [id |-> 1, intf |-> intf, protocol |-> intf + 2, tech |-> tech, size |-> 255,
     credits |-> 1, exchange |-> <<tech.mode % 128, 1, 2>>, param |-> param]
AllActivations ==
    {Act(FRAME, tech, NoPart2) :
        tech \in {A(PASSIVE_POLL_A, n, m, 40) : n \in {0, 4, 7, 10}, m \in {0, 1}}
            \cup {V(160), NoParams(PASSIVE_LISTEN_A), B(3, 80, 0, 16)}}
    \cup {Act(ISO_DEP, A(PASSIVE_POLL_A, 4, 1, 40), Ats(flags, 8, 256, k, 70)) :
        flags \in SUBSET {"ta", "tb", "tc"}, k \in {0, 1, 8}}
    \cup {Act(ISO_DEP, B(4, 90, 3, 40), AttribRsp(k, 70)) : k \in {0, 5}}
    \cup {Act(ISO_DEP, NoParams(PASSIVE_LISTEN_A), Rats(0))}
    \cup {Act(ISO_DEP, NoParams(PASSIVE_LISTEN_B), AttribCmd(k, 70)) : k \in {0, 9}}
    \cup {Act(NFC_DEP, tech, AtrRes(k, 70)) : k \in {0, 3},
        tech \in {A(ACTIVE_POLL_A, 4, 1, 40), F(PASSIVE_POLL_F, 18, 120)}}
    \cup {Act(NFC_DEP, tech, AtrReq(k, 70)) : k \in {0, 8},
        tech \in {NoParams(PASSIVE_LISTEN_A), LF(ACTIVE_LISTEN_F, 8, 30),
                  LF(PASSIVE_LISTEN_F, 0, 30)}}

\* Data, shorter and longer than a notification
SomeData == {Fill(200, 4), Fill(200, 50)}
=============================================================================
