------------------------- MODULE NciDiscoverConfig -------------------------
(***************************************************************************)
(* What nci_transition_idle_to_discovery.c tells the NFCC: the parameters  *)
(* (CORE_SET_CONFIG), the listen mode routing table, the interface map     *)
(* (RF_DISCOVER_MAP) and the technologies to discover (RF_DISCOVER). They  *)
(* are computed independently of one another from op_mode, techs, the      *)
(* parameters of the client and what the NFCC has been configured with     *)
(* before, and have to fit together in the end.                            *)
(*                                                                         *)
(* One step is one command and its response. That a transition may be      *)
(* interrupted and that commands get lost is the subject of module NciSm;  *)
(* here the client changes its settings in IDLE and DISCOVERY only.        *)
(***************************************************************************)
EXTENDS Integers, Sequences

CONSTANTS
    Setups,         \* what a client asks for, with what an NFCC is able to do
    DefaultNfcid1,  \* LA_NFCID1 in the configuration file
    NoHistBytes,    \* an empty LI_A_HB
    EntrySize       \* size of a routing entry

Flags == {"RW", "PEER", "CE", "POLL", "LISTEN"}
A_POLL == {"A_POLL_PASSIVE", "A_POLL_ACTIVE"}
A_LISTEN == {"A_LISTEN_PASSIVE", "A_LISTEN_ACTIVE"}
F_POLL == {"F_POLL_PASSIVE", "F_POLL_ACTIVE"}
F_LISTEN == {"F_LISTEN_PASSIVE", "F_LISTEN_ACTIVE"}
TECH_A == A_POLL \cup A_LISTEN
TECH_B == {"B_POLL", "B_LISTEN"}
TECH_F == F_POLL \cup F_LISTEN
TECH_V == {"V_POLL", "V_LISTEN"}
Techs == TECH_A \cup TECH_B \cup TECH_F \cup TECH_V

\* NciNfcid1: its length, and its bytes as one value. "dynamic" is a first
\* byte of 08h; an empty NFCID1 stands for a dynamic one.
Nfcid1 == [len : {0, 4, 7, 10}, bytes : {"dynamic", "x", "y"}]
Dynamic(id) == id.len = 0 \/ (id.len = 4 /\ id.bytes = "dynamic")

ASSUME DiscoverConfigAssumption ==
    /\ \A s \in Setups :
          /\ s.op_modes \subseteq SUBSET Flags
          /\ s.techs \subseteq SUBSET Techs
          /\ s.nfcid1s \subseteq Nfcid1
          /\ NoHistBytes \in s.hist_bytes
          /\ {} \in s.reports
          /\ s.routing \subseteq {"none", "protocol", "technology", "mixed"}
          /\ s.table_sizes \subseteq Nat
    /\ DefaultNfcid1 \in Nfcid1
    /\ EntrySize \in Nat \ {0}

VARIABLES
    setup,  \* the client and the NFCC, as one of Setups
    dh,     \* settings of NciSm
    nfcc,   \* what the NFCC has been told
    stage   \* how far the transition has got

vars == <<setup, dh, nfcc, stage>>


\* A parameter of one byte is the set of its bits. "other" stands for those
\* that the program does not care about.
ByteParams == {"LA_SENS_RES_1", "LA_SEL_INFO", "LF_PROTOCOL_TYPE"}
Params == ByteParams \cup {"LA_NFCID1", "LI_A_HIST_BY"}
Mask == [p \in ByteParams |->
            CASE p = "LA_SENS_RES_1" -> {"LEN_7", "LEN_10"}
              [] p = "LA_SEL_INFO" -> {"ISO_DEP", "NFC_DEP"}
              [] p = "LF_PROTOCOL_TYPE" -> {"NFC_DEP"}]

\* `valid` observes that the NFCC has taken the latest parameters and `table`
\* is the one that it has taken, of the kind `routing`, in this transition.
Init ==
    /\ stage = "IDLE"
    /\ setup \in Setups
    /\ \E mode \in setup.op_modes, techs \in setup.techs :
          dh = [op_mode |-> mode, techs |-> techs,
                la_nfcid1 |-> DefaultNfcid1, li_a_hb |-> NoHistBytes]
    /\ \E other \in SUBSET {"other"}, max \in setup.table_sizes, kind \in setup.routing :
          nfcc = [bits |-> [p \in ByteParams |-> other],
                  nfcid1 |-> [len |-> 4, bytes |-> "dynamic"],
                  hb |-> NoHistBytes,
                  valid |-> FALSE,
                  max_table |-> max,
                  supports |-> kind,
                  table |-> << >>,
                  routing |-> "none",
                  map |-> {},
                  discover |-> {}]

-----------------------------------------------------------------------------
(***************************************************************************)
(* Parameters                                                              *)
(***************************************************************************)

\* nci_nfcid1_equal
Equal(id1, id2) ==
    IF id1.len = id2.len THEN id1.bytes = id2.bytes \/ id1.len = 0
    ELSE (id1.len = 0 \/ id2.len = 0) /\ Dynamic(id1) /\ Dynamic(id2)

PeerListen == {"PEER", "LISTEN"} \subseteq dh.op_mode

\* Mutant: there is no double size.
SensResExpectedShort == IF dh.la_nfcid1.len = 10 THEN {"LEN_10"} ELSE {}

SensResExpected ==
    CASE dh.la_nfcid1.len = 7 -> {"LEN_7"}
      [] dh.la_nfcid1.len = 10 -> {"LEN_10"}
      [] OTHER -> {}

SelInfoExpected ==
    (IF "CE" \in dh.op_mode THEN {"ISO_DEP"} ELSE {})
        \cup (IF PeerListen THEN {"NFC_DEP"} ELSE {})

ProtocolTypeExpected ==
    IF PeerListen /\ dh.techs \cap F_LISTEN # {} THEN {"NFC_DEP"} ELSE {}

Nfcid1Expected ==
    IF dh.la_nfcid1.len = 0 THEN [len |-> 4, bytes |-> "dynamic"] ELSE dh.la_nfcid1

Expected(p) ==
    CASE p = "LA_SENS_RES_1" -> SensResExpected
      [] p = "LA_SEL_INFO" -> SelInfoExpected
      [] p = "LF_PROTOCOL_TYPE" -> ProtocolTypeExpected

\* Mutant: bits that should not be set are fine.
ConfigByteContains(byte, expected, mask) == expected \subseteq byte
\* Mutant: the other bits are cleared.
ConfigByteAlone(byte, expected, mask) == expected

\* nci_transition_idle_to_discovery_config_byte_ok, and the byte to be set
ConfigByteOk(byte, expected, mask) == byte \cap mask = expected
ConfigByte(byte, expected, mask) == expected \cup (byte \ mask)

\* nci_transition_idle_to_discovery_hb_ok
HbOk(found) == IF found THEN nfcc.hb = dh.li_a_hb ELSE dh.li_a_hb = NoHistBytes

\* The parameters to be set, of which the NFCC has reported some
Wrong(reported) ==
    {p \in ByteParams :
        p \in reported => ~ConfigByteOk(nfcc.bits[p], Expected(p), Mask[p])}
    \cup {p \in {"LA_NFCID1"} : p \in reported => ~Equal(nfcc.nfcid1, Nfcid1Expected)}
    \cup {p \in {"LI_A_HIST_BY"} : ~HbOk(p \in reported)}

\* nci_transition_idle_to_discovery_set_config
SetConfig(params, reported) == [nfcc EXCEPT
    !.valid = TRUE,
    !.bits = [p \in ByteParams |->
                IF p \notin params THEN nfcc.bits[p]
                ELSE IF p \in reported
                     THEN ConfigByte(nfcc.bits[p], Expected(p), Mask[p])
                     ELSE Expected(p)],
    !.nfcid1 = IF "LA_NFCID1" \in params THEN Nfcid1Expected ELSE nfcc.nfcid1,
    !.hb = IF "LI_A_HIST_BY" \in params THEN dh.li_a_hb ELSE nfcc.hb]

\* nci_transition_idle_to_discovery_get_config_rsp. After an error everything
\* is set, and whether the NFCC takes it does not matter.
Configure(ok, reported, taken) ==
    LET params == IF ok THEN Wrong(reported) ELSE Params
    IN  /\ stage = "IDLE"
        /\ ~ok => reported = {}
        /\ nfcc' = IF params = {} \/ taken THEN SetConfig(params, reported)
                                           ELSE [nfcc EXCEPT !.valid = FALSE]
        /\ stage' = "configured"
        /\ UNCHANGED <<setup, dh>>

-----------------------------------------------------------------------------
(***************************************************************************)
(* Listen mode routing                                                     *)
(***************************************************************************)

\* nci_transition_idle_to_discovery_add_routing_entry: what is compared with
\* the limit is the size of the table before the entry is added to it.
AddRoutingEntry(table, entry) ==
    IF Len(table) * EntrySize <= nfcc.max_table THEN Append(table, entry) ELSE table

AddIf(condition, entry, table) ==
    IF condition THEN AddRoutingEntry(table, entry) ELSE table

\* The flags of op_mode and techs are not tested one after the other for
\* ISO-DEP but masked with one another: of those bits CE has the value of
\* A_LISTEN_PASSIVE, and RW that of A_POLL_PASSIVE.
ProtocolRoutingEntries(table) ==
    LET nfcDep == /\ "PEER" \in dh.op_mode
                  /\ dh.op_mode \cap {"POLL", "LISTEN"} # {}
                  /\ dh.techs \cap (TECH_A \cup TECH_F) # {}
        isoDep == \/ "CE" \in dh.op_mode /\ "A_LISTEN_PASSIVE" \in dh.techs
                  \/ "RW" \in dh.op_mode /\ "A_POLL_PASSIVE" \in dh.techs
    IN  AddIf(isoDep, "ISO-DEP", AddIf(nfcDep, "NFC-DEP", table))

\* Mutant: NFC-F is thought to be for readers only.
TechRoutingEntriesReader(table) ==
    LET f == dh.techs \cap F_LISTEN # {} /\ "RW" \in dh.op_mode
    IN  AddIf(dh.techs \cap TECH_A # {}, "A",
              AddIf(dh.techs \cap TECH_B # {}, "B", AddIf(f, "F", table)))

TechRoutingEntries(table) ==
    LET f == dh.techs \cap F_LISTEN # {} /\ dh.op_mode \cap {"RW", "PEER"} # {}
    IN  AddIf(dh.techs \cap TECH_A # {}, "A",
              AddIf(dh.techs \cap TECH_B # {}, "B", AddIf(f, "F", table)))

\* nci_transition_idle_to_discovery_set_routing, with the entries of each kind
Table(kind) ==
    CASE kind = "mixed" -> TechRoutingEntries(ProtocolRoutingEntries(<< >>))
      [] kind = "protocol" -> ProtocolRoutingEntries(<< >>)
      [] kind = "technology" -> TechRoutingEntries(<< >>)

\* nci_transition_idle_to_discovery_configure_routing, and the attempts of the
\* response handlers: `kind` is what the NFCC takes in the end.
RoutingNeeded ==
    /\ nfcc.max_table > 0
    /\ "CE" \in dh.op_mode \/ PeerListen
    /\ nfcc.supports # "none"
Attempts == IF nfcc.supports = "mixed" THEN {"mixed", "protocol", "technology"}
                                       ELSE {nfcc.supports}
Route(kind) ==
    /\ stage = "configured"
    /\ kind = "none" \/ (RoutingNeeded /\ kind \in Attempts)
    /\ nfcc' = [nfcc EXCEPT
                  !.routing = kind,
                  !.table = IF kind = "none" THEN << >> ELSE Table(kind)]
    /\ stage' = "routed"
    /\ UNCHANGED <<setup, dh>>

-----------------------------------------------------------------------------
(***************************************************************************)
(* Interfaces and technologies                                             *)
(***************************************************************************)
Mapped(condition, protocols, side) == IF condition THEN protocols \X {side} ELSE {}

\* Mutant: ISO-DEP is for NFC-A.
InterfaceMapWithoutB ==
    LET enabled(flags, techs) == flags \subseteq dh.op_mode /\ dh.techs \cap techs # {}
    IN  Mapped(enabled({"RW"}, A_POLL), {"T1T", "T2T", "ISO-DEP"}, "poll")
        \cup Mapped(enabled({"RW"}, F_POLL), {"T3T"}, "poll")
        \cup Mapped(enabled({"RW"}, {"V_POLL"}), {"T5T"}, "poll")
        \cup Mapped(enabled({"PEER", "POLL"}, A_POLL \cup F_POLL), {"NFC-DEP"}, "poll")
        \cup Mapped(enabled({"PEER", "LISTEN"}, A_LISTEN \cup F_LISTEN), {"NFC-DEP"}, "listen")
        \cup Mapped(enabled({"CE"}, A_LISTEN), {"ISO-DEP"}, "listen")

\* nci_transition_idle_to_discover_map. The interface follows from the protocol.
InterfaceMap ==
    LET enabled(flags, techs) == flags \subseteq dh.op_mode /\ dh.techs \cap techs # {}
    IN  Mapped(enabled({"RW"}, A_POLL), {"T1T", "T2T"}, "poll")
        \cup Mapped(enabled({"RW"}, F_POLL), {"T3T"}, "poll")
        \cup Mapped(enabled({"RW"}, {"V_POLL"}), {"T5T"}, "poll")
        \cup Mapped(enabled({"RW"}, A_POLL \cup {"B_POLL"}), {"ISO-DEP"}, "poll")
        \cup Mapped(enabled({"PEER", "POLL"}, A_POLL \cup F_POLL), {"NFC-DEP"}, "poll")
        \cup Mapped(enabled({"PEER", "LISTEN"}, A_LISTEN \cup F_LISTEN), {"NFC-DEP"}, "listen")
        \cup Mapped(enabled({"CE"}, A_LISTEN \cup {"B_LISTEN"}), {"ISO-DEP"}, "listen")

Map ==
    /\ stage = "routed"
    /\ nfcc' = [nfcc EXCEPT !.map = InterfaceMap]
    /\ stage' = "mapped"
    /\ UNCHANGED <<setup, dh>>

\* nci_transition_idle_to_discovery_discover
DiscoverTechs ==
    LET of(flags, techs) == IF flags \subseteq dh.op_mode THEN techs ELSE {}
    IN  dh.techs \cap (of({"RW"}, A_POLL \cup F_POLL \cup {"B_POLL", "V_POLL"})
                         \cup of({"PEER", "POLL"}, A_POLL \cup F_POLL)
                         \cup of({"PEER", "LISTEN"}, A_LISTEN \cup F_LISTEN)
                         \cup of({"CE"}, {"A_LISTEN_PASSIVE", "B_LISTEN"}))

Discover ==
    /\ stage = "mapped"
    /\ nfcc' = [nfcc EXCEPT !.discover = DiscoverTechs]
    /\ stage' = "DISCOVERY"
    /\ UNCHANGED <<setup, dh>>

-----------------------------------------------------------------------------
(***************************************************************************)
(* The client                                                              *)
(***************************************************************************)

\* The machine goes to IDLE, and the NFCC keeps its configuration: so it does
\* on a reset (CORE_RESET_CMD with "Keep Configuration"). A dynamic NFCID1 in
\* place of another one is no change. What each transition sends anew, or else
\* does not need, is forgotten.
Reconfigure(settings) ==
    LET renamed == /\ settings = [dh EXCEPT !.la_nfcid1 = settings.la_nfcid1]
                   /\ Equal(settings.la_nfcid1, dh.la_nfcid1)
    IN  /\ stage \in {"IDLE", "DISCOVERY"}
        /\ settings # dh
        /\ dh' = settings
        /\ stage' = IF renamed THEN stage ELSE "IDLE"
        /\ nfcc' = IF renamed THEN nfcc
                   ELSE [nfcc EXCEPT !.valid = FALSE, !.table = << >>, !.routing = "none",
                                     !.map = {}, !.discover = {}]
        /\ UNCHANGED setup

\* nci_sm_set_op_mode, nci_sm_set_tech
SetOpMode(mode) == Reconfigure([dh EXCEPT !.op_mode = mode])
SetTech(techs) == Reconfigure([dh EXCEPT !.techs = techs])

\* nci_sm_set_la_nfcid1: a dynamic NFCID1 is stored as an empty one.
NewNfcid1(id) ==
    IF Equal(id, dh.la_nfcid1) THEN dh.la_nfcid1
    ELSE IF Dynamic(id) THEN [len |-> 0, bytes |-> "dynamic"] ELSE id

\* nci_core_set_params
SetParams(id, hb) == Reconfigure([dh EXCEPT !.la_nfcid1 = NewNfcid1(id), !.li_a_hb = hb])

\* nci_core_reset_param
ResetParam(p) == Reconfigure(
    IF p = "LA_NFCID1" THEN [dh EXCEPT !.la_nfcid1 = DefaultNfcid1]
                       ELSE [dh EXCEPT !.li_a_hb = NoHistBytes])

Next ==
    \/ \E ok \in BOOLEAN, reported \in setup.reports, taken \in BOOLEAN :
          Configure(ok, reported, taken)
    \/ \E kind \in {"none", "protocol", "technology", "mixed"} : Route(kind)
    \/ Map
    \/ Discover
    \/ \E mode \in setup.op_modes : SetOpMode(mode)
    \/ \E techs \in setup.techs : SetTech(techs)
    \/ \E id \in setup.nfcid1s \cup {dh.la_nfcid1}, hb \in setup.hist_bytes :
          SetParams(id, hb)
    \/ \E p \in {"LA_NFCID1", "LI_A_HIST_BY"} : ResetParam(p)

Spec == Init /\ [][Next]_vars

-----------------------------------------------------------------------------
(***************************************************************************)
(* Properties                                                              *)
(***************************************************************************)

\* The protocols that a technology carries, and the side that it is on
Carries(t) ==
    CASE t \in A_POLL -> {"T1T", "T2T", "ISO-DEP", "NFC-DEP"}
      [] t \in F_POLL -> {"T3T", "NFC-DEP"}
      [] t \in A_LISTEN -> {"ISO-DEP", "NFC-DEP"}
      [] t \in TECH_B -> {"ISO-DEP"}
      [] t \in F_LISTEN -> {"NFC-DEP"}
      [] t \in TECH_V -> {"T5T"}
Side(t) == IF t \in A_LISTEN \cup F_LISTEN \cup {"B_LISTEN", "V_LISTEN"}
           THEN "listen" ELSE "poll"

\* Whatever the NFCC is told to discover (RF_DISCOVER_CMD), it has been given
\* an interface for a protocol of that technology and side (RF_DISCOVER_MAP_CMD).
DiscoveredIsMapped ==
    stage = "DISCOVERY" =>
        \A t \in nfcc.discover : \E p \in Carries(t) : <<p, Side(t)>> \in nfcc.map

\* What the NFCC says of itself to a reader (LA_SEL_INFO, LF_PROTOCOL_TYPE) is
\* what it has a listen mode interface for, no more and no less, whatever it
\* has been configured for before.
AdvertisedIsMapped ==
    stage = "DISCOVERY" /\ nfcc.valid =>
        /\ nfcc.discover \cap A_LISTEN # {} =>
              /\ "ISO_DEP" \in nfcc.bits["LA_SEL_INFO"]
                    <=> <<"ISO-DEP", "listen">> \in nfcc.map
              /\ "NFC_DEP" \in nfcc.bits["LA_SEL_INFO"]
                    <=> <<"NFC-DEP", "listen">> \in nfcc.map
        /\ nfcc.discover \cap F_LISTEN # {} =>
              ("NFC_DEP" \in nfcc.bits["LF_PROTOCOL_TYPE"]
                    <=> <<"NFC-DEP", "listen">> \in nfcc.map)

\* LA_SENS_RES_1 and LA_NFCID1, which are compared and set separately, agree
\* on the length of the NFCID1, and the NFCID1 is the one asked for.
IdentityFits ==
    stage = "DISCOVERY" /\ nfcc.valid =>
        /\ Equal(nfcc.nfcid1, dh.la_nfcid1)
        /\ nfcc.bits["LA_SENS_RES_1"] \cap {"LEN_7", "LEN_10"} =
              CASE nfcc.nfcid1.len = 4 -> {}
                [] nfcc.nfcid1.len = 7 -> {"LEN_7"}
                [] nfcc.nfcid1.len = 10 -> {"LEN_10"}

\* The bits of a parameter that the program does not care about stay as the
\* NFCC has reported them, also when the other bits change. Only of a parameter
\* that it has not reported (of all of them, if CORE_GET_CONFIG failed) they
\* are not known, and CORE_SET_CONFIG clears them. Nothing else touches them.
OtherBits(bits, p) == bits[p] \ Mask[p]
OtherBitsKept ==
    [][/\ \A ok \in BOOLEAN, reported \in setup.reports, taken \in BOOLEAN, p \in ByteParams :
             Configure(ok, reported, taken) =>
                 OtherBits(nfcc'.bits, p) = IF taken /\ p \notin reported THEN {}
                                            ELSE OtherBits(nfcc.bits, p)
       /\ stage' # "configured" => nfcc'.bits = nfcc.bits]_vars

\* Every technology that the NFCC listens on is routed to the host, if the
\* NFCC has taken a table with technologies and that is not full.
ListenTechsAreRouted ==
    stage = "DISCOVERY" /\ nfcc.routing \in {"mixed", "technology"} =>
        \/ (Len(nfcc.table) + 1) * EntrySize > nfcc.max_table
        \/ \A t \in nfcc.discover : Side(t) = "listen" =>
              \E i \in DOMAIN nfcc.table :
                  nfcc.table[i] = CASE t \in A_LISTEN -> "A"
                                    [] t \in F_LISTEN -> "F"
                                    [] t \in TECH_B -> "B"

\* nci_transition_idle_to_discovery_protocol_routing_entries: "IsoDep: Poll A/B
\* (RW Modes), Listen A/B (CE Modes)". Whatever listens as a card has ISO-DEP
\* routed to the host, if the NFCC routes protocols and the table is not full.
IsoDepIsRouted ==
    stage = "DISCOVERY" /\ nfcc.routing = "protocol" /\ "CE" \in dh.op_mode
        /\ nfcc.discover \cap {"A_LISTEN_PASSIVE", "B_LISTEN"} # {} =>
        \/ (Len(nfcc.table) + 1) * EntrySize > nfcc.max_table
        \/ \E i \in DOMAIN nfcc.table : nfcc.table[i] = "ISO-DEP"

\* nci_transition_idle_to_discovery_add_routing_entry: all entries "are
\* included in the calculation to determine if the routing configuration size
\* exceeds the Max Routing Table Size", so that it does not.
RoutingTableFits ==
    nfcc.routing # "none" => Len(nfcc.table) * EntrySize <= nfcc.max_table
=============================================================================
