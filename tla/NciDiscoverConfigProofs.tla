---------------------- MODULE NciDiscoverConfigProofs ----------------------
(***************************************************************************)
(* Proofs about NciDiscoverConfig: the parameters, the interface map, the  *)
(* technologies and the routing table fit together, for every operation    *)
(* mode, every set of technologies, every identity, every report of the    *)
(* NFCC and every size of the routing table.                               *)
(*                                                                         *)
(* The inductive invariant says what each of the commands has left in the  *)
(* NFCC, in terms of the current settings of the machine: that settings    *)
(* which would make it false do not leave the stage alone is what the      *)
(* proof of Reconfigure is about. The properties then follow from the way  *)
(* the four commands are computed.                                         *)
(***************************************************************************)
EXTENDS NciDiscoverConfig, TLAPS

Bits == {"other", "LEN_7", "LEN_10", "ISO_DEP", "NFC_DEP"}
Kinds == {"none", "protocol", "technology", "mixed"}
Routes == {"NFC-DEP", "ISO-DEP", "F", "B", "A"}
Protocols == {"T1T", "T2T", "T3T", "T5T", "ISO-DEP", "NFC-DEP"}
Stages == {"IDLE", "configured", "routed", "mapped", "DISCOVERY"}

Settings == [op_mode : SUBSET Flags, techs : SUBSET Techs,
             la_nfcid1 : Nfcid1, li_a_hb : setup.hist_bytes]

Nfcc == [bits : [ByteParams -> SUBSET Bits],
         nfcid1 : Nfcid1,
         hb : setup.hist_bytes,
         valid : BOOLEAN,
         max_table : Nat,
         supports : Kinds,
         table : Seq(Routes),
         routing : Kinds,
         map : SUBSET (Protocols \X {"poll", "listen"}),
         discover : SUBSET Techs]

Typed ==
    /\ setup \in Setups
    /\ dh \in Settings
    /\ nfcc \in Nfcc
    /\ nfcc.nfcid1.len # 0
    /\ stage \in Stages

\* What the parameters, the table, the map and the technologies that the NFCC
\* has taken have to do with the settings
Configured ==
    nfcc.valid =>
        /\ stage # "IDLE"
        /\ Equal(nfcc.nfcid1, dh.la_nfcid1)
        /\ \A p \in ByteParams : ConfigByteOk(nfcc.bits[p], Expected(p), Mask[p])

Routed == nfcc.routing # "none" => nfcc.table = Table(nfcc.routing)

MapSent == stage \in {"mapped", "DISCOVERY"} => nfcc.map = InterfaceMap

DiscoverSent == stage = "DISCOVERY" => nfcc.discover = DiscoverTechs

IInv == Typed /\ Configured /\ Routed /\ MapSent /\ DiscoverSent

-----------------------------------------------------------------------------
(***************************************************************************)
(* The operators                                                           *)
(***************************************************************************)

\* What is expected of the bits of a parameter is within its mask.
LEMMA ExpectedInMask ==
  ASSUME NEW p \in ByteParams
  PROVE  /\ Expected(p) \subseteq Mask[p]
         /\ Mask[p] \subseteq Bits
  <1>1. CASE p = "LA_SENS_RES_1"
    BY <1>1 DEF Expected, Mask, ByteParams, SensResExpected, Bits
  <1>2. CASE p = "LA_SEL_INFO"
    BY <1>2 DEF Expected, Mask, ByteParams, SelInfoExpected, Bits
  <1>3. CASE p = "LF_PROTOCOL_TYPE"
    BY <1>3 DEF Expected, Mask, ByteParams, ProtocolTypeExpected, Bits
  <1> QED
    BY <1>1, <1>2, <1>3 DEF ByteParams

\* The routing tables are sequences of routes.
LEMMA TableType ==
  ASSUME NEW kind \in Kinds, kind # "none"
  PROVE  Table(kind) \in Seq(Routes)
  <1>1. ASSUME NEW t \in Seq(Routes), NEW e \in Routes, NEW c \in BOOLEAN
        PROVE  AddIf(c, e, t) \in Seq(Routes)
    BY DEF AddIf, AddRoutingEntry
  <1>2. ASSUME NEW t \in Seq(Routes)
        PROVE  ProtocolRoutingEntries(t) \in Seq(Routes)
    BY <1>1 DEF ProtocolRoutingEntries, Routes
  <1>3. ASSUME NEW t \in Seq(Routes)
        PROVE  TechRoutingEntries(t) \in Seq(Routes)
    BY <1>1 DEF TechRoutingEntries, Routes
  <1>4. << >> \in Seq(Routes)
    OBVIOUS
  <1> QED
    BY <1>2, <1>3, <1>4 DEF Table, Kinds

LEMMA MapType ==
  /\ InterfaceMap \in SUBSET (Protocols \X {"poll", "listen"})
  /\ DiscoverTechs \in SUBSET dh.techs
  <1>1. InterfaceMap \in SUBSET (Protocols \X {"poll", "listen"})
    BY DEF InterfaceMap, Mapped, Protocols
  <1>2. DiscoverTechs \in SUBSET dh.techs
    BY DEF DiscoverTechs
  <1> QED
    BY <1>1, <1>2

\* The commands after CORE_SET_CONFIG follow from the modes, the technologies
\* and the size of the table of the NFCC.
LEMMA SameModes ==
  ASSUME dh'.op_mode = dh.op_mode, dh'.techs = dh.techs,
         nfcc'.max_table = nfcc.max_table
  PROVE  /\ \A kind \in Kinds : Table(kind)' = Table(kind)
         /\ InterfaceMap' = InterfaceMap
         /\ DiscoverTechs' = DiscoverTechs
         /\ SelInfoExpected' = SelInfoExpected
         /\ ProtocolTypeExpected' = ProtocolTypeExpected
  <1>1. ASSUME NEW kind \in Kinds PROVE Table(kind)' = Table(kind)
    BY DEF Table, ProtocolRoutingEntries, TechRoutingEntries, AddIf, AddRoutingEntry
  <1>2. InterfaceMap' = InterfaceMap /\ DiscoverTechs' = DiscoverTechs
    BY DEF InterfaceMap, DiscoverTechs
  <1>3. /\ SelInfoExpected' = SelInfoExpected
        /\ ProtocolTypeExpected' = ProtocolTypeExpected
    BY DEF SelInfoExpected, ProtocolTypeExpected, PeerListen
  <1> QED
    BY <1>1, <1>2, <1>3

\* A dynamic NFCID1 in place of another one, and only that, leaves everything
\* that has been told to the NFCC right.
LEMMA EqualIdentities ==
  ASSUME NEW id \in Nfcid1, NEW old \in Nfcid1, NEW new \in Nfcid1,
         id.len # 0, Equal(id, old), Equal(new, old)
  PROVE  /\ Equal(id, new)
         /\ old.len \in {7, 10} \/ new.len \in {7, 10} => old.len = new.len
  BY DEF Equal, Dynamic, Nfcid1

-----------------------------------------------------------------------------
(***************************************************************************)
(* The steps                                                               *)
(***************************************************************************)
LEMMA InitIInv == Init => IInv
  <1> SUFFICES ASSUME Init PROVE IInv
    OBVIOUS
  <1> USE DiscoverConfigAssumption
  <1>1. Typed
    <2>1. setup \in Setups /\ dh \in Settings /\ stage \in Stages
      BY DEF Init, Settings, Stages
    <2>2. PICK other \in SUBSET {"other"}, max \in setup.table_sizes, kind \in setup.routing :
            nfcc = [bits |-> [p \in ByteParams |-> other],
                    nfcid1 |-> [len |-> 4, bytes |-> "dynamic"],
                    hb |-> NoHistBytes, valid |-> FALSE, max_table |-> max,
                    supports |-> kind, table |-> << >>, routing |-> "none",
                    map |-> {}, discover |-> {}]
      BY DEF Init
    <2>3. /\ [p \in ByteParams |-> other] \in [ByteParams -> SUBSET Bits]
          /\ [len |-> 4, bytes |-> "dynamic"] \in Nfcid1
          /\ NoHistBytes \in setup.hist_bytes
          /\ max \in Nat /\ kind \in Kinds
          /\ "none" \in Kinds
      BY <2>1 DEF Bits, Nfcid1, Kinds
    <2>4. << >> \in Seq(Routes)
      OBVIOUS
    <2>5. nfcc \in Nfcc
      BY <2>2, <2>3, <2>4 DEF Nfcc
    <2>6. nfcc.nfcid1.len # 0
      BY <2>2
    <2> QED
      BY <2>1, <2>5, <2>6 DEF Typed
  <1>2. ~nfcc.valid /\ nfcc.routing = "none" /\ stage = "IDLE"
    BY DEF Init
  <1> QED
    BY <1>1, <1>2 DEF IInv, Configured, Routed, MapSent, DiscoverSent

\* Each command changes what it is about, and the stage.
LEMMA RouteIInv ==
  ASSUME IInv, NEW kind \in Kinds, Route(kind)
  PROVE  IInv'
  <1> DEFINE table == IF kind = "none" THEN << >> ELSE Table(kind)
  <1>1. /\ nfcc' = [nfcc EXCEPT !.routing = kind, !.table = table]
        /\ stage = "configured" /\ stage' = "routed"
        /\ UNCHANGED <<setup, dh>>
    BY DEF Route
  <1>2. Typed
    BY DEF IInv
  <1>3. table \in Seq(Routes)
    <2>1. << >> \in Seq(Routes)
      OBVIOUS
    <2> QED
      BY <2>1, TableType
  <1>4. kind # "none" => table = Table(kind)
    OBVIOUS
  <1> HIDE DEF table
  <1>5. Typed'
    BY <1>1, <1>2, <1>3 DEF Typed, Settings, Nfcc, Stages
  <1>6. /\ nfcc'.max_table = nfcc.max_table /\ nfcc'.valid = nfcc.valid
        /\ nfcc'.bits = nfcc.bits /\ nfcc'.nfcid1 = nfcc.nfcid1
        /\ nfcc'.routing = kind /\ nfcc'.table = table
    BY <1>1, <1>2 DEF Typed, Nfcc
  <1>7. Configured'
    BY <1>1, <1>6 DEF IInv, Configured, Expected, SensResExpected,
       SelInfoExpected, ProtocolTypeExpected, PeerListen
  <1>8. Routed'
    BY <1>1, <1>4, <1>6, SameModes DEF Routed
  <1> QED
    BY <1>1, <1>5, <1>7, <1>8 DEF IInv, MapSent, DiscoverSent

LEMMA MapIInv ==
  ASSUME IInv, Map
  PROVE  IInv'
  <1>1. /\ nfcc' = [nfcc EXCEPT !.map = InterfaceMap]
        /\ stage = "routed" /\ stage' = "mapped"
        /\ UNCHANGED <<setup, dh>>
    BY DEF Map
  <1>2. Typed
    BY DEF IInv
  <1>3. Typed'
    BY <1>1, <1>2, MapType DEF Typed, Settings, Nfcc, Stages
  <1>4. /\ nfcc'.max_table = nfcc.max_table /\ nfcc'.valid = nfcc.valid
        /\ nfcc'.bits = nfcc.bits /\ nfcc'.nfcid1 = nfcc.nfcid1
        /\ nfcc'.routing = nfcc.routing /\ nfcc'.table = nfcc.table
        /\ nfcc'.map = InterfaceMap
    BY <1>1, <1>2 DEF Typed, Nfcc
  <1>5. Configured'
    BY <1>1, <1>4 DEF IInv, Configured, Expected, SensResExpected,
       SelInfoExpected, ProtocolTypeExpected, PeerListen
  <1>6. Routed' /\ MapSent'
    BY <1>1, <1>2, <1>4, SameModes DEF IInv, Typed, Nfcc, Routed, MapSent
  <1> QED
    BY <1>1, <1>3, <1>5, <1>6 DEF IInv, DiscoverSent

LEMMA DiscoverIInv ==
  ASSUME IInv, Discover
  PROVE  IInv'
  <1>1. /\ nfcc' = [nfcc EXCEPT !.discover = DiscoverTechs]
        /\ stage = "mapped" /\ stage' = "DISCOVERY"
        /\ UNCHANGED <<setup, dh>>
    BY DEF Discover
  <1>2. Typed
    BY DEF IInv
  <1>3. DiscoverTechs \in SUBSET Techs
    BY <1>2, MapType DEF Typed, Settings
  <1>4. Typed'
    BY <1>1, <1>2, <1>3 DEF Typed, Settings, Nfcc, Stages
  <1>5. /\ nfcc'.max_table = nfcc.max_table /\ nfcc'.valid = nfcc.valid
        /\ nfcc'.bits = nfcc.bits /\ nfcc'.nfcid1 = nfcc.nfcid1
        /\ nfcc'.routing = nfcc.routing /\ nfcc'.table = nfcc.table
        /\ nfcc'.map = nfcc.map /\ nfcc'.discover = DiscoverTechs
    BY <1>1, <1>2 DEF Typed, Nfcc
  <1>6. Configured'
    BY <1>1, <1>5 DEF IInv, Configured, Expected, SensResExpected,
       SelInfoExpected, ProtocolTypeExpected, PeerListen
  <1>7. Routed' /\ MapSent' /\ DiscoverSent'
    BY <1>1, <1>2, <1>5, SameModes
    DEF IInv, Typed, Nfcc, Routed, MapSent, DiscoverSent
  <1> QED
    BY <1>4, <1>6, <1>7 DEF IInv

\* The NFCC takes the parameters, or it does not and they are not valid.
LEMMA ConfigureIInv ==
  ASSUME IInv, NEW ok \in BOOLEAN, NEW reported, NEW taken \in BOOLEAN,
         Configure(ok, reported, taken)
  PROVE  IInv'
  <1> DEFINE params == IF ok THEN Wrong(reported) ELSE Params
             set == SetConfig(params, reported)
  <1>1. /\ nfcc' = IF params = {} \/ taken THEN set ELSE [nfcc EXCEPT !.valid = FALSE]
        /\ stage = "IDLE" /\ stage' = "configured"
        /\ ~ok => reported = {}
        /\ UNCHANGED <<setup, dh>>
    BY DEF Configure
  <1>2. Typed
    BY DEF IInv
  <1>3. /\ Nfcid1Expected \in Nfcid1 /\ Nfcid1Expected.len # 0
        /\ Equal(Nfcid1Expected, dh.la_nfcid1)
    BY <1>2 DEF Typed, Settings, Nfcid1Expected, Nfcid1, Equal, Dynamic
  <1>4. ASSUME NEW p \in ByteParams
        PROVE  /\ set.bits[p] \in SUBSET Bits
               /\ ConfigByteOk(set.bits[p], Expected(p), Mask[p])
    <2>1. nfcc.bits[p] \in SUBSET Bits
      BY <1>2 DEF Typed, Nfcc
    <2>2. set.bits[p] = IF p \notin params THEN nfcc.bits[p]
                        ELSE IF p \in reported
                             THEN ConfigByte(nfcc.bits[p], Expected(p), Mask[p])
                             ELSE Expected(p)
      BY <1>2 DEF SetConfig, Typed, Nfcc
    <2>3. p \notin params => ConfigByteOk(nfcc.bits[p], Expected(p), Mask[p])
      <3>1. p \in Params
        BY DEF Params
      <3>2. p \in Wrong(reported) \/ ConfigByteOk(nfcc.bits[p], Expected(p), Mask[p])
        BY DEF Wrong
      <3> QED
        BY <3>1, <3>2
    <2>4. ConfigByteOk(Expected(p), Expected(p), Mask[p])
      BY ExpectedInMask DEF ConfigByteOk
    <2>5. ConfigByteOk(ConfigByte(nfcc.bits[p], Expected(p), Mask[p]),
                       Expected(p), Mask[p])
      BY ExpectedInMask DEF ConfigByteOk, ConfigByte
    <2>6. Expected(p) \in SUBSET Bits
      BY ExpectedInMask
    <2>7. ConfigByte(nfcc.bits[p], Expected(p), Mask[p]) \in SUBSET Bits
      BY <2>1, <2>6 DEF ConfigByte
    <2> HIDE DEF set, params
    <2> QED
      BY <2>1, <2>2, <2>3, <2>4, <2>5, <2>6, <2>7
  <1>5. /\ set.nfcid1 \in Nfcid1 /\ set.nfcid1.len # 0
        /\ Equal(set.nfcid1, dh.la_nfcid1)
    <2>1. set.nfcid1 = IF "LA_NFCID1" \in params THEN Nfcid1Expected ELSE nfcc.nfcid1
      BY <1>2 DEF SetConfig, Typed, Nfcc
    <2>2. "LA_NFCID1" \notin params => Equal(nfcc.nfcid1, Nfcid1Expected)
      BY DEF Wrong, Params
    <2>3. nfcc.nfcid1 \in Nfcid1 /\ nfcc.nfcid1.len # 0 /\ dh.la_nfcid1 \in Nfcid1
      BY <1>2 DEF Typed, Nfcc, Settings
    <2> HIDE DEF params, set
    <2>4. CASE "LA_NFCID1" \in params
      BY <1>3, <2>1, <2>4
    <2>5. CASE "LA_NFCID1" \notin params
      <3>1. set.nfcid1 = nfcc.nfcid1 /\ Equal(nfcc.nfcid1, Nfcid1Expected)
        BY <2>1, <2>2, <2>5
      <3>2. Equal(nfcc.nfcid1, dh.la_nfcid1)
        BY <3>1, <2>3 DEF Equal, Dynamic, Nfcid1, Nfcid1Expected
      <3> QED
        BY <3>1, <3>2, <2>3
    <2> QED
      BY <2>4, <2>5
  <1>6. set \in Nfcc
    <2>1. set = [nfcc EXCEPT !.valid = TRUE, !.bits = set.bits,
                             !.nfcid1 = set.nfcid1, !.hb = set.hb]
      BY <1>2 DEF SetConfig, Typed, Nfcc
    <2>2. set.hb \in setup.hist_bytes
      BY <1>2 DEF SetConfig, Typed, Nfcc, Settings
    <2>3. set.bits \in [ByteParams -> SUBSET Bits]
      <3>1. \E f : set.bits = [p \in ByteParams |-> f[p]]
        <4>1. set.bits = [p \in ByteParams |->
                IF p \notin params THEN nfcc.bits[p]
                ELSE IF p \in reported
                     THEN ConfigByte(nfcc.bits[p], Expected(p), Mask[p])
                     ELSE Expected(p)]
          BY <1>2 DEF SetConfig, Typed, Nfcc
        <4>2. set.bits = [p \in ByteParams |-> set.bits[p]]
          BY <4>1
        <4> QED
          BY <4>2
      <3> HIDE DEF set
      <3> QED
        BY <1>4, <3>1
    <2> HIDE DEF set
    <2> QED
      BY <1>2, <1>5, <2>1, <2>2, <2>3 DEF Typed, Nfcc
  <1>7. /\ set.max_table = nfcc.max_table /\ set.routing = nfcc.routing
        /\ set.table = nfcc.table
    BY <1>2 DEF SetConfig, Typed, Nfcc
  <1> HIDE DEF params, set
  <1>8. Typed'
    <2>1. nfcc' \in Nfcc /\ nfcc'.nfcid1.len # 0
      BY <1>1, <1>2, <1>5, <1>6 DEF Typed, Nfcc
    <2> QED
      BY <1>1, <1>2, <2>1 DEF Typed, Settings, Nfcc, Stages
  <1>9. /\ nfcc'.max_table = nfcc.max_table /\ nfcc'.routing = nfcc.routing
        /\ nfcc'.table = nfcc.table
        /\ nfcc'.valid => nfcc' = set
    BY <1>1, <1>2, <1>7 DEF Typed, Nfcc
  <1>10. Configured'
    BY <1>1, <1>4, <1>5, <1>9 DEF Configured, Expected, SensResExpected,
       SelInfoExpected, ProtocolTypeExpected, PeerListen
  <1>11. Routed'
    BY <1>1, <1>2, <1>9, SameModes DEF IInv, Typed, Nfcc, Routed
  <1> QED
    BY <1>1, <1>8, <1>10, <1>11 DEF IInv, MapSent, DiscoverSent

\* Settings that differ in a way that the NFCC can tell start all over.
LEMMA ReconfigureIInv ==
  ASSUME IInv, NEW settings \in Settings, Reconfigure(settings)
  PROVE  IInv'
  <1> DEFINE renamed == /\ settings = [dh EXCEPT !.la_nfcid1 = settings.la_nfcid1]
                        /\ Equal(settings.la_nfcid1, dh.la_nfcid1)
             cleared == [nfcc EXCEPT !.valid = FALSE, !.table = << >>,
                                     !.routing = "none", !.map = {}, !.discover = {}]
  <1>1. /\ dh' = settings /\ UNCHANGED setup
        /\ stage' = IF renamed THEN stage ELSE "IDLE"
        /\ nfcc' = IF renamed THEN nfcc ELSE cleared
    BY DEF Reconfigure
  <1>2. Typed
    BY DEF IInv
  <1>3. CASE renamed
    <2>1. dh'.op_mode = dh.op_mode /\ dh'.techs = dh.techs
      BY <1>1, <1>2, <1>3 DEF Typed, Settings
    <2>2. nfcc' = nfcc /\ stage' = stage /\ setup' = setup
      BY <1>1, <1>3
    <2>3. Typed'
      BY <1>1, <1>2, <2>2 DEF Typed, Settings, Nfcc, Stages
    <2>4. Configured'
      <3> SUFFICES ASSUME nfcc.valid
                   PROVE  /\ Equal(nfcc.nfcid1, dh'.la_nfcid1)
                          /\ \A p \in ByteParams : Expected(p)' = Expected(p)
        BY <2>2, Zenon DEF IInv, Configured, Equal, Dynamic, ConfigByteOk
      <3>1. Equal(nfcc.nfcid1, dh.la_nfcid1)
        BY DEF IInv, Configured
      <3>2. /\ nfcc.nfcid1 \in Nfcid1 /\ dh.la_nfcid1 \in Nfcid1
            /\ dh'.la_nfcid1 \in Nfcid1 /\ nfcc.nfcid1.len # 0
        BY <1>1, <1>2 DEF Typed, Nfcc, Settings
      <3>3. Equal(dh'.la_nfcid1, dh.la_nfcid1)
        BY <1>1, <1>3
      <3>4. Equal(nfcc.nfcid1, dh'.la_nfcid1)
        BY <3>1, <3>2, <3>3, EqualIdentities
      <3>5. SensResExpected' = SensResExpected
        <4>1. dh.la_nfcid1.len \in {7, 10} \/ dh'.la_nfcid1.len \in {7, 10}
                => dh.la_nfcid1.len = dh'.la_nfcid1.len
          BY <3>1, <3>2, <3>3, EqualIdentities
        <4> QED
          BY <4>1 DEF SensResExpected
      <3>6. \A p \in ByteParams : Expected(p)' = Expected(p)
        BY <2>1, <2>2, <3>5, SameModes DEF Expected
      <3> QED
        BY <3>4, <3>6
    <2>5. Routed' /\ MapSent' /\ DiscoverSent'
      BY <1>2, <2>1, <2>2, SameModes
      DEF IInv, Typed, Nfcc, Routed, MapSent, DiscoverSent
    <2> QED
      BY <2>3, <2>4, <2>5 DEF IInv
  <1>4. CASE ~renamed
    <2>1. nfcc' = cleared /\ stage' = "IDLE"
      BY <1>1, <1>4
    <2>2. << >> \in Seq(Routes)
      OBVIOUS
    <2>3. Typed'
      BY <1>1, <1>2, <2>1, <2>2 DEF Typed, Settings, Nfcc, Stages, Kinds
    <2>4. ~nfcc'.valid /\ nfcc'.routing = "none"
      BY <1>2, <2>1 DEF Typed, Nfcc
    <2> QED
      BY <2>1, <2>3, <2>4 DEF IInv, Configured, Routed, MapSent, DiscoverSent
  <1> QED
    BY <1>3, <1>4

\* What a client may ask for are settings.
LEMMA SettingsType ==
  ASSUME Typed
  PROVE  /\ \A mode \in setup.op_modes : [dh EXCEPT !.op_mode = mode] \in Settings
         /\ \A techs \in setup.techs : [dh EXCEPT !.techs = techs] \in Settings
         /\ \A id \in setup.nfcid1s \cup {dh.la_nfcid1}, hb \in setup.hist_bytes :
              [dh EXCEPT !.la_nfcid1 = NewNfcid1(id), !.li_a_hb = hb] \in Settings
         /\ [dh EXCEPT !.la_nfcid1 = DefaultNfcid1] \in Settings
         /\ [dh EXCEPT !.li_a_hb = NoHistBytes] \in Settings
  <1> USE DiscoverConfigAssumption
  <1>1. /\ setup.op_modes \subseteq SUBSET Flags /\ setup.techs \subseteq SUBSET Techs
        /\ setup.nfcid1s \subseteq Nfcid1 /\ NoHistBytes \in setup.hist_bytes
        /\ DefaultNfcid1 \in Nfcid1
    BY DEF Typed
  <1>2. dh \in Settings
    BY DEF Typed
  <1>3. ASSUME NEW id \in setup.nfcid1s \cup {dh.la_nfcid1}
        PROVE  NewNfcid1(id) \in Nfcid1
    <2>1. id \in Nfcid1 /\ dh.la_nfcid1 \in Nfcid1
      BY <1>1, <1>2 DEF Settings
    <2> QED
      BY <2>1 DEF NewNfcid1, Nfcid1
  <1> QED
    BY <1>1, <1>2, <1>3 DEF Settings

LEMMA NextIInv == IInv /\ [Next]_vars => IInv'
  <1> SUFFICES ASSUME IInv, [Next]_vars PROVE IInv'
    OBVIOUS
  <1>1. ASSUME NEW ok \in BOOLEAN, NEW reported \in setup.reports, NEW taken \in BOOLEAN,
               Configure(ok, reported, taken)
        PROVE  IInv'
    BY <1>1, ConfigureIInv
  <1>2. ASSUME NEW kind \in Kinds, Route(kind) PROVE IInv'
    BY <1>2, RouteIInv
  <1>3. CASE Map
    BY <1>3, MapIInv
  <1>4. CASE Discover
    BY <1>4, DiscoverIInv
  <1>5. ASSUME NEW mode \in setup.op_modes, SetOpMode(mode) PROVE IInv'
    BY <1>5, SettingsType, ReconfigureIInv DEF SetOpMode, IInv
  <1>6. ASSUME NEW techs \in setup.techs, SetTech(techs) PROVE IInv'
    BY <1>6, SettingsType, ReconfigureIInv DEF SetTech, IInv
  <1>7. ASSUME NEW id \in setup.nfcid1s \cup {dh.la_nfcid1}, NEW hb \in setup.hist_bytes,
               SetParams(id, hb)
        PROVE  IInv'
    BY <1>7, SettingsType, ReconfigureIInv DEF SetParams, IInv
  <1>8. ASSUME NEW p \in {"LA_NFCID1", "LI_A_HIST_BY"}, ResetParam(p) PROVE IInv'
    BY <1>8, SettingsType, ReconfigureIInv DEF ResetParam, IInv
  <1>9. CASE UNCHANGED vars
    <2>1. Typed' /\ Configured'
      BY <1>9 DEF vars, IInv, Typed, Settings, Nfcc, Configured, Equal, Dynamic,
         ConfigByteOk, Expected, SensResExpected, SelInfoExpected,
         ProtocolTypeExpected, PeerListen
    <2>2. Routed' /\ MapSent' /\ DiscoverSent'
      BY <1>9, SameModes DEF vars, IInv, Typed, Nfcc, Routed, MapSent, DiscoverSent
    <2> QED
      BY <2>1, <2>2 DEF IInv
  <1> QED
    BY <1>1, <1>2, <1>3, <1>4, <1>5, <1>6, <1>7, <1>8, <1>9 DEF Next, Kinds

\* What the NFCC has taken in each stage follows from the current settings of
\* the machine, whatever they have been before: nci_sm_set_op_mode and its
\* like send the machine back to IDLE whenever they have to.
THEOREM FollowsSettings == Spec => []IInv
  BY InitIInv, NextIInv, PTL DEF Spec

-----------------------------------------------------------------------------
(***************************************************************************)
(* The properties                                                          *)
(***************************************************************************)

\* RF_DISCOVER_CMD asks for nothing that RF_DISCOVER_MAP_CMD has given no
\* interface for (nci_transition_idle_to_discovery_discover).
THEOREM DiscoverableIsMapped == Spec => []DiscoveredIsMapped
  <1>1. IInv => DiscoveredIsMapped
    <2> SUFFICES ASSUME IInv, stage = "DISCOVERY", NEW t \in nfcc.discover
                 PROVE  \E p \in Carries(t) : <<p, Side(t)>> \in nfcc.map
      BY DEF DiscoveredIsMapped
    <2>1. nfcc.map = InterfaceMap /\ t \in DiscoverTechs
      BY DEF IInv, MapSent, DiscoverSent
    <2>2. t \in dh.techs
      BY <2>1, MapType
    <2>3. CASE t \in A_POLL
      <3>1. Side(t) = "poll" /\ {"ISO-DEP", "NFC-DEP"} \subseteq Carries(t)
        BY <2>3 DEF Side, Carries, A_POLL, F_POLL, A_LISTEN, F_LISTEN, TECH_B, TECH_V
      <3>2. "RW" \in dh.op_mode \/ {"PEER", "POLL"} \subseteq dh.op_mode
        BY <2>1, <2>3 DEF DiscoverTechs, A_POLL, A_LISTEN, F_LISTEN
      <3>3. \/ <<"ISO-DEP", "poll">> \in InterfaceMap
            \/ <<"NFC-DEP", "poll">> \in InterfaceMap
        BY <2>2, <2>3, <3>2 DEF InterfaceMap, Mapped
      <3> QED
        BY <2>1, <3>1, <3>3
    <2>4. CASE t \in F_POLL
      <3>1. Side(t) = "poll" /\ {"T3T", "NFC-DEP"} \subseteq Carries(t)
        BY <2>4 DEF Side, Carries, A_POLL, F_POLL, A_LISTEN, F_LISTEN, TECH_B, TECH_V
      <3>2. "RW" \in dh.op_mode \/ {"PEER", "POLL"} \subseteq dh.op_mode
        BY <2>1, <2>4 DEF DiscoverTechs, F_POLL, A_LISTEN, F_LISTEN
      <3>3. \/ <<"T3T", "poll">> \in InterfaceMap
            \/ <<"NFC-DEP", "poll">> \in InterfaceMap
        BY <2>2, <2>4, <3>2 DEF InterfaceMap, Mapped
      <3> QED
        BY <2>1, <3>1, <3>3
    <2>5. CASE t = "B_POLL"
      <3>1. Side(t) = "poll" /\ "ISO-DEP" \in Carries(t)
        BY <2>5 DEF Side, Carries, A_POLL, F_POLL, A_LISTEN, F_LISTEN, TECH_B, TECH_V
      <3>2. "RW" \in dh.op_mode
        BY <2>1, <2>5 DEF DiscoverTechs, A_POLL, F_POLL, A_LISTEN, F_LISTEN
      <3>3. <<"ISO-DEP", "poll">> \in InterfaceMap
        BY <2>2, <2>5, <3>2 DEF InterfaceMap, Mapped
      <3> QED
        BY <2>1, <3>1, <3>3
    <2>6. CASE t = "V_POLL"
      <3>1. Side(t) = "poll" /\ "T5T" \in Carries(t)
        BY <2>6 DEF Side, Carries, A_POLL, F_POLL, A_LISTEN, F_LISTEN, TECH_B, TECH_V
      <3>2. "RW" \in dh.op_mode
        BY <2>1, <2>6 DEF DiscoverTechs, A_POLL, F_POLL, A_LISTEN, F_LISTEN
      <3>3. <<"T5T", "poll">> \in InterfaceMap
        BY <2>2, <2>6, <3>2 DEF InterfaceMap, Mapped
      <3> QED
        BY <2>1, <3>1, <3>3
    <2>7. CASE t \in A_LISTEN
      <3>1. Side(t) = "listen" /\ {"ISO-DEP", "NFC-DEP"} \subseteq Carries(t)
        BY <2>7 DEF Side, Carries, A_POLL, F_POLL, A_LISTEN, F_LISTEN, TECH_B, TECH_V
      <3>2. "CE" \in dh.op_mode \/ {"PEER", "LISTEN"} \subseteq dh.op_mode
        BY <2>1, <2>7 DEF DiscoverTechs, A_LISTEN, A_POLL, F_POLL
      <3>3. \/ <<"ISO-DEP", "listen">> \in InterfaceMap
            \/ <<"NFC-DEP", "listen">> \in InterfaceMap
        BY <2>2, <2>7, <3>2 DEF InterfaceMap, Mapped
      <3> QED
        BY <2>1, <3>1, <3>3
    <2>8. CASE t \in F_LISTEN
      <3>1. Side(t) = "listen" /\ "NFC-DEP" \in Carries(t)
        BY <2>8 DEF Side, Carries, A_POLL, F_POLL, A_LISTEN, F_LISTEN, TECH_B, TECH_V
      <3>2. {"PEER", "LISTEN"} \subseteq dh.op_mode
        BY <2>1, <2>8 DEF DiscoverTechs, F_LISTEN, A_POLL, F_POLL
      <3>3. <<"NFC-DEP", "listen">> \in InterfaceMap
        BY <2>2, <2>8, <3>2 DEF InterfaceMap, Mapped
      <3> QED
        BY <2>1, <3>1, <3>3
    <2>9. CASE t = "B_LISTEN"
      <3>1. Side(t) = "listen" /\ "ISO-DEP" \in Carries(t)
        BY <2>9 DEF Side, Carries, A_POLL, F_POLL, A_LISTEN, F_LISTEN, TECH_B, TECH_V
      <3>2. "CE" \in dh.op_mode
        BY <2>1, <2>9 DEF DiscoverTechs, A_POLL, F_POLL, A_LISTEN, F_LISTEN
      <3>3. <<"ISO-DEP", "listen">> \in InterfaceMap
        BY <2>2, <2>9, <3>2 DEF InterfaceMap, Mapped
      <3> QED
        BY <2>1, <3>1, <3>3
    <2> QED
      BY <2>1, <2>3, <2>4, <2>5, <2>6, <2>7, <2>8, <2>9
      DEF DiscoverTechs, A_POLL, F_POLL, A_LISTEN, F_LISTEN
  <1> QED
    BY <1>1, FollowsSettings, PTL

\* LA_SEL_INFO and LF_PROTOCOL_TYPE advertise the interfaces that there are,
\* whatever the NFCC had in these parameters before.
THEOREM AdvertisedInterfaces == Spec => []AdvertisedIsMapped
  <1>1. IInv => AdvertisedIsMapped
    <2> SUFFICES ASSUME IInv, stage = "DISCOVERY", nfcc.valid
                 PROVE  AdvertisedIsMapped
      BY DEF AdvertisedIsMapped
    <2>1. nfcc.map = InterfaceMap /\ nfcc.discover = DiscoverTechs
      BY DEF IInv, MapSent, DiscoverSent
    <2>2. /\ nfcc.bits["LA_SEL_INFO"] \cap {"ISO_DEP", "NFC_DEP"} = SelInfoExpected
          /\ nfcc.bits["LF_PROTOCOL_TYPE"] \cap {"NFC_DEP"} = ProtocolTypeExpected
      BY DEF IInv, Configured, ConfigByteOk, ByteParams, Mask, Expected
    <2>3. /\ <<"ISO-DEP", "listen">> \in InterfaceMap <=>
                "CE" \in dh.op_mode /\ dh.techs \cap (A_LISTEN \cup {"B_LISTEN"}) # {}
          /\ <<"NFC-DEP", "listen">> \in InterfaceMap <=>
                PeerListen /\ dh.techs \cap (A_LISTEN \cup F_LISTEN) # {}
      BY DEF InterfaceMap, Mapped, PeerListen
    <2>4. DiscoverTechs \subseteq dh.techs
      BY MapType
    <2>5. ASSUME DiscoverTechs \cap A_LISTEN # {}
          PROVE  /\ "ISO_DEP" \in nfcc.bits["LA_SEL_INFO"]
                       <=> <<"ISO-DEP", "listen">> \in nfcc.map
                 /\ "NFC_DEP" \in nfcc.bits["LA_SEL_INFO"]
                       <=> <<"NFC-DEP", "listen">> \in nfcc.map
      BY <2>1, <2>2, <2>3, <2>4, <2>5 DEF SelInfoExpected
    <2>6. ASSUME DiscoverTechs \cap F_LISTEN # {}
          PROVE  "NFC_DEP" \in nfcc.bits["LF_PROTOCOL_TYPE"]
                    <=> <<"NFC-DEP", "listen">> \in nfcc.map
      BY <2>1, <2>2, <2>3, <2>4, <2>6 DEF ProtocolTypeExpected
    <2> QED
      BY <2>1, <2>5, <2>6 DEF AdvertisedIsMapped
  <1> QED
    BY <1>1, FollowsSettings, PTL

\* The NFCID1 is the one asked for and LA_SENS_RES_1 tells its length.
THEOREM IdentityIsOurs == Spec => []IdentityFits
  <1>1. IInv => IdentityFits
    <2> SUFFICES ASSUME IInv, nfcc.valid PROVE IdentityFits
      BY DEF IdentityFits
    <2>1. /\ Equal(nfcc.nfcid1, dh.la_nfcid1)
          /\ nfcc.bits["LA_SENS_RES_1"] \cap {"LEN_7", "LEN_10"} = SensResExpected
      BY DEF IInv, Configured, ConfigByteOk, ByteParams, Mask, Expected
    <2>2. /\ nfcc.nfcid1 \in Nfcid1 /\ dh.la_nfcid1 \in Nfcid1
          /\ nfcc.nfcid1.len # 0
      BY DEF IInv, Typed, Nfcc, Settings
    <2>3. SensResExpected = CASE nfcc.nfcid1.len = 4 -> {}
                              [] nfcc.nfcid1.len = 7 -> {"LEN_7"}
                              [] nfcc.nfcid1.len = 10 -> {"LEN_10"}
      BY <2>1, <2>2 DEF SensResExpected, Equal, Dynamic, Nfcid1
    <2> QED
      BY <2>1, <2>3 DEF IdentityFits
  <1> QED
    BY <1>1, FollowsSettings, PTL

\* CORE_SET_CONFIG (nci_transition_idle_to_discovery_set_config) leaves the
\* other bits of a parameter as the NFCC has reported them, and clears those of
\* one that it has not reported. No other step changes any bit of them.
THEOREM OthersKept == Spec => OtherBitsKept
  <1> DEFINE Kept ==
        /\ \A ok \in BOOLEAN, reported \in setup.reports, taken \in BOOLEAN, p \in ByteParams :
              Configure(ok, reported, taken) =>
                  OtherBits(nfcc'.bits, p) = IF taken /\ p \notin reported THEN {}
                                             ELSE OtherBits(nfcc.bits, p)
        /\ stage' # "configured" => nfcc'.bits = nfcc.bits
  <1>1. IInv /\ Next => Kept
    <2> SUFFICES ASSUME IInv, Next PROVE Kept
      OBVIOUS
    <2>1. ASSUME NEW ok \in BOOLEAN, NEW reported \in setup.reports, NEW taken \in BOOLEAN,
                 NEW p \in ByteParams, Configure(ok, reported, taken)
          PROVE  OtherBits(nfcc'.bits, p) = IF taken /\ p \notin reported THEN {}
                                            ELSE OtherBits(nfcc.bits, p)
      <3> DEFINE params == IF ok THEN Wrong(reported) ELSE Params
                 byte == IF p \notin params THEN nfcc.bits[p]
                         ELSE IF p \in reported
                              THEN ConfigByte(nfcc.bits[p], Expected(p), Mask[p])
                              ELSE Expected(p)
      <3>1. /\ ~ok => reported = {}
            /\ nfcc' = IF params = {} \/ taken THEN SetConfig(params, reported)
                                               ELSE [nfcc EXCEPT !.valid = FALSE]
        BY <2>1 DEF Configure
      <3>2. Expected(p) \subseteq Mask[p]
        BY ExpectedInMask
      <3>3. p \notin reported => p \in params
        BY <3>1 DEF Wrong, Params
      <3>4. CASE params = {} \/ taken
        <4>1. nfcc'.bits[p] = byte
          BY <3>1, <3>4 DEF SetConfig, IInv, Typed, Nfcc
        <4>2. CASE p \notin reported
          BY <3>2, <3>3, <3>4, <4>1, <4>2 DEF OtherBits
        <4>3. CASE p \in reported
          BY <3>2, <4>1, <4>3 DEF OtherBits, ConfigByte
        <4> QED
          BY <4>2, <4>3
      <3>5. CASE ~(params = {} \/ taken)
        BY <3>1, <3>5 DEF OtherBits, IInv, Typed, Nfcc
      <3> QED
        BY <3>4, <3>5
    <2>2. ASSUME stage' # "configured" PROVE nfcc'.bits = nfcc.bits
      <3>1. \A ok, reported, taken : ~Configure(ok, reported, taken)
        BY <2>2 DEF Configure
      <3>2. \A settings : Reconfigure(settings) => nfcc'.bits = nfcc.bits
        BY DEF Reconfigure, IInv, Typed, Nfcc
      <3>3. \A kind : Route(kind) => nfcc'.bits = nfcc.bits
        BY DEF Route, IInv, Typed, Nfcc
      <3>4. Map \/ Discover => nfcc'.bits = nfcc.bits
        BY DEF Map, Discover, IInv, Typed, Nfcc
      <3> QED
        BY <3>1, <3>2, <3>3, <3>4
        DEF Next, SetOpMode, SetTech, SetParams, ResetParam
    <2> QED
      BY <2>1, <2>2
  <1>2. IInv /\ [Next]_vars => [Kept]_vars
    BY <1>1
  <1> HIDE DEF Kept
  <1>3. Spec => [][Kept]_vars
    BY <1>2, FollowsSettings, PTL DEF Spec
  <1> QED
    BY <1>3 DEF OtherBitsKept, Kept

-----------------------------------------------------------------------------
(***************************************************************************)
(* The routing table                                                       *)
(***************************************************************************)
Has(table, entry) == \E i \in DOMAIN table : table[i] = entry

\* There is space for one entry more.
Roomy(table) == (Len(table) + 1) * EntrySize <= nfcc.max_table

\* The size of the table exceeds the limit by the size of one entry at most.
AlmostFits(table) == Len(table) * EntrySize <= nfcc.max_table + EntrySize

\* An entry that is due is missing from a table that is full, only.
LEMMA AddIfAdds ==
  ASSUME Typed, NEW t \in Seq(Routes), NEW e \in Routes, NEW c \in BOOLEAN
  PROVE  /\ AddIf(c, e, t) \in Seq(Routes)
         /\ Roomy(AddIf(c, e, t)) => Roomy(t)
         /\ Roomy(AddIf(c, e, t)) /\ c => Has(AddIf(c, e, t), e)
         /\ \A x \in Routes : Has(t, x) => Has(AddIf(c, e, t), x)
         /\ AlmostFits(t) => AlmostFits(AddIf(c, e, t))
  <1> DEFINE r == AddIf(c, e, t)
             fits == c /\ Len(t) * EntrySize <= nfcc.max_table
  <1>1. EntrySize \in Nat \ {0} /\ nfcc.max_table \in Nat /\ Len(t) \in Nat
    BY DiscoverConfigAssumption DEF Typed, Nfcc
  <1>2. CASE fits
    <2>1. /\ r = Append(t, e) /\ r \in Seq(Routes)
          /\ Len(r) = Len(t) + 1
          /\ r[Len(t) + 1] = e
          /\ \A i \in 1 .. Len(t) : r[i] = t[i]
          /\ DOMAIN r = 1 .. Len(t) + 1 /\ DOMAIN t = 1 .. Len(t)
      BY <1>2 DEF AddIf, AddRoutingEntry
    <2> HIDE DEF r
    <2>2. Roomy(r) => Roomy(t)
      BY <1>1, <2>1 DEF Roomy
    <2>3. Has(r, e)
      BY <1>1, <2>1 DEF Has
    <2>4. \A x \in Routes : Has(t, x) => Has(r, x)
      BY <1>1, <2>1 DEF Has
    <2>5. AlmostFits(r)
      BY <1>1, <1>2, <2>1 DEF AlmostFits
    <2> QED
      BY <2>1, <2>2, <2>3, <2>4, <2>5 DEF r
  <1>3. CASE ~fits
    <2>1. r = t
      BY <1>3 DEF AddIf, AddRoutingEntry
    <2>2. c => ~Roomy(t)
      BY <1>1, <1>3 DEF Roomy
    <2> QED
      BY <2>1, <2>2
  <1> QED
    BY <1>2, <1>3

\* The technologies to listen on are in the table of technologies, whatever
\* has been put into it before.
LEMMA TechEntriesAdded ==
  ASSUME Typed, NEW t \in Seq(Routes)
  PROVE  /\ TechRoutingEntries(t) \in Seq(Routes)
         /\ Roomy(TechRoutingEntries(t)) =>
              /\ dh.techs \cap TECH_A # {} => Has(TechRoutingEntries(t), "A")
              /\ dh.techs \cap TECH_B # {} => Has(TechRoutingEntries(t), "B")
              /\ dh.techs \cap F_LISTEN # {} /\ "PEER" \in dh.op_mode
                    => Has(TechRoutingEntries(t), "F")
         /\ AlmostFits(t) => AlmostFits(TechRoutingEntries(t))
  <1> DEFINE f == dh.techs \cap F_LISTEN # {} /\ dh.op_mode \cap {"RW", "PEER"} # {}
             a == dh.techs \cap TECH_A # {}
             b == dh.techs \cap TECH_B # {}
             t1 == AddIf(f, "F", t)
             t2 == AddIf(b, "B", t1)
             t3 == AddIf(a, "A", t2)
  <1>1. TechRoutingEntries(t) = t3
    BY DEF TechRoutingEntries
  <1>2. {"F", "B", "A"} \subseteq Routes /\ f \in BOOLEAN /\ a \in BOOLEAN /\ b \in BOOLEAN
    BY DEF Routes
  <1>3. "PEER" \in dh.op_mode /\ dh.techs \cap F_LISTEN # {} => f
    OBVIOUS
  <1> HIDE DEF f
  <1>4. /\ t1 \in Seq(Routes) /\ Roomy(t1) /\ f => Has(t1, "F")
        /\ AlmostFits(t) => AlmostFits(t1)
    BY <1>2, AddIfAdds
  <1>5. t1 \in Seq(Routes)
    BY <1>2, AddIfAdds
  <1> HIDE DEF t1
  <1>6. /\ t2 \in Seq(Routes) /\ Roomy(t2) => Roomy(t1)
        /\ Roomy(t2) /\ b => Has(t2, "B")
        /\ Has(t1, "F") => Has(t2, "F")
        /\ AlmostFits(t1) => AlmostFits(t2)
    BY <1>2, <1>5, AddIfAdds
  <1>7. t2 \in Seq(Routes)
    BY <1>2, <1>5, AddIfAdds
  <1> HIDE DEF t2
  <1>8. /\ t3 \in Seq(Routes)
        /\ Roomy(t3) => Roomy(t2)
        /\ Roomy(t3) /\ a => Has(t3, "A")
        /\ \A x \in {"F", "B"} : Has(t2, x) => Has(t3, x)
        /\ AlmostFits(t2) => AlmostFits(t3)
    BY <1>2, <1>7, AddIfAdds
  <1> HIDE DEF t3
  <1> QED
    BY <1>1, <1>3, <1>4, <1>5, <1>6, <1>7, <1>8

LEMMA ProtocolEntriesAdded ==
  ASSUME Typed, NEW t \in Seq(Routes)
  PROVE  /\ ProtocolRoutingEntries(t) \in Seq(Routes)
         /\ AlmostFits(t) => AlmostFits(ProtocolRoutingEntries(t))
  BY AddIfAdds DEF ProtocolRoutingEntries, Routes

\* Whatever the NFCC discovers and listens on is routed to the host, unless
\* the routing table is full (nci_transition_idle_to_discovery_set_routing).
THEOREM ListenersAreRouted == Spec => []ListenTechsAreRouted
  <1>1. IInv => ListenTechsAreRouted
    <2> SUFFICES ASSUME IInv, stage = "DISCOVERY",
                        nfcc.routing \in {"mixed", "technology"},
                        ~((Len(nfcc.table) + 1) * EntrySize > nfcc.max_table),
                        NEW t \in nfcc.discover, Side(t) = "listen"
                 PROVE  Has(nfcc.table, CASE t \in A_LISTEN -> "A"
                                          [] t \in F_LISTEN -> "F"
                                          [] t \in TECH_B -> "B")
      BY DEF ListenTechsAreRouted, Has
    <2>1. Typed /\ t \in DiscoverTechs /\ t \in dh.techs
      BY MapType DEF IInv, DiscoverSent
    <2>2. Roomy(nfcc.table)
      <3>1. nfcc.max_table \in Nat /\ nfcc.table \in Seq(Routes)
        BY <2>1 DEF Typed, Nfcc
      <3>2. Len(nfcc.table) \in Nat /\ EntrySize \in Nat
        BY <3>1, DiscoverConfigAssumption
      <3> QED
        BY <3>1, <3>2 DEF Roomy
    <2>3. PICK before \in Seq(Routes) : nfcc.table = TechRoutingEntries(before)
      <3>1. << >> \in Seq(Routes)
        OBVIOUS
      <3>2. ProtocolRoutingEntries(<< >>) \in Seq(Routes)
        BY <2>1, <3>1, ProtocolEntriesAdded
      <3>3. nfcc.table = Table(nfcc.routing)
        BY DEF IInv, Routed
      <3> QED
        BY <3>1, <3>2, <3>3 DEF Table
    <2>4. /\ dh.techs \cap TECH_A # {} => Has(nfcc.table, "A")
          /\ dh.techs \cap TECH_B # {} => Has(nfcc.table, "B")
          /\ dh.techs \cap F_LISTEN # {} /\ "PEER" \in dh.op_mode
                => Has(nfcc.table, "F")
      BY <2>1, <2>2, <2>3, TechEntriesAdded
    <2>5. CASE t \in A_LISTEN
      BY <2>1, <2>4, <2>5 DEF TECH_A, A_LISTEN, F_LISTEN, TECH_B
    <2>6. CASE t \in F_LISTEN
      <3>1. "PEER" \in dh.op_mode
        BY <2>1, <2>6 DEF DiscoverTechs, F_LISTEN, A_LISTEN, A_POLL, F_POLL
      <3> QED
        BY <2>1, <2>4, <2>6, <3>1 DEF A_LISTEN, F_LISTEN, TECH_B
    <2>7. CASE t = "B_LISTEN"
      BY <2>1, <2>4, <2>7 DEF TECH_B, A_LISTEN, F_LISTEN
    <2>8. t # "V_LISTEN"
      BY <2>1 DEF DiscoverTechs, A_POLL, F_POLL, A_LISTEN, F_LISTEN
    <2> QED
      BY <2>5, <2>6, <2>7, <2>8 DEF Side
  <1> QED
    BY <1>1, FollowsSettings, PTL

\* Even though what is compared with the limit is the size of the table before
\* an entry is added, the table exceeds the limit by one entry at most.
THEOREM TableAlmostFits == Spec => [](nfcc.routing # "none" => AlmostFits(nfcc.table))
  <1>1. IInv => (nfcc.routing # "none" => AlmostFits(nfcc.table))
    <2> SUFFICES ASSUME IInv, nfcc.routing # "none" PROVE AlmostFits(nfcc.table)
      OBVIOUS
    <2>1. Typed /\ nfcc.table = Table(nfcc.routing) /\ nfcc.routing \in Kinds
      BY DEF IInv, Routed, Typed, Nfcc
    <2>2. << >> \in Seq(Routes)
      OBVIOUS
    <2>3. AlmostFits(<< >>)
      BY <2>1, DiscoverConfigAssumption DEF AlmostFits, Typed, Nfcc
    <2>4. ProtocolRoutingEntries(<< >>) \in Seq(Routes)
      BY <2>1, <2>2, ProtocolEntriesAdded
    <2>5. /\ AlmostFits(ProtocolRoutingEntries(<< >>))
          /\ AlmostFits(TechRoutingEntries(<< >>))
      BY <2>1, <2>2, <2>3, ProtocolEntriesAdded, TechEntriesAdded
    <2>6. AlmostFits(TechRoutingEntries(ProtocolRoutingEntries(<< >>)))
      BY <2>1, <2>4, <2>5, TechEntriesAdded
    <2> QED
      BY <2>1, <2>5, <2>6 DEF Table, Kinds
  <1> QED
    BY <1>1, FollowsSettings, PTL
=============================================================================
