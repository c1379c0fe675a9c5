------------------------ MODULE MCNciDiscoverConfig ------------------------
(***************************************************************************)
(* Instances of NciDiscoverConfig for TLC.                                 *)
(***************************************************************************)
EXTENDS NciDiscoverConfig

AllModes == SUBSET Flags
\* Reader, peers, card, and all of them
MainModes == {{"RW", "POLL"}, {"PEER", "LISTEN"}, {"CE", "LISTEN"}, Flags}

\* Technologies switched on and off in groups, active listen A by itself
TechGroups == {A_POLL \cup {"A_LISTEN_PASSIVE"}, {"A_LISTEN_ACTIVE"}, TECH_B, TECH_F}
GroupedTechs == {TECH_V \cup UNION g : g \in SUBSET TechGroups}
MainTechs == {Techs, TECH_A, TECH_B, TECH_F}

DynamicId == [len |-> 0, bytes |-> "dynamic"]
Ids == {[len |-> 4, bytes |-> "dynamic"], [len |-> 4, bytes |-> "x"],
        [len |-> 7, bytes |-> "x"], [len |-> 10, bytes |-> "x"],
        [len |-> 10, bytes |-> "y"]}
SomeReports == {Params, Params \ {"LI_A_HIST_BY"}, {"LA_SEL_INFO", "LA_NFCID1"}, {}}

\* Clients that change modes and technologies, and one that changes identities
Setup(op_modes, techs, routing, table_size) ==
    [op_modes |-> op_modes, techs |-> techs, nfcid1s |-> {}, hist_bytes |-> {"none"},
     reports |-> {{}}, routing |-> routing, table_sizes |-> {table_size}]
ModesSetup == Setup(AllModes, GroupedTechs, {"protocol", "technology", "mixed"}, 40)
IdentitySetup == [Setup(MainModes, MainTechs, {"none"}, 40) EXCEPT
                    !.nfcid1s = Ids, !.hist_bytes = {"none", "hb"},
                    !.reports = SomeReports]

DiscoverSetups == {ModesSetup, IdentitySetup}
ProtocolSetups == {Setup(MainModes, MainTechs, {"protocol"}, 40)}
SmallTableSetups == {Setup(MainModes, MainTechs, {"mixed"}, 12)}
=============================================================================
