---------------------------- MODULE MCNciParams ----------------------------
(***************************************************************************)
(* An instance of NciParams for TLC.                                       *)
(***************************************************************************)
EXTENDS NciParams

\* A dynamic NFCID1 in four bytes, and as many historical bytes as there may be:
\* those that a client adds one to are the same ones. With ten of them the
\* program does not start.
File(n) == [nfcid1 |-> [len |-> 8, hex |-> TRUE, bytes |-> "dynamic"],
            hb |-> [len |-> n, hex |-> TRUE, bytes |-> "x"]]
SomeFiles == {File(30), File(20)}

Wks(n) == [key |-> "LLC_WKS", value |-> n]
Nfcid1(n, b) == [key |-> "LA_NFCID1", value |-> [len |-> n, bytes |-> b]]
Hb(n, b) == [key |-> "LI_A_HB", value |-> [len |-> n, bytes |-> b]]
\* Of two NFCID1s one has a length that does not exist.
SomeLists == {<<Wks(258), Nfcid1(7, "x")>>, <<Nfcid1(5, "x"), Hb(16, "x")>>}
=============================================================================
