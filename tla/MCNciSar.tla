------------------------------ MODULE MCNciSar ------------------------------
(***************************************************************************)
(* Instances of NciSar for TLC.                                            *)
(***************************************************************************)
EXTENDS NciSar
=============================================================================
