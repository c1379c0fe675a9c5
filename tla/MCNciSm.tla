------------------------------ MODULE MCNciSm ------------------------------
(***************************************************************************)
(* Instances of NciSm for TLC.                                             *)
(***************************************************************************)
EXTENDS NciSm
=============================================================================
