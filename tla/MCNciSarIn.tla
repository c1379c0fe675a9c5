----------------------------- MODULE MCNciSarIn -----------------------------
(***************************************************************************)
(* Instances of NciSarIn for TLC.                                          *)
(***************************************************************************)
EXTENDS NciSarIn, TLC

\* Messages are only told apart.
Symmetry == Permutations(Messages)
=============================================================================
