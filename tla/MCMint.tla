------------------------------- MODULE MCMint -------------------------------
(* Instances of Mint for TLC. *)
EXTENDS Mint, TLC
=============================================================================
