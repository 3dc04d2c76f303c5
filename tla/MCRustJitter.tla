---------------------------- MODULE MCRustJitter ----------------------------
(***************************************************************************)
(* Instances of RustJitter for TLC.                                        *)
(***************************************************************************)
EXTENDS RustJitter, TLC

OneMarket  == <<"m1">>

HandlerSymmetry == Permutations(Handlers)
=============================================================================
