------------------------------- MODULE MCDiloco -------------------------------
(***************************************************************************)
(* Values of the constants of Diloco for TLC.                              *)
(***************************************************************************)
EXTENDS DilocoProps

EitherWay == {-1, 2}
=============================================================================
