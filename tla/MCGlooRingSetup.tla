--------------------------- MODULE MCGlooRingSetup ---------------------------
(***************************************************************************)
(* Values of the constants of GlooRingSetup for TLC.                       *)
(***************************************************************************)
EXTENDS GlooRingSetupProps

Together == {{}, Rank}
Anybody == SUBSET Rank
=============================================================================
