--------------------------- MODULE MCTestHarness ---------------------------
(***************************************************************************)
(* Tests of three requests of any kind, for TLC.                           *)
(***************************************************************************)
EXTENDS TestHarness, MCIngest
=============================================================================
