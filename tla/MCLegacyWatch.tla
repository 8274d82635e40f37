--------------------------- MODULE MCLegacyWatch ---------------------------
(***************************************************************************)
(* LegacyWatch for TLC; the capacity of the channels is 1 instead of 10.   *)
(***************************************************************************)
EXTENDS LegacyWatch
=============================================================================
