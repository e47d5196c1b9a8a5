------------------------- MODULE MCLegacyCollector -------------------------
(* Small instances of LegacyCollector. *)
EXTENDS LegacyCollector
=============================================================================
