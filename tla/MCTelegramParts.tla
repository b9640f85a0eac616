------------------------- MODULE MCTelegramParts -------------------------
(* A model of TelegramParts for TLC: one or two statistics jobs.          *)
EXTENDS TelegramParts, TLC

Symmetry == Permutations(Collector)
=============================================================================
