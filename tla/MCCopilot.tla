----------------------------- MODULE MCCopilot -----------------------------
(***************************************************************************)
(* Two requests for one case at up to two workers.                         *)
(***************************************************************************)
EXTENDS Copilot

CONSTANTS First, Second
=============================================================================
