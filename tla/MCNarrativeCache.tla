-------------------------- MODULE MCNarrativeCache --------------------------
(***************************************************************************)
(* Two processes and two requests over one case that nobody has opened.    *)
(***************************************************************************)
EXTENDS NarrativeCache

Opened(route) == <<"open", route>>

Mixed == {Opened("risk_assessment"), Opened("plan"), Opened("copilot"), ReloadAll}
PlanAndCopilot == {Opened("plan"), Opened("copilot")}
=============================================================================
