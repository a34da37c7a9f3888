------------------------------ MODULE MCReports ------------------------------
(***************************************************************************)
(* Two requests, of either route, for a case with up to two connections.   *)
(***************************************************************************)
EXTENDS Reports, TLC

CONSTANTS Employer, Address

Swap == Permutations(Facts)
Plain == {<<"json", FALSE>>, <<"pdf", FALSE>>}
Every == {"json", "pdf"} \X BOOLEAN
=============================================================================
