--------------------------- MODULE MCCaseFindings ---------------------------
(* Subjects 1 (the primary one) and 2 are on the case, 3 is one hop from 1 and 4 one
   hop from 2; 9 belongs to their network from a case of its own. 1 has three prior
   cases: one recent, one old and one that nobody dated. *)
EXTENDS CaseFindings

Finding(rule, who, item) == [rule |-> rule, who |-> who, item |-> item]
MCFacts ==
    {Finding("Rule_01", {1, 3}, "pair"), Finding("Rule_01", {2, 4}, "pair"),
     Finding("Rule_02", {1}, "net"), Finding("Rule_02", {2}, "net"),
     Finding("Rule_02", {3}, "net"), Finding("Rule_02", {9}, "net"),
     Finding("Rule_07", {1}, "recent"), Finding("Rule_07", {1}, "old"),
     Finding("Rule_07", {1}, "undated"),
     Finding("Rule_08", {1}, "case"), Finding("Rule_13", {1}, "case"),
     Finding("Rule_11", {1}, "hub")}
MCPopulation == <<1, 2, 3, 4>>
MCDirect == {1, 2}
MCScopeOf == [s \in 1..4 |-> CASE s = 1 -> {1, 2, 3} [] s = 2 -> {1, 2, 4}
                               [] s = 3 -> {1, 3}    [] OTHER -> {2, 4}]
MCYearsOf == [prior \in {"recent", "old", "undated"} |->
                CASE prior = "recent" -> 1 [] prior = "old" -> 6 [] OTHER -> 99]
MCUndated == 99
=============================================================================
