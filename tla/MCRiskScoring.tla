--------------------------- MODULE MCRiskScoring ---------------------------
(**************************************************************************)
(* A rule of each strategy and bonus, over cases that differ in what      *)
(* AppWorks holds, scored with and without a summary. One rule's row pays *)
(* more by its own list than by its child rows, one has no child rows and *)
(* one pays less for more.                                                *)
(**************************************************************************)
EXTENDS RiskScoring, TLC

CONSTANTS snap, wages, other1, other2

Plain == [strategy |-> "numeric", dimension |-> "subject_history", max |-> 25, own |-> NoRows,
          inline |-> NoRows, bonus |-> "", extra |-> 0, targets |-> {}, labels |-> {}]
Steps(low, high) ==
    [steps |-> {[at |-> 1, points |-> low], [at |-> 2, points |-> high]}, named |-> {}]

MCCatalogue ==
    [history |-> [Plain EXCEPT !.own = Steps(10, 20), !.inline = Steps(12, 25),
                               !.bonus = "primary_ge2", !.extra = 10],
     exposure |-> [Plain EXCEPT !.dimension = "financial_exposure", !.max = 20,
                                !.inline = Steps(5, 15), !.bonus = "ordered_gt_2x_calculated", !.extra = 5],
     volume |-> [Plain EXCEPT !.dimension = "similar_case_volume", !.own = Steps(25, 5)],
     severity |-> [Plain EXCEPT !.dimension = "allegation_severity", !.max = 5,
                                !.bonus = "open_allegation", !.extra = 5],
     traits |-> [Plain EXCEPT !.strategy = "additive", !.max = 15,
                              !.own.named = {[when |-> "fast_track", points |-> 5],
                                             [when |-> "multiple_subjects", points |-> 12]}],
     snapMatch |-> [Plain EXCEPT !.strategy = "match", !.max = 10, !.targets = {snap}]]

Bare == [priors |-> 0, primary |-> 0, calculated |-> 0, ordered |-> 0, allegations |-> <<>>, holds |-> {}]
Allegation(open, similar) == [open |-> open, similar |-> similar]
MCHoldings ==
    {Bare,
     [Bare EXCEPT !.priors = 3, !.primary = 2, !.calculated = 2, !.ordered = 5, !.holds = Conditions,
                  !.allegations = <<Allegation(TRUE, {other1}), Allegation(FALSE, {other1, other2})>>],
     [Bare EXCEPT !.priors = 1, !.calculated = 2, !.ordered = 4, !.holds = {"multiple_subjects"},
                  !.allegations = <<Allegation(FALSE, {other1})>>]}

MCSummaries == {[NoFacts EXCEPT !.subject_history = 2, !.primary = 2, !.open = TRUE,
                                !.holds = {"multiple_subjects"}]}
=============================================================================
