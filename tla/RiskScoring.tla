---------------------------- MODULE RiskScoring ----------------------------
(**************************************************************************)
(* The base risk score of a case (appworks/risk_scoring.py): the rules    *)
(* and what AppWorks holds of the case are read in a fixed order of calls,*)
(* each of which may be lost, and what could be read is scored. The agent *)
(* calls the tool, sees its errors and may call it again                  *)
(* (agent_service/agent_runner.py, semantic_layer/dispatcher.py); the     *)
(* route then takes the score or fails (api/pipeline_execution.py).       *)
(**************************************************************************)
EXTENDS Integers, Sequences, FiniteSets, FiniteSetsExt

CONSTANTS
    Catalogue,      \* the active rules: what Rule makes of each
    FraudTypes,
    Cases,          \* other cases with an allegation of the same type
    Holdings,       \* what AppWorks may hold of the case
    Summaries,      \* the facts that a request's own ai_summary may carry
    MaxTurns        \* BSI_MAX_TURNS

Conditions == {"fast_track", "received_age_gt30", "multiple_subjects"}
Dimensions == {"subject_history", "financial_exposure", "similar_case_volume", "allegation_severity"}
Bonuses == {"", "primary_ge2", "ordered_gt_2x_calculated", "open_allegation"}

\* A list of thresholds, parsed; a row for "0 cases" is a step at 0 for no points. Conditions
\* that name another property of the workfolder are left out
Thresholds == [steps : SUBSET [at : Nat, points : Nat],
               named : SUBSET [when : Conditions, points : Nat]]
NoRows == [steps |-> {}, named |-> {}]

\* _fetch_risk_rules: a row of the catalogue, its child rows (own), and the list the row itself
\* may carry (inline), which nothing ties to the child rows; one that RiskRuleDef accepts
RuleRecords ==
    [strategy : {"numeric", "additive", "match"}, dimension : Dimensions, max : Nat,
     own : Thresholds, inline : Thresholds,
     bonus : Bonuses, extra : Nat, targets : SUBSET FraudTypes, labels : SUBSET FraudTypes]

Facts == [subject_history : Nat, primary : Nat, financial_exposure : Nat, ordered : Nat,
          similar_case_volume : Nat, allegation_severity : {0}, open : BOOLEAN,
          holds : SUBSET Conditions]

ASSUME CatalogueType == /\ Catalogue \in [DOMAIN Catalogue -> RuleRecords]
                        /\ IsFiniteSet(DOMAIN Catalogue)
                        /\ \A r \in DOMAIN Catalogue :
                              \A list \in {Catalogue[r].own, Catalogue[r].inline} :
                                  IsFiniteSet(list.steps) /\ IsFiniteSet(list.named)
                        /\ Summaries \subseteq {f \in Facts : "fast_track" \notin f.holds}
                        /\ MaxTurns \in Nat \ {0}

\* the case's own data, and the other cases that have an allegation of each type
ASSUME HoldingsType ==
    /\ IsFiniteSet(Cases)
    /\ Holdings \subseteq [priors : Nat, primary : Nat, calculated : Nat, ordered : Nat,
                           allegations : Seq([open : BOOLEAN, similar : SUBSET Cases]),
                           holds : SUBSET Conditions]

\* nothing read of the case: what a context starts from
NoFacts == [subject_history |-> 0, primary |-> 0, financial_exposure |-> 0, ordered |-> 0,
            similar_case_volume |-> 0, allegation_severity |-> 0, open |-> FALSE, holds |-> {}]

\* the calls of one calculation: "allegation" is the call for an allegation's own record
Calls == {"catalogue", "thresholds", "history", "workfolder", "financials", "volume",
          "allegations", "allegation", "subjects"}

VARIABLES
    held,       \* what AppWorks holds
    run,        \* the route's agent run
    lost        \* the calls the latest calculation lost

vars == <<held, run, lost>>

None == [score |-> 0, tier |-> "none"]
Tiers == {"LOW", "MEDIUM", "HIGH", "CRITICAL"}
Results == [score : 0..10000, tier : Tiers]
Ended == {"scored", "failed", "expired"}
Reading == {"catalogue", "thresholds", "history", "workfolder", "again", "financials", "volume",
            "allegations", "subjects"}
Runs == [phase : {"agent", "score"} \cup Reading \cup Ended,
         summary : {NoFacts} \cup Summaries,    \* ai_summary, NoFacts for none
         turn : 0..MaxTurns,                    \* the turn of the latest call
         types : SUBSET FraudTypes,             \* fraud_types, which the model passes
         rules : SUBSET DOMAIN Catalogue,
         bare : SUBSET DOMAIN Catalogue,        \* the rules whose child rows were lost
         facts : Facts,
         result : {None} \cup Results]

Init ==
    /\ held \in Holdings
    /\ \E s \in {NoFacts} \cup Summaries :
          run = [phase |-> "agent", summary |-> s, turn |-> 0, types |-> {}, rules |-> {},
                 bare |-> {}, facts |-> NoFacts, result |-> None]
    /\ lost = {}
---------------------------------------------------------------------------
\* A rule goes by its child rows; without any, by the list its own row carries
ListOf(rule, bare) == IF bare \/ rule.own = NoRows THEN rule.inline ELSE rule.own

\* _evaluate_numeric: the highest threshold the value reaches
Reached(rule, bare, facts) == {s \in ListOf(rule, bare).steps : facts[rule.dimension] >= s.at}
StepPoints(rule, bare, facts) ==
    LET reached == Reached(rule, bare, facts)
    IN IF reached = {} THEN 0
       ELSE (CHOOSE s \in reached : \A t \in reached : t.at <= s.at).points

Bonus(rule, facts) ==
    CASE rule.bonus = "primary_ge2" /\ facts.primary >= 2 -> rule.extra
      [] /\ rule.bonus = "ordered_gt_2x_calculated" /\ facts.financial_exposure > 0
         /\ facts.ordered > 2 * facts.financial_exposure -> rule.extra
      [] rule.bonus = "open_allegation" /\ facts.open -> rule.extra
      [] OTHER -> 0

\* _score_rule
Points(rule, bare, types, facts) ==
    CASE rule.strategy = "numeric" -> StepPoints(rule, bare, facts) + Bonus(rule, facts)
      [] rule.strategy = "additive" ->
            MapThenSumSet(LAMBDA c : c.points,
                          {c \in ListOf(rule, bare).named : c.when \in facts.holds})
      [] rule.strategy = "match" ->
            IF types \cap (rule.targets \cup rule.labels) # {} THEN rule.max ELSE 0

WeightUncapped(rule, bare, types, facts) ==         \* not in the code: the cap on the steps alone
    IF rule.strategy = "numeric"
    THEN Min({StepPoints(rule, bare, facts), rule.max}) + Bonus(rule, facts)
    ELSE Min({Points(rule, bare, types, facts), rule.max})
Weight(rule, bare, types, facts) == Min({Points(rule, bare, types, facts), rule.max})

Weights(bare, types, facts) ==
    [r \in DOMAIN Catalogue |-> Weight(Catalogue[r], r \in bare, types, facts)]

\* calculate_risk_metrics: a rule for other fraud types counts neither way
Applies(rule, types) == rule.targets # {} => rule.targets \cap types # {}

Rated(rules, types, weights) ==
    LET counted == {r \in rules : Applies(Catalogue[r], types)}
        earned == MapThenSumSet(LAMBDA r : weights[r], counted)
        most == MapThenSumSet(LAMBDA r : Catalogue[r].max, counted)
        over == IF most > 0 THEN most ELSE 100
    IN (20000 * earned + over) \div (2 * over)

Tier(score) == IF score >= 7500 THEN "CRITICAL" ELSE IF score >= 5000 THEN "HIGH"
               ELSE IF score >= 2500 THEN "MEDIUM" ELSE "LOW"
---------------------------------------------------------------------------
At(phase) == run.phase = phase

\* _run_loop: the agent stops or has no turn left, or it calls the tool, in the turn of its
\* latest call or in a later one. Of the messages of the tool the last one is what the route
\* sees
Stop ==
    /\ At("agent")
    /\ run' = [run EXCEPT !.phase = IF run.result = None THEN "failed" ELSE "scored"]
    /\ UNCHANGED <<held, lost>>

Call(types, turn) ==
    /\ At("agent") /\ run.turn <= turn
    /\ run' = [run EXCEPT !.phase = "catalogue", !.turn = turn, !.types = types,
                          !.rules = {}, !.bare = {}, !.facts = NoFacts, !.result = None]
    /\ lost' = {}
    /\ UNCHANGED held

\* a call that answers, or that fails and is passed over (safe_fetch, get_relationship_items)
Passes(call, misses) ==
    /\ lost' = IF misses THEN lost \cup {call} ELSE lost
    /\ UNCHANGED held

\* the list of rules, without which none is left
ReadCatalogue(misses) ==
    /\ At("catalogue") /\ Passes("catalogue", misses)
    /\ run' = [run EXCEPT !.phase = "thresholds", !.rules = IF misses THEN {} ELSE DOMAIN Catalogue]

\* the child rows of each rule that has some. With an ai_summary nothing else is read
Stepped(rules) == {r \in rules : Catalogue[r].own # NoRows}

ReadThresholds(bare) ==
    /\ At("thresholds") /\ bare \subseteq Stepped(run.rules) /\ Passes("thresholds", bare # {})
    /\ run' = IF run.summary = NoFacts THEN [run EXCEPT !.phase = "history", !.bare = bare]
              ELSE [run EXCEPT !.phase = "score", !.bare = bare, !.facts = run.summary]

ReadHistory(misses) ==
    /\ At("history") /\ Passes("history", misses)
    /\ run' = [run EXCEPT !.phase = "workfolder",
                  !.facts.subject_history = IF misses THEN 0 ELSE held.priors,
                  !.facts.primary = IF misses THEN 0 ELSE held.primary]

\* without the workfolder there are no links to follow
ReadWorkfolder(misses) ==
    /\ At("workfolder") /\ Passes("workfolder", misses)
    /\ run' = IF misses THEN [run EXCEPT !.phase = "score"]
              ELSE [run EXCEPT !.phase = "again", !.facts.holds = held.holds \ {"multiple_subjects"}]

\* the workfolder once more, in no try: a failure is the tool's error, an empty answer has
\* no allegations to count by
ReadAgain(reply) ==
    /\ At("again") /\ Passes("volume", reply # "ok")
    /\ run' = [run EXCEPT !.phase = IF reply = "fails" THEN "agent" ELSE "financials"]

ReadFinancials(misses) ==
    /\ At("financials") /\ Passes("financials", misses)
    /\ run' = [run EXCEPT !.phase = IF "volume" \in lost THEN "allegations" ELSE "volume",
                  !.facts.financial_exposure = IF misses THEN 0 ELSE held.calculated,
                  !.facts.ordered = IF misses THEN 0 ELSE held.ordered]

\* _fetch_similar_case_volume: the allegations whose type's list was reached before a failure
CountVolume(reached) ==
    /\ At("volume") /\ reached \subseteq DOMAIN held.allegations
    /\ Passes("volume", reached # DOMAIN held.allegations)
    /\ run' = [run EXCEPT !.phase = "allegations",
                  !.facts.similar_case_volume =
                      Cardinality(UNION {held.allegations[i].similar : i \in reached})]

\* an allegation whose own record is lost has no status, and none counts as open
OpenAmong(allegations, unread) == \E i \in DOMAIN allegations : allegations[i].open \/ i \in unread

ReadAllegations(misses, unread) ==
    /\ At("allegations") /\ unread \subseteq DOMAIN held.allegations
    /\ misses => unread = {}
    /\ lost' = lost \cup (IF misses THEN {"allegations"} ELSE {})
                    \cup (IF unread # {} THEN {"allegation"} ELSE {})
    /\ run' = [run EXCEPT !.phase = "subjects",
                  !.facts.open = ~misses /\ OpenAmong(held.allegations, unread)]
    /\ UNCHANGED held

ReadSubjects(misses) ==
    /\ At("subjects") /\ Passes("subjects", misses)
    /\ run' = [run EXCEPT !.phase = "score",
                  !.facts.holds = IF misses THEN run.facts.holds
                                  ELSE run.facts.holds \cup (held.holds \cap {"multiple_subjects"})]

Score ==
    /\ At("score")
    /\ LET score == Rated(run.rules, run.types, Weights(run.bare, run.types, run.facts))
       IN run' = [run EXCEPT !.phase = "agent", !.rules = {}, !.facts = NoFacts,
                             !.result = [score |-> score, tier |-> Tier(score)]]
    /\ UNCHANGED <<held, lost>>

\* AppWorks refuses the caller's token (401): nothing passes that over, the route included
RefusedQuietly ==       \* not in the code: a refusal is an answer without rows
    /\ run.phase \in Reading
    /\ run' = [run EXCEPT !.phase = "score"]
    /\ UNCHANGED <<held, lost>>

Refused ==
    /\ run.phase \in Reading
    /\ run' = [run EXCEPT !.phase = "expired"]
    /\ UNCHANGED <<held, lost>>

\* the model's service fails in a turn of its own
AgentFails ==
    /\ At("agent") /\ run.turn < MaxTurns
    /\ run' = [run EXCEPT !.phase = "failed"]
    /\ UNCHANGED <<held, lost>>

Proceed ==
    \/ Stop \/ Score
    \/ \E types \in SUBSET FraudTypes, turn \in 1..MaxTurns : Call(types, turn)
    \/ \E misses \in BOOLEAN :
          \/ ReadCatalogue(misses) \/ ReadHistory(misses) \/ ReadWorkfolder(misses)
          \/ ReadFinancials(misses) \/ ReadSubjects(misses)
          \/ \E unread \in SUBSET DOMAIN held.allegations : ReadAllegations(misses, unread)
    \/ \E bare \in SUBSET DOMAIN Catalogue : ReadThresholds(bare)
    \/ \E reply \in {"ok", "empty", "fails"} : ReadAgain(reply)
    \/ \E reached \in SUBSET DOMAIN held.allegations : CountVolume(reached)

Next == Proceed \/ Refused \/ AgentFails

Spec == Init /\ [][Next]_vars

---------------------------------------------------------------------------
\* Types; a score is a share of the points there were to earn, bonuses included
\* (_evaluate_numeric).
TypeOK ==
    /\ held \in Holdings
    /\ run \in Runs
    /\ lost \subseteq Calls

\* What AppWorks holds of the case, all of it read.
Whole ==
    IF run.summary # NoFacts THEN run.summary
    ELSE [subject_history |-> held.priors, primary |-> held.primary,
          financial_exposure |-> held.calculated, ordered |-> held.ordered,
          similar_case_volume |-> Cardinality(UNION {held.allegations[i].similar :
                                                     i \in DOMAIN held.allegations}),
          allegation_severity |-> 0, open |-> OpenAmong(held.allegations, {}), holds |-> held.holds]

\* The most a rule could weigh for these facts: of the steps they reach, the one that pays most.
MostReached(rule, bare, facts) == Max({0} \cup {s.points : s \in Reached(rule, bare, facts)})
Ceiling(rule, bare, types, facts) ==
    Min({rule.max, IF rule.strategy = "numeric" THEN MostReached(rule, bare, facts) + Bonus(rule, facts)
                   ELSE Points(rule, bare, types, facts)})
Ceilings(bare, types, facts) ==
    [r \in DOMAIN Catalogue |-> Ceiling(Catalogue[r], r \in bare, types, facts)]

\* A score the route returns is the score of all AppWorks holds when the calculation lost no
\* call, however often the agent called the tool before, and of all of it by the rows' own
\* lists where child rows were lost; with parts of the case lost it is never more than the
\* lists could give the whole case, except by an allegation whose own record was lost. An
\* outage adds no fact to the case, and a refused token gives no score at all
\* (calculate_risk_metrics, _fetch_risk_rules, _build_case_context, safe_fetch).
LossesAddNothing ==
    At("scored") =>
        LET bare == IF "thresholds" \in lost THEN run.bare ELSE {}
            whole == Weights(bare, run.types, Whole)
            most == Ceilings(bare, run.types, Whole)
        IN /\ lost \subseteq {"thresholds"} =>
                 run.result.score = Rated(DOMAIN Catalogue, run.types, whole)
           /\ "allegation" \notin lost =>
                 run.result.score <= Rated(DOMAIN Catalogue, run.types, most)

\* "Failed fallback allegation severity" is logged where the calls for open allegations
\* fail, and the case scored as without one (risk_scoring.py): a lost call never raises a
\* score.
LossesNeverRaise ==
    At("scored") =>
        run.result.score <= Rated(DOMAIN Catalogue, run.types, Weights({}, run.types, Whole))
=============================================================================
