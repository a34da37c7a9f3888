------------------------- MODULE MCInferenceReview -------------------------
(***************************************************************************)
(* Small graphs for InferenceReview.                                       *)
(***************************************************************************)
EXTENDS ReviewHistory

LOCAL T == INSTANCE TLC

CONSTANTS c1, c2, p1, n1, n2, n3, al1

Shared(a, b, n) == [from |-> a, to |-> b, net |-> n]
Everyone == [s \in Subjects |-> Subjects]

\* investigators are interchangeable in the invariants checked under it
InvestigatorSymmetry == T!Permutations(Investigators)

NoPairs == {}
OnlyEmployer == [n \in Networks |-> "Employer"]

\* two people of one employer, the first with a prior guilty case
CoupleShared == {Shared(1, 2, n1)}
CoupleGuilty == {<<1, p1>>}
OneCaseLoaded == {<<1, c1>>, <<2, c1>>}
CouplePrimary == [c \in Cases |-> IF c = c1 THEN 1 ELSE None]
NoAllegationCase == [a \in Allegations |-> c1]

\* the couple again, listed in two cases, each case with the other of them as its primary
TwoCasesLoaded == {<<1, c1>>, <<2, c1>>, <<1, p1>>, <<2, p1>>, <<1, c2>>, <<2, c2>>}
TwoCasesPrimary == [c \in Cases |-> IF c = c1 THEN 1 ELSE IF c = c2 THEN 2 ELSE None]

\* three people who all know each other from one employer
TriangleShared == {Shared(1, 2, n1), Shared(2, 3, n1), Shared(1, 3, n1)}
ChainLoaded == {<<1, c1>>, <<2, c1>>, <<3, c1>>, <<2, p1>>}

\* the other families: a merged case, a hub, a check split and a wage record
SplitPairs == {Shared(1, 2, n2)}
SplitType == [n \in Networks |-> IF n = n2 THEN "CheckSplit" ELSE "Employer"]
MergePair == {<<c2, c1>>}
MergeLoaded == {<<1, c1>>, <<1, p1>>, <<2, c2>>}
WagePair == {<<1, al1>>, <<2, al1>>}

\* subject 1 shares an employer with 2 and another with 3
TwoNetsShared == {Shared(1, 2, n1), Shared(1, 3, n2)}
=============================================================================
