---------------------------- MODULE MCGraphSync ----------------------------
\* Two cases that share their subjects, for TLC.
EXTENDS GraphSync
CONSTANTS p1, p2, c1, c2, s1, s2, a1, d1

\* each case lists both subjects, one of whom has an address; an allegation with a comment
Shared ==
    {Edge("appears", s, c) : s \in {s1, s2}, c \in {c1, c2}}
        \cup {Edge("detail", s1, d1), Edge("allegation", c1, a1), Edge("comment", a1, a1)}

\* one case, one subject, an allegation with a comment
Alone == {Edge("appears", s1, c1), Edge("allegation", c1, a1), Edge("comment", a1, a1)}

\* at first, the second case lists one of the subjects only
NotYetBoth == Shared \ {Edge("appears", s1, c2)}
OneType == [a \in Allegations |-> "type"]
Swap == Permutations(Loaders)
=============================================================================
