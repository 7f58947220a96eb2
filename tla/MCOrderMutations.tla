-------------------------- MODULE MCOrderMutations --------------------------
EXTENDS OrderMutations

CONSTANTS s1, c1, x1, i1

\* A submission and a replacement of one and the same order, and a cancellation.
MCSubmit == {s1}
MCCancel == {c1}
MCReplace == {x1}
MCNone == {}
MCIntentOf == [c \in {s1, x1} |-> i1]
=============================================================================
