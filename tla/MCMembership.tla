----------------------------- MODULE MCMembership -----------------------------
\* Two names that move on one venue and one that stays on another, over a week,
\* its weekend and the Monday after.
EXTENDS Membership

CONSTANTS still, one, two

VenueOfValue == [n \in Names |-> IF n = still THEN "KOSDAQ" ELSE "KOSPI"]
\* A stale sidecar takes a second run, and matters to a roster and a dated list.
MaxRunsValue == [krx |-> 1, kind |-> 2, history |-> 2]
Alike == Permutations(Movers)
=============================================================================
