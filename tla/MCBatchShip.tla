------------------------------ MODULE MCBatchShip ------------------------------
EXTENDS BatchShip, TLC

CONSTANTS d1, d2, d3, r1, r2, r3, h1, p1, p2, sweeper

\* Everybody works in one process.
HomeOne == [j \in Job \cup {Sweep} |-> p1]

\* The first run and the person in one process, the others in a second one.
HomeTwo == [j \in Job \cup {Sweep} |-> IF j \in {r1, h1} THEN p1 ELSE p2]

\* Drafts and runs that no constant tells apart.
Alike == Permutations(Draft) \cup Permutations(Run)

\* Runs only, where Repair tells the drafts apart.
AlikeRuns == Permutations(Run)
=============================================================================
