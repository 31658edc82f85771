---------------------------- MODULE MCAutonomousSlots ----------------------------
EXTENDS AutonomousSlots, TLC

\* Drafters are interchangeable.
Alike == Permutations(Drafter)
=============================================================================
