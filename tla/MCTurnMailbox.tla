--------------------------- MODULE MCTurnMailbox ---------------------------
EXTENDS TurnMailbox, TLC

Symmetry == Permutations(Messages) \cup Permutations(Deliveries) \cup Permutations(Clients) \cup Permutations(Turns)
=============================================================================
