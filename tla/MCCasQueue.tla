----------------------------- MODULE MCCasQueue -----------------------------
(* CasQueue with three threads that push, pop and sweep, three values and    *)
(* four heap cells, so that a deleted cell comes back at once.             *)
EXTENDS CasQueue, TLC

Symm == Permutations(Threads) \cup Permutations(Values) \cup Permutations(Nodes \ {First})
=============================================================================
