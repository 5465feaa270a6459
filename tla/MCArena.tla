------------------------------ MODULE MCArena ------------------------------
(***************************************************************************)
(* Instances of ArenaCheck: three addresses, so that a Fuse can meet a     *)
(* parent that is itself being fused, and two threads (three for the       *)
(* racing fuses).                                                          *)
(***************************************************************************)
EXTENDS ArenaCheck, TLC

CONSTANTS t1, t2, t3

TwoThreads   == {t1, t2}
ThreeThreads == {t1, t2, t3}

\* The threads run the same code and no property names one.
TwoThreadsSymmetry   == Permutations(TwoThreads)
ThreeThreadsSymmetry == Permutations(ThreeThreads)

\* The order of Fuse's arguments only decides which root is looked up first;
\* the largest runs fix it.
OrderedArguments == \A t \in Thread : call[t].op = "Fuse" => call[t].a < call[t].b

=============================================================================
