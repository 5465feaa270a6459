------------------------------- MODULE MCDefPool -------------------------------
(* Three files for DefPool: "b" defines a symbol of "a" again, "c" extends *)
(* the same message at the same number and needs "a".  At four entries     *)
(* symbols 1, 2 and 5 collide, and 3 is evicted from where they overflow.  *)
EXTENDS DefPool

MCSyms == [f \in {"a", "b", "c"} |->
  CASE f = "a" -> <<1, 2, 7>> [] f = "b" -> <<5, 3, 2>> [] f = "c" -> <<4, 6>>]
MCExts == [f \in {"a", "b", "c"} |->
  CASE f = "a" -> <<8, 9>> [] f = "b" -> <<>> [] f = "c" -> <<10, 9>>]
MCDeps == [f \in {"a", "b", "c"} |-> IF f = "c" THEN {"a"} ELSE {}]
MCHash == [k \in 1 .. 10 |->
  CASE k \in {1, 2, 5} -> 1 [] k \in {3, 7} -> 2 [] k = 4 -> 3 [] k = 6 -> 5
    [] k \in {8, 10} -> 1 [] k = 9 -> 2]
================================================================================
