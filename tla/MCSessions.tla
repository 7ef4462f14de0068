------------------------------ MODULE MCSessions ------------------------------
(* The sessions of one account; every kind of request is interchangeable.  *)
EXTENDS Sessions, TLC

Symmetry ==
  Permutations(Login) \cup Permutations(Handler) \cup Permutations(Check) \cup Permutations(Code)
===============================================================================
