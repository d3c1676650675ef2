--------------------------- MODULE MCObjectModel ----------------------------
(***************************************************************************)
(* TLC instance of ObjectModel: a counted factory of two classes, one that *)
(* shares a class with it, and a static factory that shares the other.     *)
(***************************************************************************)
EXTENDS ObjectModel, TLC

CONSTANTS facA, facB, facS, c1, c2, t1, t2

MCClassesOf == facA :> <<c1, c2>> @@ facB :> <<c2>> @@ facS :> <<c1>>

Symmetry == Permutations(Threads)
=============================================================================
