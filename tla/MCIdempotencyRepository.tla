---------------------- MODULE MCIdempotencyRepository ----------------------
(***************************************************************************)
(* Instances of IdempotencyRepository: every attempt presents the same     *)
(* key, which is the contended case; rows of different keys do not         *)
(* interact.                                                               *)
(***************************************************************************)
EXTENDS IdempotencyRepository, TLC

MCKeyOf == [a \in Attempts |-> CHOOSE k \in Keys : TRUE]

\* Attempts that present the same key are interchangeable.
Symmetry == Permutations(Attempts)
=============================================================================
