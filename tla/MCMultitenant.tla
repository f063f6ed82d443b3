--------------------------- MODULE MCMultitenant ---------------------------
(* Instances of Multitenant for TLC. *)
EXTENDS Multitenant, TLC

\* Request slots and wallet keys play the same part everywhere.
Symmetry == Permutations(Calls) \cup Permutations(Keys)

\* A negative ttl, 0 for ever and the default.
AnyTtl == {-1, 0, None}
=============================================================================
