------------------------------ MODULE MCAgency ------------------------------
(* Instances of Agency for TLC. *)
EXTENDS Agency, TLC

\* Wallet keys play the same part.
Symmetry == Permutations(WalletKeys)

\* Without wallets, so do agents and guests.
RegistrationSymmetry == Permutations(Agents) \cup Permutations(Guests)
=============================================================================
