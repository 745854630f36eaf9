---------------------------- MODULE MCMagicLinks ----------------------------
(* MagicLinks on a small instance.                                         *)
EXTENDS MagicLinks, TLC

(* Goroutines, tokens and addresses are only compared.                     *)
Interchangeable ==
  Permutations(Proc) \cup Permutations(Token) \cup Permutations(Address)
=============================================================================
