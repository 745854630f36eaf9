---------------------------- MODULE MCBasicAuth ----------------------------
(* A small instance of BasicAuth for TLC.                                  *)
EXTENDS BasicAuth, TLC

Interchangeable == Permutations(Proc) \cup Permutations(Token)
============================================================================
