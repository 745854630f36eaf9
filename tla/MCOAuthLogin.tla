---------------------------- MODULE MCOAuthLogin ----------------------------
(* A small instance of OAuthLogin for TLC.                                 *)
EXTENDS OAuthLogin, TLC

Interchangeable == Permutations(Proc) \cup Permutations(Browser)
                     \cup Permutations(Attempt) \cup Permutations(Code)
=============================================================================
