----------------------------- MODULE MCSessions -----------------------------
(* Small instances of Sessions for TLC.                                    *)
EXTENDS Sessions, TLC

Interchangeable ==
  Permutations(Proc) \cup Permutations(Token) \cup Permutations(User) \cup Permutations(Tenant)
=============================================================================
