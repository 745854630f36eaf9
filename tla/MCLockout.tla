----------------------------- MODULE MCLockout -----------------------------
(* Lockout on a small instance.                                            *)
EXTENDS Lockout, TLC

(* Callers and accounts are only compared.                                 *)
Interchangeable == Permutations(Proc) \cup Permutations(Account)
=============================================================================
