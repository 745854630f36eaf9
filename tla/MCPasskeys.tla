----------------------------- MODULE MCPasskeys -----------------------------
(* Passkeys on a small instance.                                           *)
EXTENDS Passkeys, TLC

(* Goroutines, credentials and challenges of one kind are only compared.   *)
Interchangeable == Permutations(Proc) \cup Permutations(Cred) \cup Permutations(Login)
=============================================================================
