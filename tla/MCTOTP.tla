------------------------------- MODULE MCTOTP -------------------------------
(* TOTP on a small instance.                                               *)
EXTENDS TOTP, TLC

Codes == 0..2

CONSTANTS k1, k2   \* the secrets

(* The codes of k1 recur after three steps; those of k2 are the same in    *)
(* pairs of adjacent steps.                                                *)
Hotp(s, i) == IF s = k1 THEN i % 3 ELSE (i \div 2) % 3

Interchangeable == Permutations(Proc)
=============================================================================
