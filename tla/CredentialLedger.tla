-------------------------- MODULE CredentialLedger --------------------------
(***************************************************************************)
(* What a store of bearer credentials promises, whatever adapter is behind *)
(* it and however calls interleave: which tokens authenticate, and the     *)
(* only ways that set may change.  Sessions.tla (logins) and               *)
(* WorkloadKeys.tla (API keys) implement it.                               *)
(***************************************************************************)
CONSTANTS Token, Owner, Grant

(* root is the first token of the lineage; owner and grant are whom and    *)
(* what the token stands for.                                              *)
Credential == [root : Token, owner : Owner, grant : Grant]

VARIABLES
  live,        \* the tokens that authenticate
  credential,  \* the credential of every token that authenticates or ever did
  overlap      \* TRUE: the store has no way to swap two tokens in one step

lvars == <<live, credential, overlap>>

Init ==
  /\ live = {}
  /\ credential = [t \in {} |-> t]
  /\ overlap \in BOOLEAN

(* A token never seen before enters the ledger; the credentials already    *)
(* there are immutable.                                                    *)
Enter(t) ==
  /\ t \in Token \ DOMAIN credential
  /\ DOMAIN credential' = DOMAIN credential \cup {t}
  /\ credential'[t] \in Credential
  /\ \A u \in DOMAIN credential : credential'[u] = credential[u]
  /\ UNCHANGED overlap

(* A login, a new key: the first token of a lineage.                       *)
Admit(t) ==
  /\ Enter(t)
  /\ credential'[t].root = t
  /\ live' = live \cup {t}

(* A new token enters that stands for neither more nor less than old.      *)
Continue(old, new) == Enter(new) /\ credential'[new] = credential[old]

(* A rotation: the new token takes the place of one that authenticates.    *)
Swap(old, new) ==
  /\ ~overlap
  /\ old \in live
  /\ Continue(old, new)
  /\ live' = (live \ {old}) \cup {new}

(* A rotation on a store without swap: the new token joins one that        *)
(* authenticated when the rotation looked.                                 *)
Fork(old, new) ==
  /\ overlap
  /\ old \in DOMAIN credential
  /\ Continue(old, new)
  /\ live' = live \cup {new}

(* Revocation, the purge of an expired session, the second half of a       *)
(* rotation, its rollback: tokens of one owner are forgotten.              *)
Drop ==
  /\ live' \subseteq live
  /\ \A t, u \in live \ live' : credential[t].owner = credential[u].owner
  /\ UNCHANGED <<credential, overlap>>

Next ==
  \/ \E t \in Token : Admit(t)
  \/ \E old, new \in Token : Swap(old, new) \/ Fork(old, new)
  \/ Drop

Spec == Init /\ [][Next]_lvars
=============================================================================
