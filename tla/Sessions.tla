------------------------------ MODULE Sessions ------------------------------
(***************************************************************************)
(* SessionService (domain/services.go) over a SessionRepository, called by *)
(* concurrent goroutines.  A step is at most one repository call or one    *)
(* reading of the clock, so calls interleave wherever the code lets them.  *)
(*                                                                         *)
(* Three kinds of repository are in reach of the service:                  *)
(*   "serial"        every call is one indivisible step and sessions can   *)
(*                   be swapped: adapters/memory, adapters/sqlite;         *)
(*   "readCommitted" sessions can be swapped, and a DELETE of many rows    *)
(*                   works on the rows it saw when it began:               *)
(*                   adapters/pgstore (BeginTx with default options);      *)
(*   "plain"         a repository that is no AtomicSessionRotator.         *)
(*                                                                         *)
(* A stored session is the pair of its key in `stored` and its immutable   *)
(* columns sess[token]; a token stands for itself and for its hash.        *)
(***************************************************************************)
EXTENDS Naturals, FiniteSets

CONSTANTS
  Proc,        \* goroutines that call the service
  User, Tenant,
  Token,       \* what NewToken may return; it never returns one twice
  TTL,         \* SessionService.ttl
  Kinds,       \* the kinds of repository to consider
  MaxTime,     \* bound on the clock
  MaxLogins,   \* bound on calls of Issue
  MaxFaults,   \* bound on failing repository calls and crashed callers
  None         \* the absence of a token, a user, a tenant

ASSUME ConstantsAssumption ==
  /\ TTL \in Nat \ {0}
  /\ MaxTime \in Nat
  /\ MaxFaults \in Nat
  /\ MaxLogins \in Nat
  /\ Kinds \subseteq {"serial", "readCommitted", "plain"}
  /\ None \notin Token \cup User \cup Tenant

VARIABLES
  kind,      \* the repository the service was built over
  now,       \* the Clock
  sess,      \* the session built for every token NewToken has returned
  stored,    \* keys of the session table
  call,      \* the frame of the call each goroutine is in
  faults,    \* failures so far
  \* History, read by the properties only:
  ever,      \* tokens stored now or before
  handed,    \* tokens a successful call returned to its caller
  retired,   \* tokens a successful Rotate or Revoke has put out of use
  revoked,   \* lineages a Revoke or RevokeAll has deleted from
  killed,    \* lineages a successful RevokeAll was to end
  broken     \* lineages of which a caller never learned the newest token

store == <<sess, stored, ever>>
vars == <<kind, now, store, call, faults, handed, retired, revoked, killed, broken>>

(* root is the login a session descends from by rotations: history, the    *)
(* program has no such column.                                             *)
Session == [user : User, tenant : Tenant, expiresAt : Nat, root : Token]

(* A goroutine's frame.  pc is the next step of the call it is in; a call  *)
(* begins with its first step, since nothing comes before that one but     *)
(* checks of its arguments.                                                *)
Frame == [pc     : {"idle", "check", "purge", "draw", "save", "swap", "deleteOld",
                    "rollback", "deleteRows"},
          op     : {"none", "Issue", "Validate", "Rotate", "RevokeAll"},
          arg    : Token \cup {None},     \* the token presented
          user   : User \cup {None},      \* whose sessions RevokeAll deletes
          fresh  : Token \cup {None},     \* the session under construction
          rows   : SUBSET Token,          \* what a DELETE of many rows saw
          known  : SUBSET Token]          \* history: lineages known as RevokeAll began

Idle == [pc |-> "idle", op |-> "none", arg |-> None, user |-> None, fresh |-> None,
         rows |-> {}, known |-> {}]

drawn == DOMAIN sess

Expired(t) == now >= sess[t].expiresAt

RootsOf(S) == {sess[t].root : t \in S}

Put(f, t, s) == [u \in DOMAIN f \cup {t} |-> IF u = t THEN s ELSE f[u]]

Init ==
  /\ kind \in Kinds
  /\ now = 0
  /\ sess = [t \in {} |-> t]
  /\ stored = {} /\ ever = {}
  /\ call = [p \in Proc |-> Idle]
  /\ faults = 0
  /\ handed = {} /\ retired = {} /\ revoked = {} /\ killed = {} /\ broken = {}

-----------------------------------------------------------------------------
(* Variants of the definitions below with a plausible mistake; each breaks *)
(* a property (PROJECT.json, "mutants").                                   *)

SaveReportsOnly(t) == t \in drawn /\ UNCHANGED store

SwapInsertsOnly(old, new) ==
  /\ stored' = stored \cup {old, new}
  /\ ever' = ever \cup {new}
  /\ UNCHANGED sess

NoRowRequired(t) == t \in drawn

RowsOfEveryone(u) == stored

-----------------------------------------------------------------------------
(* Control and the repository.                                             *)

Begin(p, frame) == call[p].pc = "idle" /\ call' = [call EXCEPT ![p] = frame]

Goto(p, pc) == call' = [call EXCEPT ![p].pc = pc]

Return(p) == call' = [call EXCEPT ![p] = Idle]

(* The reply of a successful call reaches its caller.                      *)
Hand(t) == handed' = handed \cup {t}

(* How a repository call may end.  Done and Lost have their effect; after  *)
(* Lost the service sees an error nevertheless (a commit whose             *)
(* acknowledgement does not arrive); Failed has no effect (a cancelled     *)
(* context, a refused connection, a transaction rolled back).              *)
Done   == UNCHANGED faults
Fault  == faults < MaxFaults /\ faults' = faults + 1
Lost   == Fault
Failed == Fault /\ UNCHANGED store

(* SessionRepository.Save, always of a session not stored before.          *)
SaveRow(t) ==
  /\ stored' = stored \cup {t}
  /\ ever' = ever \cup {t}
  /\ UNCHANGED sess

RowsOf(u) == {t \in stored : sess[t].user = u}

(* SessionRepository.Delete and DeleteByUser; no error if nothing matches. *)
DeleteRows(S) ==
  /\ stored' = stored \ S
  /\ UNCHANGED <<sess, ever>>

(* AtomicSessionRotator.RotateAtomically: ErrNotFound unless the DELETE of *)
(* the old key found its row, then the INSERT.                             *)
requireOneRow(old) == old \in stored

SwapRows(old, new) ==
  /\ stored' = (stored \ {old}) \cup {new}
  /\ ever' = ever \cup {new}
  /\ UNCHANGED sess

-----------------------------------------------------------------------------
(* Validate, the first half of Rotate.  A token is presented only by who   *)
(* was handed it.                                                          *)

(* FindByToken.  ErrNotFound or another error ends the call and changes    *)
(* nothing.                                                                *)
FindByToken(p, op, t) ==
  /\ t \in stored
  /\ Begin(p, [Idle EXCEPT !.pc = "check", !.op = op, !.arg = t])
  /\ UNCHANGED <<kind, now, store, faults, handed, retired, revoked, killed, broken>>

(* sess.Expired(s.now()): the clock is read after the row was.             *)
CheckExpiry(p) ==
  /\ call[p].pc = "check"
  /\ \/ Expired(call[p].arg) /\ Goto(p, "purge")
     \/ ~Expired(call[p].arg) /\ call[p].op = "Validate" /\ Return(p)
     \/ ~Expired(call[p].arg) /\ call[p].op = "Rotate" /\ Goto(p, "draw")
  /\ UNCHANGED <<kind, now, store, faults, handed, retired, revoked, killed, broken>>

(* The expired session is deleted; an error of Delete is dropped.          *)
Purge(p) ==
  /\ call[p].pc = "purge"
  /\ \/ DeleteRows({call[p].arg}) /\ (Done \/ Lost)
     \/ Failed
  /\ Return(p)
  /\ UNCHANGED <<kind, now, handed, retired, revoked, killed, broken>>

-----------------------------------------------------------------------------
(* Issue and Rotate.                                                       *)

(* newSession: a new token, and a full lifetime from this reading of the   *)
(* clock.  NewToken fails, and the call with it, when the bounded supply   *)
(* is used up.                                                             *)
NewSession(t, u, n, root) ==
  /\ t \in Token \ drawn
  /\ sess' = Put(sess, t, [user |-> u, tenant |-> n, expiresAt |-> now + TTL, root |-> root])
  /\ UNCHANGED <<kind, now, stored, ever, faults, handed, retired, revoked, killed, broken>>

Logins == {t \in drawn : sess[t].root = t}

Issue(p, u, n) ==
  /\ Cardinality(Logins) < MaxLogins
  /\ \E t \in Token :
       /\ NewSession(t, u, n, t)
       /\ Begin(p, [Idle EXCEPT !.pc = "save", !.op = "Issue", !.fresh = t])

(* Rotate passes on the user and tenant of the session it found.           *)
RotateDraws(p) ==
  /\ call[p].pc = "draw"
  /\ \E t \in Token :
       /\ LET old == sess[call[p].arg] IN NewSession(t, old.user, old.tenant, old.root)
       /\ call' = [call EXCEPT ![p].fresh = t,
                               ![p].pc = IF kind = "plain" THEN "save" ELSE "swap"]

RotateDrawsNothing(p) ==
  /\ call[p].pc = "draw"
  /\ Token \subseteq drawn
  /\ Return(p)
  /\ UNCHANGED <<kind, now, store, faults, handed, retired, revoked, killed, broken>>

(* A caller never learns token t: the lineage may be usable by nobody.     *)
Forget(t) == broken' = broken \cup {sess[t].root}

(* repo.Save of Issue, and the first step of Rotate's fallback.            *)
Save(p) ==
  LET t == call[p].fresh IN
  /\ call[p].pc = "save"
  /\ \/ /\ SaveRow(t) /\ Done
        /\ \/ call[p].op = "Issue" /\ Return(p) /\ Hand(t)
           \/ call[p].op = "Rotate" /\ Goto(p, "deleteOld") /\ UNCHANGED handed
     \/ (Failed \/ (SaveRow(t) /\ Lost)) /\ Return(p) /\ UNCHANGED handed
  /\ UNCHANGED <<kind, now, retired, revoked, killed, broken>>

(* repo.RotateAtomically: ErrNotFound if the old key is gone by now.       *)
RotateAtomically(p) ==
  LET old == call[p].arg   new == call[p].fresh IN
  /\ call[p].pc = "swap"
  /\ Return(p)
  /\ \/ /\ requireOneRow(old)
        /\ SwapRows(old, new)
        /\ \/ Done /\ Hand(new) /\ retired' = retired \cup {old} /\ UNCHANGED broken
           \/ Lost /\ Forget(new) /\ UNCHANGED <<handed, retired>>
     \/ ~requireOneRow(old) /\ Done /\ UNCHANGED <<store, handed, retired, broken>>
     \/ Failed /\ UNCHANGED <<handed, retired, broken>>
  /\ UNCHANGED <<kind, now, revoked, killed>>

(* The second step of the fallback.                                        *)
DeleteOld(p) ==
  LET old == call[p].arg   new == call[p].fresh IN
  /\ call[p].pc = "deleteOld"
  /\ \/ /\ DeleteRows({old}) /\ Done
        /\ Return(p) /\ Hand(new) /\ retired' = retired \cup {old}
        /\ UNCHANGED broken
     \/ /\ DeleteRows({old}) /\ Lost /\ Forget(new)
        /\ Goto(p, "rollback") /\ UNCHANGED <<handed, retired>>
     \/ Failed /\ Goto(p, "rollback") /\ UNCHANGED <<handed, retired, broken>>
  /\ UNCHANGED <<kind, now, revoked, killed>>

(* Its best-effort rollback; the fresh token is returned to nobody.        *)
Rollback(p) ==
  /\ call[p].pc = "rollback"
  /\ \/ DeleteRows({call[p].fresh}) /\ (Done \/ Lost)
     \/ Failed
  /\ Return(p)
  /\ UNCHANGED <<kind, now, handed, retired, revoked, killed, broken>>

-----------------------------------------------------------------------------
(* Revoke and RevokeAll.                                                   *)

(* An error that nothing was deleted changes nothing.                      *)
Revoke(p, t) ==
  /\ Begin(p, Idle)
  /\ DeleteRows({t})
  /\ revoked' = revoked \cup RootsOf({t} \ retired)
  /\ \/ Done /\ retired' = retired \cup {t}
     \/ Lost /\ UNCHANGED retired
  /\ UNCHANGED <<kind, now, handed, killed, broken>>

(* The lineages of user u that anyone holds a token of.                    *)
KnownOf(u) == RootsOf({t \in handed : sess[t].user = u})

(* DeleteByUser of user u, about to end: it deletes S.                     *)
EndRevokeAll(u, S, known) ==
  /\ DeleteRows(S)
  /\ revoked' = revoked \cup RootsOf({t \in stored : sess[t].user = u})
  /\ \/ Done /\ killed' = killed \cup known
     \/ Lost /\ UNCHANGED killed
  /\ UNCHANGED <<kind, now, handed, retired, broken>>

DeleteByUser(p, u) ==
  /\ kind # "readCommitted"
  /\ Begin(p, Idle)
  /\ EndRevokeAll(u, RowsOf(u), KnownOf(u))

(* The DELETE statement of adapters/pgstore finds its rows first ...       *)
SelectByUser(p, u) ==
  /\ kind = "readCommitted"
  /\ Begin(p, [Idle EXCEPT !.pc = "deleteRows", !.op = "RevokeAll", !.user = u,
                           !.rows = RowsOf(u), !.known = KnownOf(u)])
  /\ UNCHANGED <<kind, now, store, faults, handed, retired, revoked, killed, broken>>

(* ... and deletes those of them that are still there.                     *)
DeleteSelected(p) ==
  /\ call[p].pc = "deleteRows"
  /\ Return(p)
  /\ EndRevokeAll(call[p].user, call[p].rows, call[p].known)

-----------------------------------------------------------------------------
(* The caller's goroutine dies between two steps: the process is killed or *)
(* its handler panics.  The repository keeps what it has.  (Before a call  *)
(* has built a session there is nothing to tell this from no call.)        *)
Crash(p) ==
  /\ call[p].pc \in {"save", "swap", "deleteOld", "rollback", "deleteRows"}
  /\ Fault
  /\ Return(p)
  /\ UNCHANGED <<kind, now, store, handed, retired, revoked, killed, broken>>

Tick ==
  /\ now < MaxTime
  /\ now' = now + 1
  /\ UNCHANGED <<kind, store, call, faults, handed, retired, revoked, killed, broken>>

Next ==
  \/ \E p \in Proc :
       \/ \E u \in User, n \in Tenant : Issue(p, u, n)
       \/ \E t \in handed : \/ FindByToken(p, "Validate", t)
                           \/ FindByToken(p, "Rotate", t)
                           \/ Revoke(p, t)
       \/ \E u \in User : DeleteByUser(p, u) \/ SelectByUser(p, u)
       \/ CheckExpiry(p) \/ Purge(p)
       \/ RotateDraws(p) \/ RotateDrawsNothing(p)
       \/ Save(p) \/ RotateAtomically(p) \/ DeleteOld(p) \/ Rollback(p)
       \/ DeleteSelected(p)
       \/ Crash(p)
  \/ Tick

Spec == Init /\ [][Next]_vars

-----------------------------------------------------------------------------
(* Properties.                                                             *)

TypeOK ==
  /\ kind \in Kinds
  /\ now \in Nat
  /\ drawn \subseteq Token
  /\ sess \in [drawn -> Session]
  /\ call \in [Proc -> Frame]
  /\ faults \in 0..MaxFaults
  /\ stored \subseteq ever
  /\ ever \subseteq drawn
  /\ handed \subseteq ever
  /\ retired \subseteq handed
  /\ revoked \subseteq Token /\ killed \subseteq Token /\ broken \subseteq Token

(* A token that a successful Rotate replaced or a successful Revoke        *)
(* deleted never authenticates again, whatever calls were and are under    *)
(* way (Rotate's "the old token is always invalidated on the success       *)
(* path").                                                                 *)
RetiredStaysDead == retired \cap stored = {}

(* Where RotateAtomically exists, a login never has two sessions in the    *)
(* store: not with two rotations of one token at once, a crash, a failing  *)
(* call or a lost answer.                                                  *)
OneSessionPerLogin ==
  kind # "plain" =>
    \A s, t \in stored : sess[s].root = sess[t].root => s = t

(* No user is logged out by the service alone: a login that was neither    *)
(* revoked nor had an answer lost has a token in its owner's hands that    *)
(* was not replaced and still authenticates, unless it has expired.        *)
NeverStranded ==
  \A t \in handed :
    \/ sess[t].root \in revoked \cup broken
    \/ \E s \in handed \ retired : /\ sess[s].root = sess[t].root
                                    /\ (s \in stored \/ now >= sess[s].expiresAt)

(* "RevokeAll deletes every session for a user (logout-everywhere)": once  *)
(* it has succeeded, no rotation that was under way keeps a login alive    *)
(* that was known when it began.                                           *)
LogoutEverywhere ==
  \A t \in stored : sess[t].root \notin killed

LogoutEverywhereSerial == kind = "serial" => LogoutEverywhere

(* Every step is a step of the abstract store or none.                     *)
Ledger == INSTANCE CredentialLedger WITH
            Owner <- User,
            Grant <- Tenant,
            live <- stored,
            credential <- [t \in ever |-> [root  |-> sess[t].root,
                                           owner |-> sess[t].user,
                                           grant |-> sess[t].tenant]],
            overlap <- (kind = "plain")

LedgerSpec == Ledger!Spec
=============================================================================
