---------------------------- MODULE WorkloadKeys ----------------------------
(***************************************************************************)
(* WorkloadKeyService (domain/services.go) over a WorkloadStore.  A step   *)
(* is at most one store call or one reading of the clock.                  *)
(*                                                                         *)
(* Every store executes each of its calls indivisibly (a DELETE by ID      *)
(* under READ COMMITTED waits for the row); `atomic` says whether it is an *)
(* AtomicRotator: adapters/memory, sqlite and pgstore are, another         *)
(* WorkloadStore need not be.                                              *)
(*                                                                         *)
(* A key stands for its ID, its raw token and the token's hash, which are  *)
(* drawn together.                                                         *)
(*                                                                         *)
(* A segment of a scope entry is the sequence of words between the         *)
(* separators that a column of text knows (a comma in PostgreSQL, a new    *)
(* line in SQLite): one word, or the word "*", in a valid segment.         *)
(***************************************************************************)
EXTENDS Naturals, FiniteSets, Sequences

CONSTANTS
  Proc,        \* goroutines that call the service
  Worker,
  Word,        \* resources and actions
  Request,     \* the capabilities callers ask for: sets of scope entries
  Key,         \* what NewWorkloadToken and randomKeyID may return, once each
  Stores,      \* the values of `atomic` to consider
  MaxTime,     \* bound on the clock
  MaxExpiry,   \* bound on the expiry instants asked for
  MaxIssues,   \* bound on calls of IssueKey
  MaxFaults,   \* bound on failing store calls and crashed callers
  None         \* the absence of a key

ASSUME ConstantsAssumption ==
  /\ MaxTime \in Nat /\ MaxExpiry \in Nat
  /\ MaxIssues \in Nat /\ MaxFaults \in Nat
  /\ Stores \subseteq BOOLEAN
  /\ None \notin Key
  /\ "*" \notin Word
  /\ \A r \in Request : r \subseteq [resource : Seq(Word \cup {"*"}) \ {<<>>},
                                     action   : Seq(Word \cup {"*"}) \ {<<>>}]

VARIABLES
  atomic,     \* the store is an AtomicRotator
  now,        \* the Clock
  key,        \* the columns of every key drawn
  stored,     \* IDs in the key table
  call,       \* the frame of the call each goroutine is in
  faults,     \* failures so far
  \* History, read by the properties only:
  ever,       \* keys stored now or before
  handed,     \* keys a successful call returned to its caller
  heirs,      \* <<old, new>>: a successful RotateKey replaced old by new
  revoked,    \* keys a successful RevokeKey named or RevokeAllKeys listed
  dropped,    \* lineages a RevokeKey or RevokeAllKeys has deleted from
  broken,     \* lineages a call changed while its caller was told of an error
  killed,     \* lineages a successful RevokeAllKeys was to end
  calm,       \* of each RevokeAllKeys, the lineages it listed that no rotation met
  ended       \* lineages in killed that no rotation met meanwhile

table == <<key, stored, ever>>
outcomes == <<handed, heirs, revoked, dropped, broken, killed, ended>>
history == <<outcomes, calm>>
vars == <<atomic, now, table, call, faults, history>>

(* A segment of a scope is the sequence of its pieces between separators.  *)
Segment == {<<w>> : w \in Word \cup {"*"}}

Scope == SUBSET [resource : Segment, action : Segment]

(* root is the issued key this one descends from by rotations: history.    *)
APIKey == [workerID : Worker, scope : Scope, expiresAt : Nat, root : Key]

Permission == [resource : Word, action : Word]

Frame == [pc    : {"idle", "issue", "create", "swap", "deleteOld", "rollback", "deleteEach", "check"},
          op    : {"none", "IssueKey", "RotateKey", "RevokeAllKeys", "Authorize"},
          old   : Key \cup {None},     \* the key to be replaced, or presented
          fresh : Key \cup {None},     \* the key under construction
          rows  : SUBSET Key,          \* keys listed and not yet deleted
          named : SUBSET Key,          \* history: keys listed
          known : SUBSET Key]          \* history: lineages to be ended

Idle == [pc |-> "idle", op |-> "none", old |-> None, fresh |-> None,
         rows |-> {}, named |-> {}, known |-> {}]

drawn == DOMAIN key

RootsOf(S) == {key[k].root : k \in S}

Put(f, k, c) == [u \in DOMAIN f \cup {k} |-> IF u = k THEN c ELSE f[u]]

Init ==
  /\ atomic \in Stores
  /\ now = 0
  /\ key = [k \in {} |-> k]
  /\ stored = {} /\ ever = {}
  /\ call = [p \in Proc |-> Idle]
  /\ faults = 0
  /\ handed = {} /\ heirs = {} /\ revoked = {} /\ dropped = {} /\ broken = {} /\ killed = {}
  /\ ended = {} /\ calm = [p \in Proc |-> {}]

-----------------------------------------------------------------------------
(* Variants of the definitions below with a plausible mistake.             *)

NoRowRequired(k) == k \in drawn

RotationRenews(old) == [key[old] EXCEPT !.expiresAt = MaxExpiry + 1]

StopAtAbsent(k, rest) == IF k \in stored THEN rest ELSE {}

AnythingButEmpty(seg) == seg # <<>>

WildcardActionOnly(e, q) == e.resource = <<q.resource>> /\ e.action \in {<<q.action>>, <<"*">>}

UndoDeletesBoth(old, fresh) == {old, fresh}

-----------------------------------------------------------------------------
(* Scopes.                                                                 *)

validScopeSegment(seg) == seg \in Segment

(* NewScope accepts these capabilities.                                    *)
NewScope(r) ==
  /\ r # {}
  /\ \A e \in r : validScopeSegment(e.resource) /\ validScopeSegment(e.action)

(* The scope read back from a column of text, whose reader splits at every *)
(* separator: of an entry only the piece with the colon can be matched.    *)
ReadBack(scope) == {[resource |-> <<e.resource[Len(e.resource)]>>, action |-> <<Head(e.action)>>] : e \in scope}

(* An entry covers a concrete permission.                                  *)
Matches(e, q) == e.resource \in {<<q.resource>>, <<"*">>} /\ e.action \in {<<q.action>>, <<"*">>}

Allows(scope, q) == \E e \in scope : Matches(e, q)

-----------------------------------------------------------------------------
(* Control and the store.                                                  *)

Begin(p, frame) == call[p].pc = "idle" /\ call' = [call EXCEPT ![p] = frame]

Goto(p, pc) == call' = [call EXCEPT ![p].pc = pc]

Return(p) == call' = [call EXCEPT ![p] = Idle]

Hand(k) == handed' = handed \cup {k}

(* A store call succeeds (Done), has its effect and yet reports an error   *)
(* (Lost), or fails with no effect (Failed).                               *)
Done   == UNCHANGED faults
Lost   == faults < MaxFaults /\ faults' = faults + 1
Failed == Lost /\ UNCHANGED table

(* CreateKey of a key just drawn, whose ID and hash conflict with none.    *)
Insert(k) ==
  /\ stored' = stored \cup {k}
  /\ ever' = ever \cup {k}
  /\ UNCHANGED key

(* DeleteKey, if it finds the row; otherwise it returns ErrNotFound.       *)
Delete(S) ==
  /\ stored' = stored \ S
  /\ UNCHANGED <<key, ever>>

requireOneRow(k) == k \in stored

-----------------------------------------------------------------------------
(* IssueKey and RotateKey.                                                 *)

Draw(k, columns) ==
  /\ k \in Key \ drawn
  /\ key' = Put(key, k, columns)
  /\ UNCHANGED <<atomic, now, stored, ever, faults, history>>

Issues == {k \in drawn : key[k].root = k}

(* issue() accepts only an expiry after this reading of the clock.         *)
After(e) == e > now

IssueKey(p, w, s, e) ==
  /\ Cardinality(Issues) < MaxIssues
  /\ NewScope(s)
  /\ After(e)
  /\ \E k \in Key :
       /\ Draw(k, [workerID |-> w, scope |-> s, expiresAt |-> e, root |-> k])
       /\ Begin(p, [Idle EXCEPT !.pc = "create", !.op = "IssueKey", !.fresh = k])

(* GetKey of RotateKey.  The ID of any stored key can be named: ListKeys   *)
(* shows it.                                                               *)
GetKey(p, k) ==
  /\ k \in stored
  /\ Begin(p, [Idle EXCEPT !.pc = "issue", !.op = "RotateKey", !.old = k])
  /\ calm' = [q \in Proc |-> calm[q] \ RootsOf({k})]
  /\ UNCHANGED <<atomic, now, table, faults, outcomes>>

(* The replacement has the worker, the scope and the expiry of the old.    *)
Inherit(old) == [key[old] EXCEPT !.scope = ReadBack(@)]

RotateIssues(p) ==
  LET old == call[p].old IN
  /\ call[p].pc = "issue"
  /\ After(key[old].expiresAt)
  /\ \E k \in Key :
       /\ Draw(k, Inherit(old))
       /\ call' = [call EXCEPT ![p].fresh = k, ![p].pc = IF atomic THEN "swap" ELSE "create"]

(* ErrInvalidExpiry: the old key has expired; or no token can be drawn.    *)
RotateRefuses(p) ==
  /\ call[p].pc = "issue"
  /\ ~After(key[call[p].old].expiresAt) \/ Key \subseteq drawn
  /\ Return(p)
  /\ UNCHANGED <<atomic, now, table, faults, history>>

(* CreateKey of IssueKey, and the first step of RotateKey's fallback.      *)
CreateKey(p) ==
  LET k == call[p].fresh IN
  /\ call[p].pc = "create"
  /\ \/ /\ Insert(k) /\ Done
        /\ \/ call[p].op = "IssueKey" /\ Return(p) /\ Hand(k)
           \/ call[p].op = "RotateKey" /\ Goto(p, "deleteOld") /\ UNCHANGED handed
     \/ (Failed \/ (Insert(k) /\ Lost)) /\ Return(p) /\ UNCHANGED handed
  /\ UNCHANGED <<atomic, now, heirs, revoked, dropped, broken, killed, ended, calm>>

(* RotateKey succeeds.                                                     *)
Succeed(old, new) ==
  /\ Done
  /\ Hand(new)
  /\ heirs' = heirs \cup {<<old, new>>}
  /\ UNCHANGED broken

(* RotateKey reports an error that leaves the outcome open.                *)
Forget(k) ==
  /\ Lost
  /\ broken' = broken \cup {key[k].root}
  /\ UNCHANGED <<handed, heirs>>

RotateAtomically(p) ==
  LET old == call[p].old   new == call[p].fresh IN
  /\ call[p].pc = "swap"
  /\ Return(p)
  /\ \/ /\ requireOneRow(old)
        /\ stored' = (stored \ {old}) \cup {new} /\ ever' = ever \cup {new} /\ UNCHANGED key
        /\ Succeed(old, new) \/ Forget(old)
     \/ ~requireOneRow(old) /\ Done /\ UNCHANGED <<table, handed, heirs, broken>>
     \/ Failed /\ UNCHANGED <<handed, heirs, broken>>
  /\ UNCHANGED <<atomic, now, revoked, dropped, killed, ended, calm>>

(* DeleteKey of the old key, the second step of the fallback: ErrNotFound  *)
(* is an error here, too.                                                  *)
DeleteOld(p) ==
  LET old == call[p].old   new == call[p].fresh IN
  /\ call[p].pc = "deleteOld"
  /\ \/ requireOneRow(old) /\ Delete({old}) /\ Succeed(old, new) /\ Return(p)
     \/ requireOneRow(old) /\ Delete({old}) /\ Forget(old) /\ Goto(p, "rollback")
     \/ /\ (~requireOneRow(old) /\ Done /\ UNCHANGED table) \/ Failed
        /\ Goto(p, "rollback")
        /\ UNCHANGED <<handed, heirs, broken>>
  /\ UNCHANGED <<atomic, now, revoked, dropped, killed, ended, calm>>

(* The key DeleteKey is to remove again.                                   *)
Undo(old, fresh) == {fresh}

(* The best-effort rollback; its error is dropped.                         *)
Rollback(p) ==
  /\ call[p].pc = "rollback"
  /\ \/ Delete(Undo(call[p].old, call[p].fresh)) /\ (Done \/ Lost)
     \/ Failed
  /\ Return(p)
  /\ UNCHANGED <<atomic, now, history>>

-----------------------------------------------------------------------------
(* ValidateKey and Authorize.                                              *)

(* GetKeyByHash, of a token that was handed out.                           *)
GetKeyByHash(p, k) ==
  /\ k \in stored \cap handed
  /\ Begin(p, [Idle EXCEPT !.pc = "check", !.op = "Authorize", !.old = k])
  /\ UNCHANGED <<atomic, now, table, faults, history>>

Expired(k) == now >= key[k].expiresAt

(* The clock is read after the row was; then the scope is consulted.       *)
Authorizes(p, q) == ~Expired(call[p].old) /\ Allows(ReadBack(key[call[p].old].scope), q)

(* Whatever it answers, the call writes nothing.                           *)
Authorize(p) ==
  /\ call[p].pc = "check"
  /\ Return(p)
  /\ UNCHANGED <<atomic, now, table, faults, history>>

-----------------------------------------------------------------------------
(* RevokeKey and RevokeAllKeys.                                            *)

(* ErrKeyNotFound changes nothing.                                         *)
RevokeKey(p, k) ==
  /\ Begin(p, Idle)
  /\ requireOneRow(k)
  /\ Delete({k})
  /\ dropped' = dropped \cup RootsOf({k})
  /\ \/ Done /\ revoked' = revoked \cup {k}
     \/ Lost /\ UNCHANGED revoked
  /\ UNCHANGED <<atomic, now, handed, heirs, broken, killed, ended, calm>>

Rotating == {call[p].old : p \in {q \in Proc : call[q].op = "RotateKey"}}

(* ListKeysByWorker; with an empty list the call is over.                  *)
ListKeys(p, w) ==
  LET S == {k \in stored : key[k].workerID = w} IN
  /\ Begin(p, IF S = {} THEN Idle
              ELSE [Idle EXCEPT !.pc = "deleteEach", !.op = "RevokeAllKeys",
                                !.rows = S, !.named = S, !.known = RootsOf(S)])
  /\ calm' = [calm EXCEPT ![p] = RootsOf(S) \ RootsOf(Rotating)]
  /\ UNCHANGED <<atomic, now, table, faults, outcomes>>

LoopOver(p) == calm' = [calm EXCEPT ![p] = {}]

(* What the loop has left to do after deleting k: an absent key is passed  *)
(* over.                                                                   *)
Rest(k, rest) == rest

(* One DeleteKey of the loop, in an order the store chose.                 *)
DeleteNext(p) ==
  /\ call[p].pc = "deleteEach"
  /\ \E k \in call[p].rows :
       LET rest == Rest(k, call[p].rows \ {k}) IN
       /\ Delete({k})
       /\ dropped' = dropped \cup RootsOf({k})
       /\ Done
       /\ IF rest # {}
          THEN call' = [call EXCEPT ![p].rows = rest] /\ UNCHANGED <<revoked, killed, ended, calm>>
          ELSE /\ Return(p)
               /\ revoked' = revoked \cup call[p].named
               /\ killed' = killed \cup call[p].known
               /\ ended' = ended \cup calm[p]
               /\ LoopOver(p)
  /\ UNCHANGED <<atomic, now, handed, heirs, broken>>

(* An error other than ErrNotFound ends the loop; the rest stays.          *)
DeleteNextFails(p) ==
  /\ call[p].pc = "deleteEach"
  /\ \E k \in call[p].rows :
       \/ Delete({k}) /\ Lost /\ dropped' = dropped \cup RootsOf({k})
       \/ Failed /\ UNCHANGED dropped
  /\ Return(p)
  /\ LoopOver(p)
  /\ UNCHANGED <<atomic, now, handed, heirs, revoked, broken, killed, ended>>

-----------------------------------------------------------------------------
(* The caller dies between two steps.                                      *)
Crash(p) ==
  /\ call[p].pc \notin {"idle", "check"}
  /\ Lost
  /\ Return(p)
  /\ LoopOver(p)
  /\ UNCHANGED <<atomic, now, table, outcomes>>

Tick ==
  /\ now < MaxTime
  /\ now' = now + 1
  /\ UNCHANGED <<atomic, table, call, faults, history>>

Next ==
  \/ \E p \in Proc :
       \/ \E w \in Worker, s \in Request, e \in 1..MaxExpiry : IssueKey(p, w, s, e)
       \/ \E k \in stored : GetKey(p, k) \/ GetKeyByHash(p, k) \/ RevokeKey(p, k)
       \/ \E w \in Worker : ListKeys(p, w)
       \/ RotateIssues(p) \/ RotateRefuses(p)
       \/ Authorize(p)
       \/ CreateKey(p) \/ RotateAtomically(p) \/ DeleteOld(p) \/ Rollback(p)
       \/ DeleteNext(p) \/ DeleteNextFails(p)
       \/ Crash(p)
  \/ Tick

Spec == Init /\ [][Next]_vars

-----------------------------------------------------------------------------
(* Properties.                                                             *)

TypeOK ==
  /\ atomic \in Stores
  /\ now \in Nat
  /\ drawn \subseteq Key
  /\ key \in [drawn -> APIKey]
  /\ stored \subseteq ever /\ ever \subseteq drawn /\ handed \subseteq ever
  /\ call \in [Proc -> Frame]
  /\ faults \in 0..MaxFaults
  /\ heirs \subseteq Key \X Key
  /\ revoked \subseteq ever
  /\ dropped \subseteq Key /\ broken \subseteq Key /\ killed \subseteq Key
  /\ calm \in [Proc -> SUBSET Key] /\ ended \subseteq Key

(* At most one of any number of overlapping rotations of a key succeeds,   *)
(* even in the fallback, where the loser's DeleteKey returns ErrNotFound:  *)
(* a successful caller never shares its predecessor with another.          *)
OneHeir == \A h, g \in heirs : h[1] = g[1] => h = g

(* "There is never a window where both keys are live": with an             *)
(* AtomicRotator an issued key has at most one descendant in the table.    *)
NeverTwoKeys ==
  atomic => \A j, k \in stored : key[j].root = key[k].root => j = k

(* However rotations overlap, one key becomes one key.                     *)
RotatesToOne == OneHeir /\ NeverTwoKeys

(* A key that was replaced, revoked, or listed by a successful             *)
(* RevokeAllKeys never authenticates again.                                *)
SpentStaysDead ==
  {h[1] : h \in heirs} \cup revoked \subseteq ever \ stored

(* "There is never a gap with no usable key", not even for a moment:       *)
(* unless someone revoked a key of the lineage or a call reported an error *)
(* after it took effect, some key of the lineage is in the table.          *)
NeverAGap ==
  \A k \in handed :
    \/ key[k].root \in dropped \cup broken
    \/ \E j \in stored : key[j].root = key[k].root

(* What a scope means, word for word.                                      *)
Named(seg) == IF seg = <<"*">> THEN Word ELSE Word \cap {seg[i] : i \in DOMAIN seg}

Meaning(scope) ==
  UNION {[resource : Named(e.resource), action : Named(e.action)] : e \in scope}

(* Whenever a key is presented, after any number of rotations and of trips *)
(* through a column of text, Authorize answers yes for exactly what was    *)
(* granted when its first ancestor was issued, and until the expiry asked  *)
(* for then.                                                               *)
AuthorizedAsGranted ==
  \A p \in Proc :
    call[p].pc = "check" =>
      LET granted == key[key[call[p].old].root] IN
      \A q \in Permission :
        Authorizes(p, q) <=> q \in Meaning(granted.scope) /\ now < granted.expiresAt

(* "RevokeAllKeys deletes every key for a worker (kill-switch)": no        *)
(* rotation under way carries a key it listed over to a new one.           *)
KillSwitch == \A k \in stored : key[k].root \notin killed

(* What does hold of it, over every store: of a lineage that no rotation   *)
(* met between the list and the last delete nothing authenticates again.   *)
KillSwitchUnraced == \A k \in stored : key[k].root \notin ended

(* What was ended has no way back: neither the key itself, by any step of  *)
(* any call under way, nor in what such a RevokeAllKeys left of its        *)
(* lineage.                                                                *)
NothingReturns == SpentStaysDead /\ KillSwitchUnraced

(* Every step is a step of the abstract store or none; in particular a     *)
(* rotation adds no capability and no lifetime to what was granted.        *)
Ledger == INSTANCE CredentialLedger WITH
            Token <- Key,
            Owner <- Worker,
            Grant <- Request \X Nat,
            live <- stored,
            credential <- [k \in ever |-> [root  |-> key[k].root,
                                           owner |-> key[k].workerID,
                                           grant |-> <<key[k].scope, key[k].expiresAt>>]],
            overlap <- ~atomic

LedgerSpec == Ledger!Spec
=============================================================================
