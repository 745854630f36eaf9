----------------------------- MODULE MagicLinks -----------------------------
(***************************************************************************)
(* MagicLinkService (domain/services.go) over a MagicLinkRepository.  A    *)
(* step is at most one repository call or one reading of the clock.        *)
(*                                                                         *)
(* The kinds of repository are those of module Sessions:                   *)
(*   "serial"        IssueAtomically is one indivisible step:              *)
(*                   adapters/memory, adapters/sqlite;                     *)
(*   "readCommitted" IssueAtomically is a transaction whose UPDATE works   *)
(*                   on the rows committed when it began: adapters/pgstore;*)
(*   "plain"         a repository that is no AtomicMagicLinkIssuer.        *)
(*                                                                         *)
(* A link is its token's hash; an address is an email with its tenant,     *)
(* which the code only ever compares together.                             *)
(***************************************************************************)
EXTENDS Naturals, FiniteSets

CONSTANTS
  Proc,        \* goroutines that call the service
  Address,     \* email and tenant of a link
  Token,       \* what NewToken may return; it never returns one twice
  TTL,         \* MagicLinkService.ttl
  Kinds,       \* the kinds of repository to consider
  MaxTime,     \* bound on the clock
  MaxFaults,   \* bound on failing repository calls and crashed callers
  None         \* the absence of a token

ASSUME ConstantsAssumption ==
  /\ TTL \in Nat \ {0}
  /\ MaxTime \in Nat
  /\ MaxFaults \in Nat
  /\ Kinds \subseteq {"serial", "readCommitted", "plain"}
  /\ None \notin Token

VARIABLES
  kind,       \* the repository the service was built over
  now,        \* the Clock
  link,       \* address and expiry of the link built for each token drawn
  stored,     \* hashes in the link table
  consumed,   \* those of them whose consumed column is set
  call,       \* the frame of the call each goroutine is in
  faults,     \* failures so far
  \* History, read by the properties only:
  handed,     \* tokens a successful Issue returned, to be emailed
  redeemed,   \* how many calls of Consume succeeded, for each token
  unsure,     \* links used up by a call whose caller was told of an error
  replaced    \* links a successful Issue invalidated

table == <<stored, consumed>>
vars == <<kind, now, link, table, call, faults, handed, redeemed, unsure, replaced>>

Frame == [pc    : {"idle", "invalidate", "issue", "commit", "save", "check", "mark"},
          op    : {"none", "Issue", "Peek", "Consume"},
          token : Token \cup {None},    \* the link built or presented
          rows  : SUBSET Token,         \* the rows the call's UPDATE found
          seen  : BOOLEAN]              \* the consumed column FindByHash read

Idle == [pc |-> "idle", op |-> "none", token |-> None, rows |-> {}, seen |-> FALSE]

drawn == DOMAIN link

live == stored \ consumed

Put(f, t, l) == [u \in DOMAIN f \cup {t} |-> IF u = t THEN l ELSE f[u]]

Init ==
  /\ kind \in Kinds
  /\ now = 0
  /\ link = [t \in {} |-> t]
  /\ stored = {} /\ consumed = {}
  /\ call = [p \in Proc |-> Idle]
  /\ faults = 0
  /\ handed = {}
  /\ redeemed = [t \in Token |-> 0]
  /\ unsure = {} /\ replaced = {}

-----------------------------------------------------------------------------
(* Variants of the definitions below with a plausible mistake.             *)

InsertConsumed(t) ==
  /\ stored' = stored
  /\ consumed' = consumed \cup {t}

PresentIsEnough(t) == t \in stored

NothingOutstanding(a) == {}

(* The insert fails and the invalidation before it is kept.                *)
FailedButInvalidated(S) ==
  /\ faults < MaxFaults /\ faults' = faults + 1
  /\ consumed' = consumed \cup S
  /\ UNCHANGED stored

-----------------------------------------------------------------------------
(* Control and the repository.                                             *)

Begin(p, frame) == call[p].pc = "idle" /\ call' = [call EXCEPT ![p] = frame]

Goto(p, pc) == call' = [call EXCEPT ![p].pc = pc]

Return(p) == call' = [call EXCEPT ![p] = Idle]

(* A repository call succeeds (Done), has its effect and yet reports an    *)
(* error (Lost), or fails with no effect.                                  *)
Done == UNCHANGED faults
Lost == faults < MaxFaults /\ faults' = faults + 1

(* A failed call, or a transaction that was to invalidate S, rolled back.  *)
Failed(S) == Lost /\ UNCHANGED table

(* Save, always of a link not stored before.                               *)
Insert(t) ==
  /\ stored' = stored \cup {t}
  /\ consumed' = consumed

(* The rows of UPDATE ... SET consumed = 1 WHERE email, tenant match and   *)
(* consumed = 0.                                                           *)
Outstanding(a) == {t \in live : link[t].address = a}

(* MarkConsumed reports TRUE only if its WHERE clause finds the row.       *)
Flippable(t) == t \in live

Expired(t) == now >= link[t].expiresAt

-----------------------------------------------------------------------------
(* Issue.                                                                  *)

(* NewToken and the clock: the link is built before the repository is      *)
(* called.                                                                 *)
NewLink(p, a) ==
  /\ \E t \in Token \ drawn :
       /\ link' = Put(link, t, [address |-> a, expiresAt |-> now + TTL])
       /\ Begin(p, [Idle EXCEPT !.op = "Issue", !.token = t,
                                !.pc = IF kind = "plain" THEN "invalidate" ELSE "issue"])
  /\ UNCHANGED <<kind, now, table, faults, handed, redeemed, unsure, replaced>>

(* Issue returns the token, to be emailed; it invalidated the links S.     *)
Hand(t, S) ==
  /\ handed' = handed \cup {t}
  /\ replaced' = replaced \cup S
  /\ UNCHANGED unsure

(* Issue returns an error although the links S were invalidated.           *)
Forget(S) ==
  /\ unsure' = unsure \cup S
  /\ UNCHANGED <<handed, replaced>>

(* The end of the transaction of IssueAtomically: S is invalidated and t   *)
(* inserted, or neither.                                                   *)
Commit(p, t, S) ==
  /\ Return(p)
  /\ \/ /\ stored' = stored \cup {t}
        /\ consumed' = consumed \cup S
        /\ \/ Done /\ Hand(t, S)
           \/ Lost /\ Forget(S)
     \/ Failed(S) /\ UNCHANGED <<handed, unsure, replaced>>
  /\ UNCHANGED <<kind, now, link, redeemed>>

IssueAtomically(p) ==
  /\ call[p].pc = "issue" /\ kind = "serial"
  /\ Commit(p, call[p].token, Outstanding(link[call[p].token].address))

(* Under READ COMMITTED the UPDATE looks for its rows first ...            *)
IssueSelects(p) ==
  /\ call[p].pc = "issue" /\ kind = "readCommitted"
  /\ call' = [call EXCEPT ![p].pc = "commit",
                          ![p].rows = Outstanding(link[call[p].token].address)]
  /\ UNCHANGED <<kind, now, link, table, faults, handed, redeemed, unsure, replaced>>

(* ... and sets those still unconsumed; others see that, and the INSERT,   *)
(* at the commit.  (A row locked in between makes MarkConsumed wait, which *)
(* is to come after this step.)                                            *)
IssueCommits(p) ==
  /\ call[p].pc = "commit"
  /\ Commit(p, call[p].token, call[p].rows \ consumed)

(* The fallback: InvalidateOutstanding ...                                 *)
InvalidateOutstanding(p) ==
  LET S == Outstanding(link[call[p].token].address) IN
  /\ call[p].pc = "invalidate"
  /\ \/ /\ consumed' = consumed \cup S /\ UNCHANGED stored
        /\ \/ Done /\ call' = [call EXCEPT ![p].pc = "save", ![p].rows = S] /\ UNCHANGED unsure
           \/ Lost /\ Return(p) /\ unsure' = unsure \cup S
     \/ Failed(S) /\ Return(p) /\ UNCHANGED unsure
  /\ UNCHANGED <<kind, now, link, handed, redeemed, replaced>>

(* ... then Save.                                                          *)
Save(p) ==
  LET t == call[p].token IN
  /\ call[p].pc = "save"
  /\ Return(p)
  /\ \/ Insert(t) /\ Done /\ Hand(t, call[p].rows)
     \/ ((Insert(t) /\ Lost) \/ Failed({})) /\ Forget(call[p].rows)
  /\ UNCHANGED <<kind, now, link, redeemed>>

-----------------------------------------------------------------------------
(* Peek and Consume.                                                       *)

(* FindByHash of a token someone was emailed; ErrNotFound and other errors *)
(* end the call and change nothing.                                        *)
FindByHash(p, op, t) ==
  /\ t \in stored
  /\ Begin(p, [Idle EXCEPT !.pc = "check", !.op = op, !.token = t, !.seen = (t \in consumed)])
  /\ UNCHANGED <<kind, now, link, table, faults, handed, redeemed, unsure, replaced>>

(* The row read says consumed, or the clock says expired; if not, Peek     *)
(* returns the link and Consume goes on.                                   *)
CheckLink(p) ==
  /\ call[p].pc = "check"
  /\ IF call[p].op = "Consume" /\ ~call[p].seen /\ ~Expired(call[p].token)
     THEN Goto(p, "mark")
     ELSE Return(p)
  /\ UNCHANGED <<kind, now, link, table, faults, handed, redeemed, unsure, replaced>>

(* MarkConsumed; Consume succeeds if this call flipped the column.         *)
MarkConsumed(p) ==
  LET t == call[p].token IN
  /\ call[p].pc = "mark"
  /\ Return(p)
  /\ \/ /\ Flippable(t)
        /\ consumed' = consumed \cup {t} /\ UNCHANGED stored
        /\ \/ Done /\ redeemed' = [redeemed EXCEPT ![t] = @ + 1] /\ UNCHANGED unsure
           \/ Lost /\ unsure' = unsure \cup {t} /\ UNCHANGED redeemed
     \/ ~Flippable(t) /\ Done /\ UNCHANGED <<table, redeemed, unsure>>
     \/ Failed({}) /\ UNCHANGED <<redeemed, unsure>>
  /\ UNCHANGED <<kind, now, link, handed, replaced>>

-----------------------------------------------------------------------------
(* The caller dies between two steps; an open transaction is rolled back.  *)
Crash(p) ==
  /\ call[p].pc \in {"invalidate", "issue", "commit", "save", "mark"}
  /\ Lost
  /\ Return(p)
  /\ unsure' = IF call[p].pc = "save" THEN unsure \cup call[p].rows ELSE unsure
  /\ UNCHANGED <<kind, now, link, table, handed, redeemed, replaced>>

Tick ==
  /\ now < MaxTime
  /\ now' = now + 1
  /\ UNCHANGED <<kind, link, table, call, faults, handed, redeemed, unsure, replaced>>

Next ==
  \/ \E p \in Proc :
       \/ \E a \in Address : NewLink(p, a)
       \/ \E t \in handed : FindByHash(p, "Peek", t) \/ FindByHash(p, "Consume", t)
       \/ IssueAtomically(p) \/ IssueSelects(p) \/ IssueCommits(p)
       \/ InvalidateOutstanding(p) \/ Save(p)
       \/ CheckLink(p) \/ MarkConsumed(p)
       \/ Crash(p)
  \/ Tick

Spec == Init /\ [][Next]_vars

-----------------------------------------------------------------------------
(* Properties.                                                             *)

TypeOK ==
  /\ kind \in Kinds
  /\ now \in Nat
  /\ drawn \subseteq Token
  /\ link \in [drawn -> [address : Address, expiresAt : Nat]]
  /\ consumed \subseteq stored
  /\ stored \subseteq drawn
  /\ call \in [Proc -> Frame]
  /\ faults \in 0..MaxFaults
  /\ handed \subseteq stored
  /\ redeemed \in [Token -> Nat]
  /\ unsure \subseteq stored /\ replaced \subseteq stored

(* "The link is still spent by exactly one Consume": with any number of    *)
(* calls under way, failures and lost answers, never by two.               *)
RedeemedOnce == \A t \in Token : redeemed[t] <= 1

(* "Only the newly emailed token remains redeemable": an address never has *)
(* two live links, however calls of Issue overlap.                         *)
OnlyNewestRedeemable ==
  \A s, t \in live : link[s].address = link[t].address => s = t

(* So it is where IssueAtomically excludes other calls.                    *)
OnlyNewestRedeemableSerial == kind = "serial" => OnlyNewestRedeemable

(* A link in somebody's mailbox stops working only because it was redeemed *)
(* or because a newer one was emailed, never because an Issue failed or    *)
(* died half-way: "a crash between invalidate and save cannot leave the    *)
(* account with no live link".  A lost answer excuses the link it is about.*)
NoLinkLost ==
  kind # "plain" =>
    \A t \in handed \ live : redeemed[t] > 0 \/ t \in replaced \cup unsure
=============================================================================
