------------------------------ MODULE Lockout ------------------------------
(***************************************************************************)
(* LockoutService (domain/lockout.go) over a LoginAttemptStore, used as    *)
(* its documentation asks: Guard, verify the credentials, RecordFailure or *)
(* Clear.  A step is at most one store call or one reading of the clock.   *)
(*                                                                         *)
(* Three kinds of store are in reach of the service:                       *)
(*   "exact"  RecordFailureAtomically is one indivisible step that         *)
(*            compares instants: adapters/memory, adapters/pgstore;        *)
(*   "text"   likewise, but it compares the texts of instants:             *)
(*            adapters/sqlite;                                             *)
(*   "plain"  a store that is no AtomicLoginAttemptStore.                  *)
(*                                                                         *)
(* A row with count 0 stands for a missing one: no row is saved with it,   *)
(* and every operation treats the two alike.  The instant 0 is Go's zero   *)
(* time, "not locked".                                                     *)
(***************************************************************************)
EXTENDS Naturals, FiniteSets

CONSTANTS
  Proc,          \* login attempts that may be under way at once
  Account,       \* lockout keys
  MaxFailures,   \* LockoutPolicy.maxFailures
  Window,        \* LockoutPolicy.window, in half seconds
  Kinds,         \* the kinds of store to consider
  MaxTime,       \* bound on the clock, in half seconds
  MaxFaults,     \* bound on failing store calls and crashed callers
  None           \* the absence of an account

ASSUME ConstantsAssumption ==
  /\ MaxFailures \in Nat \ {0} /\ Window \in Nat \ {0}
  /\ MaxTime \in Nat /\ MaxFaults \in Nat
  /\ Kinds \subseteq {"exact", "text", "plain"}
  /\ None \notin Account
  /\ IsFiniteSet(Proc)

VARIABLES
  kind,      \* the store the service was built over
  now,       \* the Clock
  row,       \* the login-attempt table
  call,      \* the attempt each caller is in
  faults,    \* failures so far
  \* History, read by the properties only:
  burnt,     \* failures recorded since the row last started afresh
  promise,   \* the end of the lock a caller was last told of; 0: none
  told,      \* callers told of a lock since the row last started afresh
  missed     \* accounts of which an answer was lost

history == <<burnt, promise, told, missed>>
vars == <<kind, now, row, call, faults, history>>

Snapshot == [count : Nat, until : Nat]

Fresh == [count |-> 0, until |-> 0]

Frame == [pc   : {"idle", "guard", "verify", "get", "clock", "record", "save", "clear"},
          acct : Account \cup {None},
          snap : Snapshot,   \* the row read, or the row to save
          at   : Nat]        \* the clock as the call read it

Idle == [pc |-> "idle", acct |-> None, snap |-> Fresh, at |-> 0]

Init ==
  /\ kind \in Kinds
  /\ now = 0
  /\ row = [a \in Account |-> Fresh]
  /\ call = [p \in Proc |-> Idle]
  /\ faults = 0
  /\ burnt = [a \in Account |-> 0]
  /\ promise = [a \in Account |-> 0]
  /\ told = [a \in Account |-> 0]
  /\ missed = {}

-----------------------------------------------------------------------------
(* Variants of the definitions below with a plausible mistake.             *)

ExtendsActiveLock(s, n, at) ==
  IF n >= MaxFailures THEN (IF s.until = 0 THEN at ELSE s.until) + Window ELSE s.until

TellWhileLocked(s) == s.until # 0

LockedOnlyAfter(until) == until < now

ClearsCountOnly(s) == [s EXCEPT !.count = 0]

-----------------------------------------------------------------------------
(* Instants in adapters/sqlite are RFC3339Nano texts.  A whole second has  *)
(* no fraction in it, so "...:00.5Z" sorts before "...:00Z" and after      *)
(* every earlier second; the even instants are the whole seconds.          *)
TextRank(t) == IF t % 2 = 0 THEN t + 1 ELSE t - 1

LessOrEqual(t, u) == IF kind = "text" THEN TextRank(t) <= TextRank(u) ELSE t <= u

(* The policy and the transition both paths compute from it.               *)
LockExpired(s, at) == s.until # 0 /\ LessOrEqual(s.until, at)

Engages(n) == n >= MaxFailures

(* A lock that is active already is not extended.                          *)
LockedUntil(s, n, at) == IF Engages(n) /\ s.until = 0 THEN at + Window ELSE s.until

Recorded(s, at) ==
  LET t == IF LockExpired(s, at) THEN Fresh ELSE s
      n == t.count + 1
  IN  [count |-> n, until |-> LockedUntil(t, n, at)]

JustLocked(s) == s.until # 0 /\ s.count = MaxFailures

-----------------------------------------------------------------------------
(* Control.                                                                *)

Goto(p, pc) == call' = [call EXCEPT ![p].pc = pc]

Return(p) == call' = [call EXCEPT ![p] = Idle]

Done   == UNCHANGED faults
Lost   == faults < MaxFaults /\ faults' = faults + 1
Failed == Lost /\ UNCHANGED row

-----------------------------------------------------------------------------
(* Guard.                                                                  *)

(* Get.  If it fails the caller decides whether to go on without.          *)
GuardGet(p, a) ==
  /\ call[p].pc = "idle"
  /\ \/ /\ Done
        /\ call' = [call EXCEPT ![p] =
                      IF row[a].until = 0
                      THEN [Idle EXCEPT !.acct = a, !.pc = "verify"]
                      ELSE [Idle EXCEPT !.acct = a, !.pc = "guard", !.snap = row[a]]]
     \/ Lost /\ call' = [call EXCEPT ![p] = [Idle EXCEPT !.acct = a, !.pc = "verify"]]
  /\ UNCHANGED <<kind, now, row, history>>

Before(until) == now < until

(* IsLocked compares the decoded instants, in every store.                 *)
GuardCheck(p) ==
  /\ call[p].pc = "guard"
  /\ IF Before(call[p].snap.until)
     THEN Return(p)
     ELSE call' = [call EXCEPT ![p].snap = Fresh, ![p].pc = "verify"]
  /\ UNCHANGED <<kind, now, row, faults, history>>

(* The caller verifies a password, a code ...: wrong or right.             *)
Verify(p) ==
  /\ call[p].pc = "verify"
  /\ Goto(p, IF kind = "plain" THEN "get" ELSE "clock") \/ Goto(p, "clear")
  /\ UNCHANGED <<kind, now, row, faults, history>>

-----------------------------------------------------------------------------
(* RecordFailure.                                                          *)

(* History counters stop at a value that no property allows.               *)
Cap == MaxFailures + Cardinality(Proc) + MaxFaults

Up(n) == IF n < Cap THEN n + 1 ELSE n

(* The store takes row s for the account; the caller was told of a lock or *)
(* not, or its answer was lost.  afresh: the count began anew.             *)
Write(a, s, afresh) ==
  /\ row' = [row EXCEPT ![a] = s]
  /\ burnt' = [burnt EXCEPT ![a] = IF afresh THEN 1 ELSE Up(@)]
  /\ LET before == IF afresh THEN 0 ELSE told[a] IN
     \/ /\ Done
        /\ told' = [told EXCEPT ![a] = IF JustLocked(s) THEN Up(before) ELSE before]
        /\ promise' = [promise EXCEPT ![a] = IF JustLocked(s) THEN s.until ELSE @]
        /\ UNCHANGED missed
     \/ /\ Lost
        /\ told' = [told EXCEPT ![a] = before]
        /\ missed' = missed \cup {a}
        /\ UNCHANGED promise

(* The clock is read before an atomic store is called ...                  *)
ReadClock(p) ==
  /\ call[p].pc = "clock" /\ kind # "plain"
  /\ call' = [call EXCEPT ![p].at = now, ![p].pc = "record"]
  /\ UNCHANGED <<kind, now, row, faults, history>>

RecordFailureAtomically(p) ==
  LET a == call[p].acct IN
  /\ call[p].pc = "record"
  /\ Return(p)
  /\ \/ Write(a, Recorded(row[a], call[p].at), LockExpired(row[a], call[p].at))
     \/ Failed /\ UNCHANGED history
  /\ UNCHANGED <<kind, now>>

(* ... and after the Get of the fallback, which leaves an active lock      *)
(* untouched.                                                              *)
Get(p) ==
  /\ call[p].pc = "get"
  /\ \/ Done /\ call' = [call EXCEPT ![p].snap = row[call[p].acct], ![p].pc = "clock"]
     \/ Failed /\ Return(p)
  /\ UNCHANGED <<kind, now, row, history>>

Decide(p) ==
  /\ call[p].pc = "clock" /\ kind = "plain"
  /\ IF Before(call[p].snap.until)
     THEN Return(p)
     ELSE call' = [call EXCEPT ![p].at = now, ![p].pc = "save"]
  /\ UNCHANGED <<kind, now, row, faults, history>>

Save(p) ==
  LET s == call[p].snap IN
  /\ call[p].pc = "save"
  /\ Return(p)
  /\ \/ Write(call[p].acct, Recorded(s, call[p].at), LockExpired(s, call[p].at))
     \/ Failed /\ UNCHANGED history
  /\ UNCHANGED <<kind, now>>

-----------------------------------------------------------------------------
(* Clear: Delete, after a successful authentication.                       *)
Deleted(s) == Fresh

Clear(p) ==
  LET a == call[p].acct IN
  /\ call[p].pc = "clear"
  /\ Return(p)
  /\ \/ /\ Done \/ Lost
        /\ row' = [row EXCEPT ![a] = Deleted(@)]
        /\ burnt' = [burnt EXCEPT ![a] = 0]
        /\ promise' = [promise EXCEPT ![a] = 0]
        /\ told' = [told EXCEPT ![a] = 0]
        /\ UNCHANGED missed
     \/ Failed /\ UNCHANGED history
  /\ UNCHANGED <<kind, now>>

(* The caller dies between two steps.                                      *)
Crash(p) ==
  /\ call[p].pc \notin {"idle", "guard"}
  /\ Lost
  /\ Return(p)
  /\ UNCHANGED <<kind, now, row, history>>

Tick ==
  /\ now < MaxTime
  /\ now' = now + 1
  /\ UNCHANGED <<kind, row, call, faults, history>>

Next ==
  \/ \E p \in Proc :
       \/ \E a \in Account : GuardGet(p, a)
       \/ GuardCheck(p) \/ Verify(p)
       \/ ReadClock(p) \/ RecordFailureAtomically(p)
       \/ Get(p) \/ Decide(p) \/ Save(p)
       \/ Clear(p)
       \/ Crash(p)
  \/ Tick

Spec == Init /\ [][Next]_vars

-----------------------------------------------------------------------------
(* Properties.                                                             *)

TypeOK ==
  /\ kind \in Kinds
  /\ now \in Nat
  /\ row \in [Account -> Snapshot]
  /\ \A a \in Account : row[a].count = 0 => row[a] = Fresh
  /\ call \in [Proc -> Frame]
  /\ faults \in 0..MaxFaults
  /\ burnt \in [Account -> Nat]
  /\ promise \in [Account -> Nat]
  /\ told \in [Account -> Nat]
  /\ missed \subseteq Account

(* "The lock still triggers - the control is not defeated" and "[it] should*)
(* expire exactly Window after it engaged": until then nothing but Clear   *)
(* lifts, shortens or extends a lock that a caller was told of.            *)
LockHolds ==
  \A a \in Account : now < promise[a] => row[a].until = promise[a]

LockHoldsExact == kind = "exact" => LockHolds

(* "The lock expires (Window) so the victim self-recovers": in every store *)
(* and whatever races, a lock never reaches further than one window from   *)
(* now.                                                                    *)
VictimRecovers ==
  \A a \in Account : row[a].until <= now + Window

(* Not shorter than its window, and not longer.                            *)
LockLastsItsWindow == LockHoldsExact /\ VictimRecovers

(* No failure is lost and none is kept past a Clear: the account is locked *)
(* exactly when maxFailures were recorded since it last started afresh.    *)
LocksAtThreshold ==
  kind = "exact" =>
    \A a \in Account : row[a].until # 0 <=> burnt[a] >= MaxFailures

(* Every lock is announced to exactly one caller, who can alert its owner: *)
(* not to two, however failures overlap, and to none only if the answer    *)
(* was lost.                                                               *)
AnnouncedOnce ==
  kind = "exact" =>
    \A a \in Account : /\ told[a] <= 1
                       /\ row[a].until # 0 => told[a] = 1 \/ a \in missed

(* The transition into the lock comes at the threshold, and is seen once.  *)
LocksOnceAtThreshold == LocksAtThreshold /\ AnnouncedOnce

(* Guard is checked before the password and the failure recorded after, so *)
(* attempts under way at once may all pass Guard; yet no more of them      *)
(* guess beyond the threshold than there are callers, and calls of Guard   *)
(* that failed and were ignored.                                           *)
GuessesBounded ==
  kind = "exact" =>
    \A a \in Account : burnt[a] <= MaxFailures + Cardinality(Proc) - 1 + faults
=============================================================================
