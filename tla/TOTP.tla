-------------------------------- MODULE TOTP --------------------------------
(***************************************************************************)
(* TOTPService (domain/totp.go) over a TOTPRepository, called by           *)
(* concurrent goroutines while users enroll and disenroll.  A step is one  *)
(* repository call or one reading of the clock.                            *)
(*                                                                         *)
(* Both kinds of repository consume a step in one indivisible call; they   *)
(* differ in what DeleteSecret leaves behind:                              *)
(*   "sql"     the user's last consumed step: adapters/sqlite, pgstore     *)
(*             (encrypted or not, a secret reads as it was written);       *)
(*   "memory"  nothing: adapters/memory.                                   *)
(***************************************************************************)
EXTENDS Integers, FiniteSets

CONSTANTS
  Proc,          \* goroutines that call Verify
  User,
  Secret,        \* what NewTOTPSecret may return; it never returns one twice
  Code,          \* what a user may type
  hotp(_, _),    \* the code of a secret and a time step
  Skew,          \* TOTPConfig.Skew
  Kinds,         \* the kinds of repository to consider
  MaxTime,       \* bound on the clock
  MaxFaults,     \* bound on failing repository calls
  None           \* the absence of a user, a secret, a code

ASSUME ConstantsAssumption ==
  /\ Skew \in Nat /\ MaxTime \in Nat /\ MaxFaults \in Nat
  /\ Kinds \subseteq {"sql", "memory"}
  /\ None \notin User \cup Secret \cup Code

VARIABLES
  kind,       \* the repository the service was built over
  now,        \* the Clock, in periods: the counter of validateStep
  secret,     \* the secret each user has enrolled, None if none
  steps,      \* the step each user has consumed last; 0: no row
  call,       \* the frame of the call of Verify each goroutine is in
  faults,     \* failures so far
  \* History, read by the properties only:
  enrolled,   \* secrets that are or were enrolled
  accepted,   \* what successful calls accepted: user, secret and step
  replayed,   \* the part of it whose code had logged in, in the same window
  unsure      \* consumed by a call whose caller was told of an error

history == <<enrolled, accepted, replayed, unsure>>
vars == <<kind, now, secret, steps, call, faults, history>>

Login == [user : User, secret : Secret, step : Nat]

Frame == [pc     : {"idle", "validateStep", "consumeStep"},
          user   : User \cup {None},
          secret : Secret \cup {None},   \* as GetSecret read it
          code   : Code \cup {None},
          step   : Nat,                  \* the step the code matched
          at     : Nat]                  \* history: the reading of the clock

Idle ==
  [pc |-> "idle", user |-> None, secret |-> None, code |-> None, step |-> 0, at |-> 0]

(* Every step within reach is positive, as since 1970.                     *)
Init ==
  /\ kind \in Kinds
  /\ now = Skew + 1
  /\ secret = [u \in User |-> None]
  /\ steps = [u \in User |-> 0]
  /\ call = [p \in Proc |-> Idle]
  /\ faults = 0
  /\ enrolled = {} /\ accepted = {} /\ replayed = {} /\ unsure = {}

-----------------------------------------------------------------------------
(* Variants of the definitions below with a plausible mistake.             *)

NotYetPassed(u, step) == steps[u] <= step

LastOfWindow(u, step) == steps' = [steps EXCEPT ![u] = now + Skew]

UnsetIsNone(u) == steps' = [steps EXCEPT ![u] = -1]

Latest(M, i) == i \in M /\ \A j \in M : j <= i

-----------------------------------------------------------------------------
(* The repository.                                                         *)

Done   == UNCHANGED faults
Lost   == faults < MaxFaults /\ faults' = faults + 1
Failed == Lost /\ UNCHANGED <<secret, steps>>

(* ConsumeStep: the UPSERT finds a row only WHERE last_step < step.        *)
Fresh(u, step) == steps[u] < step

SetStep(u, step) == steps' = [steps EXCEPT ![u] = step]

(* Removing the row of the user's steps.                                   *)
ClearStep(u) == steps' = [steps EXCEPT ![u] = 0]

(* SetSecret enrolls or replaces, and leaves the consumed steps.  The      *)
(* answer may be lost.                                                     *)
SetSecret(u, s) ==
  /\ s \notin enrolled
  /\ secret' = [secret EXCEPT ![u] = s]
  /\ enrolled' = enrolled \cup {s}
  /\ Done \/ Lost
  /\ UNCHANGED <<kind, now, steps, call, accepted, replayed, unsure>>

(* DeleteSecret; ErrNotFound changes nothing.                              *)
DeleteSecret(u) ==
  /\ secret[u] # None
  /\ secret' = [secret EXCEPT ![u] = None]
  /\ IF kind = "memory" THEN ClearStep(u) ELSE UNCHANGED steps
  /\ Done \/ Lost
  /\ UNCHANGED <<kind, now, call, history>>

-----------------------------------------------------------------------------
(* Verify.                                                                 *)

Goto(p, pc) == call' = [call EXCEPT ![p].pc = pc]

Return(p) == call' = [call EXCEPT ![p] = Idle]

(* GetSecret; an error ends the call and changes nothing, like ErrNotFound.*)
GetSecret(p, u, c) ==
  /\ call[p].pc = "idle"
  /\ secret[u] # None
  /\ call' = [call EXCEPT ![p] = [Idle EXCEPT !.pc = "validateStep", !.user = u,
                                              !.secret = secret[u], !.code = c]]
  /\ UNCHANGED <<kind, now, secret, steps, faults, history>>

NotEnrolled(p, u) ==
  /\ call[p].pc = "idle"
  /\ secret[u] = None
  /\ UNCHANGED vars

(* The loop over i from -Skew to Skew.                                     *)
Window(at) == (at - Skew)..(at + Skew)

Matching(s, c, at) == {i \in Window(at) : hotp(s, i) = c}

(* The first match of the loop.                                            *)
Earliest(M, i) == i \in M /\ \A j \in M : i <= j

(* validateStep reads the clock and takes the earliest step whose code it  *)
(* is; ErrInvalidTOTP if there is none.                                    *)
validateStep(p) ==
  LET M == Matching(call[p].secret, call[p].code, now) IN
  /\ call[p].pc = "validateStep"
  /\ IF M = {}
     THEN Return(p)
     ELSE \E i \in M : /\ Earliest(M, i)
                       /\ call' = [call EXCEPT ![p] = [@ EXCEPT !.step = i, !.at = now, !.code = None,
                                                                !.pc = "consumeStep"]]
  /\ UNCHANGED <<kind, now, secret, steps, faults, history>>

(* Two logins with one code, though it may stand for two steps.            *)
SameCode(l, m) ==
  /\ l.user = m.user /\ l.secret = m.secret
  /\ hotp(l.secret, l.step) = hotp(m.secret, m.step)

(* The code of this login let somebody in as the code of a step that is    *)
(* still within the window of the clock.                                   *)
Replays(login, at) == \E l \in accepted : SameCode(l, login) /\ l.step \in Window(at)

(* ConsumeStep and the end of Verify: success, ErrTOTPReused or an error.  *)
ConsumeStep(p) ==
  LET f     == call[p]
      login == [user |-> f.user, secret |-> f.secret, step |-> f.step]
  IN
  /\ f.pc = "consumeStep"
  /\ Return(p)
  /\ \/ /\ Fresh(f.user, f.step)
        /\ SetStep(f.user, f.step) /\ UNCHANGED secret
        /\ \/ /\ Done
              /\ accepted' = accepted \cup {login}
              /\ replayed' = replayed \cup {l \in {login} : Replays(l, f.at)}
              /\ UNCHANGED unsure
           \/ Lost /\ unsure' = unsure \cup {login} /\ UNCHANGED <<accepted, replayed>>
     \/ ~Fresh(f.user, f.step) /\ Done /\ UNCHANGED <<secret, steps, accepted, replayed, unsure>>
     \/ Failed /\ UNCHANGED <<accepted, replayed, unsure>>
  /\ UNCHANGED <<kind, now, enrolled>>

-----------------------------------------------------------------------------
(* The caller dies between two steps.                                      *)
Crash(p) ==
  /\ call[p].pc # "idle"
  /\ Lost
  /\ Return(p)
  /\ UNCHANGED <<kind, now, secret, steps, history>>

Tick ==
  /\ now < MaxTime
  /\ now' = now + 1
  /\ UNCHANGED <<kind, secret, steps, call, faults, history>>

Next ==
  \/ \E u \in User : DeleteSecret(u) \/ \E s \in Secret : SetSecret(u, s)
  \/ \E p \in Proc :
       \/ \E u \in User, c \in Code : GetSecret(p, u, c)
       \/ \E u \in User : NotEnrolled(p, u)
       \/ validateStep(p) \/ ConsumeStep(p)
       \/ Crash(p)
  \/ Tick

Spec == Init /\ [][Next]_vars

-----------------------------------------------------------------------------
(* Properties.                                                             *)

TypeOK ==
  /\ kind \in Kinds
  /\ now \in Nat
  /\ secret \in [User -> Secret \cup {None}]
  /\ steps \in [User -> Nat]
  /\ call \in [Proc -> Frame]
  /\ faults \in 0..MaxFaults
  /\ enrolled \subseteq Secret
  /\ accepted \subseteq Login /\ replayed \subseteq accepted /\ unsure \subseteq Login

(* "So a code can't be reused within its +-Skew window": while the step a  *)
(* code logged in for is in the window that validateStep looks at, the     *)
(* code does not log in again, not even as the code of another step: with  *)
(* any number of calls at once, across restarts and re-enrolment.  In      *)
(* adapters/memory, which forgets the step with the secret, a call that    *)
(* had read the secret before may accept it again once the user has        *)
(* disenrolled, and only then.  Once that step has left the window nothing *)
(* is said: see CodeUsedOnce.                                              *)
AcceptedOnce ==
  \A l \in replayed : kind = "memory" /\ secret[l.user] # l.secret

(* "On success the matched step is consumed so the same code cannot be     *)
(* used again": of the steps that one window holds, a code logs in for one *)
(* at most.  It does not hold where a code stands for two of them: Verify  *)
(* consumes the first, and the code logs in once more when that has left   *)
(* the window and the second has not.                                      *)
CodeUsedOnce ==
  \A l, m \in accepted : SameCode(l, m) /\ m.step - l.step \in 0..2 * Skew => l = m

(* A step is burnt only by the user's own code: every step that is refused *)
(* as consumed lies at or before one that let somebody in, or was about to *)
(* when the answer was lost.                                               *)
BurntByALogin ==
  \A u \in User : steps[u] # 0 =>
    \E l \in accepted \cup unsure : l.user = u /\ l.step = steps[u]
=============================================================================
