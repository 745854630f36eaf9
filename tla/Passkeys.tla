------------------------------ MODULE Passkeys ------------------------------
(***************************************************************************)
(* The passkey ceremonies of adapters/webauthn over a PasskeyRepository,   *)
(* for one user: challenges go out to the browser, authenticators answer   *)
(* them, and concurrent goroutines finish the ceremonies.  A step is one   *)
(* repository call or one reading of the clock.                            *)
(*                                                                         *)
(* The state of a ceremony is signed and handed to the application, which  *)
(* uses it exactly once, as the package asks.  So a credential is added    *)
(* once, and it makes no difference that adapters/memory would replace a   *)
(* stored one where adapters/sqlite and pgstore refuse to.                 *)
(*                                                                         *)
(* An authenticator that does not count always signs with 0.               *)
(***************************************************************************)
EXTENDS Integers, FiniteSets

CONSTANTS
  Proc,        \* goroutines that finish ceremonies
  Cred,        \* credential IDs; an authenticator never makes one twice
  Registration,\* the challenges go-webauthn may draw for registrations
  Login,       \* and for logins; it draws none twice
  Timeout,     \* defaultCeremonyTimeout
  MaxTime,     \* bound on the clock
  MaxCount,    \* bound on the signature counters
  MaxAnswers,  \* bound on what authenticators answer
  MaxFaults,   \* bound on failing repository calls and crashed callers
  None         \* the absence of a counter, a ceremony, an answer

ASSUME ConstantsAssumption ==
  /\ Timeout \in Nat /\ MaxTime \in Nat /\ MaxFaults \in Nat
  /\ MaxCount \in Nat /\ MaxAnswers \in Nat
  /\ Registration \cap Login = {}

Challenge == Registration \cup Login

VARIABLES
  now,             \* the wall clock
  signCount,       \* the credential table: the sign count of each row, -1 if there is none
  ceremony,        \* the sealed state of each challenge that was drawn
  used,            \* challenges whose state the application has deleted
  counter,         \* the counter in each authenticator; -1 before it makes the credential
  clone,           \* the counter in a copy of it; -1 if there is none
  answers,         \* what authenticators have answered
  call,            \* the frame of the call each goroutine is in
  faults,          \* failures so far
  \* History, read by the properties only:
  accepted,        \* the highest count of each credential that logged in; -1: none did
  overlapped,      \* credentials that two logins were under way with at once
  deleted          \* credentials removed from the table

ceremonies == <<ceremony, used>>
devices == <<counter, clone, answers>>
history == <<accepted, overlapped, deleted>>
vars == <<now, signCount, ceremonies, devices, call, faults, history>>

(* webauthn.SessionData; allowed is empty for a registration.              *)
SessionData == [allowed : SUBSET Cred, expires : Nat]

Answer == [challenge : Challenge, cred : Cred, count : Nat]

Frame == [pc     : {"idle", "validate", "update", "add"},
          answer : Answer \cup {None},
          row    : Nat \cup {-1}]         \* the sign count ListByUser returned

Idle == [pc |-> "idle", answer |-> None, row |-> -1]

registered == {c \in Cred : signCount[c] # -1}

Init ==
  /\ now = 0
  /\ signCount = [c \in Cred |-> -1]
  /\ ceremony = [h \in Challenge |-> None]
  /\ used = {}
  /\ counter = [c \in Cred |-> -1]
  /\ clone = [c \in Cred |-> -1]
  /\ answers = {}
  /\ call = [p \in Proc |-> Idle]
  /\ faults = 0
  /\ accepted = [c \in Cred |-> -1] /\ overlapped = {} /\ deleted = {}

-----------------------------------------------------------------------------
(* Variants of the definitions below with a plausible mistake.             *)

RegressionOnly(count, row) == count < row /\ (count # 0 \/ row # 0)

UpdateInserts(c) == TRUE

NextCount(n) == n + 1

-----------------------------------------------------------------------------
(* The repository.                                                         *)

Done   == UNCHANGED faults
Lost   == faults < MaxFaults /\ faults' = faults + 1
Failed == Lost /\ UNCHANGED signCount

requireOneRow(c) == c \in registered

(* What UpdateSignCount stores of the count it is given.                   *)
Stored(n) == n

SetCount(c, n) == signCount' = [signCount EXCEPT ![c] = Stored(n)]

(* Delete; removing what is not there changes nothing.                     *)
Delete(c) ==
  /\ signCount' = [signCount EXCEPT ![c] = -1]
  /\ deleted' = deleted \cup ({c} \cap registered)
  /\ Done \/ Lost
  /\ UNCHANGED <<now, ceremonies, devices, call, accepted, overlapped>>

-----------------------------------------------------------------------------
(* Ceremonies begin, authenticators answer.                                *)

(* sealState of a new challenge.                                           *)
Seal(h, allowed) ==
  /\ ceremony[h] = None
  /\ ceremony' = [ceremony EXCEPT ![h] = [allowed |-> allowed, expires |-> now + Timeout]]
  /\ UNCHANGED <<now, signCount, used, devices, call, faults, history>>

BeginRegistration(h) == Seal(h, {})

(* ErrNoPasskeys if there is none.                                         *)
BeginLogin(h) == registered # {} /\ Seal(h, registered)

Give(h, c, n) ==
  /\ Cardinality(answers) < MaxAnswers
  /\ answers' = answers \cup {[challenge |-> h, cred |-> c, count |-> n]}

(* navigator.credentials.create: the counter starts at 0.                  *)
Create(h, c) ==
  /\ ceremony[h] # None
  /\ counter[c] = -1
  /\ counter' = [counter EXCEPT ![c] = 0]
  /\ Give(h, c, 0)
  /\ UNCHANGED <<now, signCount, ceremonies, clone, call, faults, history>>

(* navigator.credentials.get: an authenticator that counts signs with its  *)
(* next count.                                                             *)
Get(h, c) ==
  /\ ceremony[h] # None /\ c \in ceremony[h].allowed
  /\ counter[c] < MaxCount
  /\ \E n \in {counter[c], counter[c] + 1} :
       /\ n = counter[c] => n = 0
       /\ counter' = [counter EXCEPT ![c] = n]
       /\ Give(h, c, n)
  /\ UNCHANGED <<now, signCount, ceremonies, clone, call, faults, history>>

(* Somebody copies an authenticator, count and all ...                     *)
Clone(c) ==
  /\ counter[c] # -1 /\ clone[c] = -1
  /\ clone' = [clone EXCEPT ![c] = counter[c]]
  /\ UNCHANGED <<now, signCount, ceremonies, counter, answers, call, faults, history>>

(* ... and signs with the copy.                                            *)
GetByClone(h, c) ==
  /\ ceremony[h] # None /\ c \in ceremony[h].allowed
  /\ clone[c] \in 0..(MaxCount - 1)
  /\ clone' = [clone EXCEPT ![c] = @ + 1]
  /\ Give(h, c, clone[c] + 1)
  /\ UNCHANGED <<now, signCount, ceremonies, counter, call, faults, history>>

-----------------------------------------------------------------------------
(* Ceremonies end.                                                         *)

(* openState: the application hands in the state of challenge h, and has   *)
(* deleted it "as soon as Finish* is called, whether or not it succeeds".  *)
openState(h) ==
  /\ h \notin used
  /\ used' = used \cup {h}
  /\ UNCHANGED ceremony

(* go-webauthn refuses a ceremony after session.Expires.                   *)
Expired(h) == now > ceremony[h].expires

Return(p) == call' = [call EXCEPT ![p] = Idle]

Begin(p, pc, a, row) ==
  /\ call[p].pc = "idle"
  /\ call' = [call EXCEPT ![p] = [pc |-> pc, answer |-> a, row |-> row]]

(* FinishRegistration, which ends with its clock check; the caller then    *)
(* calls Add.                                                              *)
FinishRegistration(p, a) ==
  /\ a.challenge \in Registration
  /\ openState(a.challenge)
  /\ \/ ~Expired(a.challenge) /\ Begin(p, "add", a, -1)
     \/ Expired(a.challenge) /\ call[p].pc = "idle" /\ UNCHANGED call
  /\ UNCHANGED <<now, signCount, devices, faults, history>>

Add(p) ==
  LET a == call[p].answer IN
  /\ call[p].pc = "add"
  /\ Return(p)
  /\ \/ signCount' = [signCount EXCEPT ![a.cred] = a.count] /\ (Done \/ Lost)
     \/ Failed
  /\ UNCHANGED <<now, ceremonies, devices, history>>

underWay == {call[q].answer.cred : q \in {r \in Proc : call[r].pc \in {"validate", "update"}}}

(* FinishLogin: openState and loadUser.  An error of ListByUser ends the   *)
(* call, as an expired ceremony does.                                      *)
FinishLogin(p, a) ==
  /\ a.challenge \in Login
  /\ openState(a.challenge)
  /\ Begin(p, "validate", a, signCount[a.cred])
  /\ overlapped' = overlapped \cup ({a.cred} \cap underWay)
  /\ UNCHANGED <<now, signCount, devices, faults, accepted, deleted>>

(* go-webauthn's UpdateCounter.                                            *)
CloneWarning(count, row) == count <= row /\ (count # 0 \/ row # 0)

Refuses(f) == Expired(f.answer.challenge) \/ f.row = -1

(* ValidateLogin, and ErrCredentialCloned.                                 *)
ValidateLogin(p) ==
  LET f == call[p] IN
  /\ f.pc = "validate"
  /\ IF Refuses(f) \/ CloneWarning(f.answer.count, f.row) THEN Return(p)
     ELSE call' = [call EXCEPT ![p].pc = "update", ![p].row = -1]
  /\ UNCHANGED <<now, signCount, ceremonies, devices, faults, history>>

(* UpdateSignCount, whatever the row holds by now; ErrNotFound if it is    *)
(* gone.                                                                   *)
UpdateSignCount(p) ==
  LET a == call[p].answer IN
  /\ call[p].pc = "update"
  /\ Return(p)
  /\ \/ /\ requireOneRow(a.cred)
        /\ SetCount(a.cred, a.count)
        /\ \/ Done /\ accepted' = [accepted EXCEPT ![a.cred] = IF @ > a.count THEN @ ELSE a.count]
           \/ Lost /\ UNCHANGED accepted
     \/ ~requireOneRow(a.cred) /\ Done /\ UNCHANGED <<signCount, accepted>>
     \/ Failed /\ UNCHANGED accepted
  /\ UNCHANGED <<now, ceremonies, devices, overlapped, deleted>>

-----------------------------------------------------------------------------
(* The caller dies between two steps.                                      *)
Crash(p) ==
  /\ call[p].pc # "idle"
  /\ Lost
  /\ Return(p)
  /\ UNCHANGED <<now, signCount, ceremonies, devices, history>>

Tick ==
  /\ now < MaxTime
  /\ now' = now + 1
  /\ UNCHANGED <<signCount, ceremonies, devices, call, faults, history>>

Next ==
  \/ \E h \in Registration : BeginRegistration(h) \/ \E c \in Cred : Create(h, c)
  \/ \E h \in Login : BeginLogin(h) \/ \E c \in Cred : Get(h, c) \/ GetByClone(h, c)
  \/ \E c \in Cred : Clone(c) \/ Delete(c)
  \/ \E p \in Proc :
       \/ \E a \in answers : FinishRegistration(p, a) \/ FinishLogin(p, a)
       \/ Add(p) \/ ValidateLogin(p) \/ UpdateSignCount(p)
       \/ Crash(p)
  \/ Tick

Spec == Init /\ [][Next]_vars

-----------------------------------------------------------------------------
(* Properties.                                                             *)

TypeOK ==
  /\ now \in Nat
  /\ ceremony \in [Challenge -> SessionData \cup {None}]
  /\ used \subseteq Challenge
  /\ counter \in [Cred -> Nat \cup {-1}] /\ clone \in [Cred -> Nat \cup {-1}]
  /\ answers \subseteq Answer
  /\ \A c \in registered : \E a \in answers : a.cred = c /\ a.count = signCount[c]
  /\ call \in [Proc -> Frame]
  /\ faults \in 0..MaxFaults
  /\ accepted \in [Cred -> Nat \cup {-1}]
  /\ overlapped \subseteq Cred /\ deleted \subseteq Cred

(* A passkey its owner removed is gone for good, also if a login with it   *)
(* or its own registration is under way meanwhile.                         *)
DeletedStaysOut == deleted \cap registered = {}

(* FinishLogin of goroutine p ends in this step with success.              *)
LogsIn(p) ==
  /\ call[p].pc = "update" /\ call'[p].pc = "idle" /\ faults' = faults
  /\ requireOneRow(call[p].answer.cred)

(* "If the authenticator's signature counter did not advance it returns    *)
(* ErrCredentialCloned": of the device and a copy of it only one logs in   *)
(* with each count, in ascending order - as long as no two logins with     *)
(* that credential were ever under way at once.                            *)
AdvancesTheCount(p) ==
  LogsIn(p) =>
    LET a == call[p].answer IN
    \/ a.cred \in overlapped
    \/ accepted[a.cred] < a.count
    \/ accepted[a.cred] = 0 /\ a.count = 0

CountsAdvance == [][\A p \in Proc : AdvancesTheCount(p)]_vars

(* FinishLogin of goroutine p ends in this step with ErrCredentialCloned.  *)
Alarms(p) ==
  /\ call[p].pc = "validate" /\ call'[p].pc = "idle" /\ faults' = faults
  /\ ~Refuses(call[p])

(* An owner whose authenticator was not copied is not locked out: whatever *)
(* overlaps, fails or is lost, the newest answer of the authenticator      *)
(* never raises the alarm.                                                 *)
AlarmsForAReason(p) ==
  Alarms(p) => LET a == call[p].answer IN clone[a.cred] # -1 \/ a.count < counter[a.cred]

NoFalseAlarm == [][\A p \in Proc : AlarmsForAReason(p)]_vars
=============================================================================
