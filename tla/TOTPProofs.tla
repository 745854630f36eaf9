----------------------------- MODULE TOTPProofs -----------------------------
(***************************************************************************)
(* What TOTP guarantees for every set of goroutines, users, secrets and    *)
(* codes, every code function and skew, and any number of failures.        *)
(***************************************************************************)
EXTENDS TOTP, TLAPS

(* Every step within reach is positive, and a call under way works for a   *)
(* user, with a secret that was enrolled; the step it is about to consume  *)
(* is the first of its window with that code.                              *)
FirstOf(c) ==
  \A j \in Window(c.at) : hotp(c.secret, j) = hotp(c.secret, c.step) => c.step <= j

FrameOK(c) ==
  /\ c.pc # "idle" => c.user \in User /\ c.secret \in enrolled
  /\ c.pc = "consumeStep" => FirstOf(c)

TypeInv ==
  /\ TypeOK
  /\ now > Skew
  /\ \A u \in User : secret[u] \in enrolled \cup {None}
  /\ \A p \in Proc : FrameOK(call[p])

(* What was accepted of a secret lies at or before the step on record; in  *)
(* adapters/memory, as long as the secret is enrolled.                     *)
Recorded ==
  \A l \in accepted :
    /\ l.secret \in enrolled
    /\ kind = "sql" \/ secret[l.user] = l.secret => l.step <= steps[l.user]

OnceInv == TypeInv /\ Recorded /\ AcceptedOnce

-----------------------------------------------------------------------------
(* The type invariant, action by action.                                   *)

LEMMA TypeInit == Init => TypeInv
  BY ConstantsAssumption DEF Init, TypeInv, TypeOK, FrameOK, Idle, Frame

LEMMA SetSecretType ==
  ASSUME TypeInv, NEW u \in User, NEW s \in Secret, SetSecret(u, s)
  PROVE  TypeInv'
  BY ConstantsAssumption DEF SetSecret, Done, Lost, TypeInv, TypeOK, FrameOK

LEMMA DeleteSecretType ==
  ASSUME TypeInv, NEW u \in User, DeleteSecret(u)
  PROVE  TypeInv'
  BY ConstantsAssumption DEF DeleteSecret, ClearStep, Done, Lost, history, TypeInv, TypeOK, FrameOK

LEMMA GetSecretType ==
  ASSUME TypeInv, NEW p \in Proc, NEW u \in User, NEW c \in Code, GetSecret(p, u, c)
  PROVE  TypeInv'
  BY ConstantsAssumption DEF GetSecret, Idle, history, TypeInv, TypeOK, FrameOK, Frame

(* A step of the window is positive.                                       *)
LEMMA WindowPositive ==
  ASSUME TypeInv, NEW i \in Window(now)
  PROVE  i \in Nat /\ i # 0
  BY ConstantsAssumption DEF Window, TypeInv, TypeOK

LEMMA validateStepType ==
  ASSUME TypeInv, NEW p \in Proc, validateStep(p)
  PROVE  TypeInv'
<1> DEFINE M == Matching(call[p].secret, call[p].code, now)
<1>1. M \subseteq Nat
  BY WindowPositive DEF Matching
<1>2. CASE Return(p)
  BY <1>2 DEF validateStep, Return, history, TypeInv, TypeOK, FrameOK, Frame, Idle
<1> DEFINE Matched(i) == call' = [call EXCEPT ![p] = [@ EXCEPT !.step = i, !.at = now, !.code = None,
                                                               !.pc = "consumeStep"]]
<1>3. CASE \E i \in M : Earliest(M, i) /\ Matched(i)
  <2>1. PICK i \in M : Earliest(M, i) /\ Matched(i)
    BY <1>3
  <2>2. i \in Nat /\ now \in Nat
    BY <1>1 DEF TypeInv, TypeOK
  <2>3. call' \in [Proc -> Frame]
    BY <2>1, <2>2 DEF TypeInv, TypeOK, Frame
  <2>4. hotp(call[p].secret, i) = call[p].code
    BY <2>1 DEF Matching
  <2>5. \A j \in Window(now) : hotp(call[p].secret, j) = hotp(call[p].secret, i) => i <= j
    BY <2>1, <2>4 DEF Earliest, Matching
  <2>6. call'[p] = [call[p] EXCEPT !.step = i, !.at = now, !.code = None, !.pc = "consumeStep"]
    BY <2>1 DEF TypeInv, TypeOK
  <2>7. FrameOK(call[p])'
    <3>1. call[p] \in Frame /\ call[p].pc = "validateStep"
      BY DEF validateStep, TypeInv, TypeOK
    <3>2. /\ call'[p].secret = call[p].secret /\ call'[p].user = call[p].user
          /\ call'[p].step = i /\ call'[p].at = now
      BY <2>6, <3>1 DEF Frame
    <3>3. enrolled' = enrolled /\ call[p].user \in User /\ call[p].secret \in enrolled
      BY <3>1 DEF validateStep, history, TypeInv, FrameOK
    <3>4. FirstOf(call[p])'
      BY <2>5, <3>2 DEF FirstOf
    <3> QED
      BY <3>2, <3>3, <3>4 DEF FrameOK
  <2>8. \A q \in Proc : FrameOK(call[q])'
    <3>1. ASSUME NEW q \in Proc, q # p PROVE FrameOK(call[q])'
      <4>1. call'[q] = call[q] /\ enrolled' = enrolled
        BY <2>1, <3>1 DEF validateStep, history, TypeInv, TypeOK
      <4> QED
        BY <4>1 DEF TypeInv, FrameOK, FirstOf
    <3> QED
      BY <2>7, <3>1
  <2> QED
    BY <2>3, <2>8 DEF validateStep, history, TypeInv, TypeOK
<1> QED
  BY <1>2, <1>3 DEF validateStep

LEMMA ConsumeStepType ==
  ASSUME TypeInv, NEW p \in Proc, ConsumeStep(p)
  PROVE  TypeInv'
<1> DEFINE f == call[p]
           login == [user |-> f.user, secret |-> f.secret, step |-> f.step]
<1>1. /\ f.user \in User /\ f.step \in Nat
      /\ login \in Login
  BY DEF ConsumeStep, TypeInv, TypeOK, FrameOK, Frame, Login
<1>2. /\ call' \in [Proc -> Frame]
      /\ \A q \in Proc : FrameOK(call[q])'
  BY DEF ConsumeStep, Return, TypeInv, TypeOK, FrameOK, Frame, Idle
<1>3. /\ secret' = secret
      /\ steps' \in [User -> Nat]
      /\ faults' \in 0..MaxFaults
  BY <1>1, ConstantsAssumption DEF ConsumeStep, SetStep, Done, Lost, Failed, TypeInv, TypeOK
<1>4. /\ accepted' \subseteq Login /\ replayed' \subseteq accepted'
      /\ unsure' \subseteq Login
  BY <1>1 DEF ConsumeStep, TypeInv, TypeOK
<1> QED
  BY <1>2, <1>3, <1>4 DEF ConsumeStep, TypeInv, TypeOK

LEMMA CrashType ==
  ASSUME TypeInv, NEW p \in Proc, Crash(p)
  PROVE  TypeInv'
  BY ConstantsAssumption DEF Crash, Return, Lost, history, TypeInv, TypeOK, FrameOK, Frame, Idle

LEMMA TypeNext == TypeInv /\ [Next]_vars => TypeInv'
<1> SUFFICES ASSUME TypeInv, [Next]_vars PROVE TypeInv'
  OBVIOUS
<1>1. ASSUME NEW u \in User, DeleteSecret(u) \/ \E s \in Secret : SetSecret(u, s)
      PROVE  TypeInv'
  BY <1>1, DeleteSecretType, SetSecretType
<1>2. ASSUME NEW p \in Proc, \E u \in User, c \in Code : GetSecret(p, u, c)
      PROVE  TypeInv'
  BY <1>2, GetSecretType
<1>3. ASSUME NEW p \in Proc, validateStep(p) \/ ConsumeStep(p) \/ Crash(p)
      PROVE  TypeInv'
  BY <1>3, validateStepType, ConsumeStepType, CrashType
<1>4. CASE Tick
  BY <1>4, ConstantsAssumption DEF Tick, history, TypeInv, TypeOK, FrameOK
<1>5. CASE UNCHANGED vars
  BY <1>5 DEF vars, history, TypeInv, TypeOK, FrameOK
<1> QED
  BY <1>1, <1>2, <1>3, <1>4, <1>5 DEF Next, NotEnrolled

(* Every variable keeps its type: the step a call matched is positive, and *)
(* the secret it works with was enrolled once.                             *)
THEOREM TypeCorrect == Spec => []TypeOK
<1>1. TypeInv => TypeOK
  BY DEF TypeInv
<1> QED
  BY TypeInit, TypeNext, <1>1, PTL DEF Spec

-----------------------------------------------------------------------------
(* One login per code, as long as its step is in the window.               *)

(* A step that changes no secret, no step and no login changes nothing of  *)
(* it.                                                                     *)
LEMMA OnceStutter ==
  ASSUME OnceInv, TypeInv', UNCHANGED <<kind, secret, steps, enrolled, accepted, replayed>>
  PROVE  OnceInv'
  BY DEF OnceInv, Recorded, AcceptedOnce

(* A secret is enrolled once: none that was accepted comes back.           *)
LEMMA SetSecretOnce ==
  ASSUME OnceInv, TypeInv', NEW u \in User, NEW s \in Secret, SetSecret(u, s)
  PROVE  OnceInv'
<1> USE DEF SetSecret, OnceInv, TypeInv, TypeOK, Login
<1>1. \A l \in accepted : l.secret # s /\ l.user \in User
  BY DEF Recorded
<1>2. Recorded'
  BY <1>1 DEF Recorded
<1>3. AcceptedOnce'
  BY <1>1 DEF AcceptedOnce
<1> QED
  BY <1>2, <1>3

LEMMA DeleteSecretOnce ==
  ASSUME OnceInv, TypeInv', NEW u \in User, DeleteSecret(u)
  PROVE  OnceInv'
<1> USE ConstantsAssumption DEF DeleteSecret, ClearStep, history, OnceInv, TypeInv, TypeOK, Login
<1>1. Recorded'
  BY DEF Recorded
<1>2. AcceptedOnce'
  BY DEF AcceptedOnce
<1> QED
  BY <1>1, <1>2

(* A step is accepted only if it lies past the one on record, and it is    *)
(* the first of its window: so no other there with its code was accepted.  *)
LEMMA ConsumeStepOnce ==
  ASSUME OnceInv, TypeInv', NEW p \in Proc, ConsumeStep(p)
  PROVE  OnceInv'
<1> DEFINE f == call[p]
           login == [user |-> f.user, secret |-> f.secret, step |-> f.step]
<1>1. CASE UNCHANGED <<steps, accepted, replayed>>
  BY <1>1, OnceStutter DEF ConsumeStep, Failed
<1>2. CASE Fresh(f.user, f.step) /\ SetStep(f.user, f.step) /\ UNCHANGED secret
  <2>1. /\ f.user \in User /\ f.step \in Nat
        /\ f.secret \in enrolled /\ login \in Login
    BY DEF ConsumeStep, OnceInv, TypeInv, TypeOK, FrameOK, Frame, Login
  <2>2. /\ steps' = [steps EXCEPT ![f.user] = f.step]
        /\ steps[f.user] < f.step
        /\ UNCHANGED <<kind, secret, enrolled>>
    BY <1>2 DEF ConsumeStep, SetStep, Fresh
  <2>3. \A l \in accepted : l.user \in User /\ l.step \in Nat /\ steps[l.user] \in Nat
    BY DEF OnceInv, TypeInv, TypeOK, Login
  <2>4. accepted' \subseteq accepted \cup {login}
    BY DEF ConsumeStep
  <2>5. Recorded'
    BY <2>1, <2>2, <2>3, <2>4 DEF OnceInv, Recorded, TypeInv, TypeOK
  <2>6. \A l \in replayed' : l \in replayed \/ (l = login /\ Replays(login, f.at))
    BY DEF ConsumeStep
  <2>7. ASSUME Replays(login, f.at)
        PROVE  kind = "memory" /\ secret[f.user] # f.secret
    <3>1. PICK l \in accepted : SameCode(l, login) /\ l.step \in Window(f.at)
      BY <2>7 DEF Replays
    <3>2. l.user = f.user /\ l.secret = f.secret /\ hotp(f.secret, l.step) = hotp(f.secret, f.step)
      BY <3>1 DEF SameCode
    <3>3. f.step <= l.step
      BY <3>1, <3>2 DEF ConsumeStep, OnceInv, TypeInv, FrameOK, FirstOf
    <3>4. ~(l.step <= steps[f.user])
      BY <2>1, <2>2, <2>3, <3>2, <3>3
    <3>5. kind \in {"sql", "memory"}
      BY ConstantsAssumption DEF OnceInv, TypeInv, TypeOK
    <3> QED
      BY <3>2, <3>4, <3>5 DEF OnceInv, Recorded
  <2>8. AcceptedOnce'
    BY <2>2, <2>6, <2>7 DEF OnceInv, AcceptedOnce
  <2> QED
    BY <2>5, <2>8 DEF OnceInv
<1> QED
  BY <1>1, <1>2 DEF ConsumeStep, Failed

LEMMA OnceNext == OnceInv /\ [Next]_vars => OnceInv'
<1> SUFFICES ASSUME OnceInv, [Next]_vars PROVE OnceInv'
  OBVIOUS
<1>1. TypeInv'
  BY TypeNext DEF OnceInv
<1>2. ASSUME NEW u \in User, DeleteSecret(u) \/ \E s \in Secret : SetSecret(u, s)
      PROVE  OnceInv'
  BY <1>1, <1>2, DeleteSecretOnce, SetSecretOnce
<1>3. ASSUME NEW p \in Proc, \E u \in User, c \in Code : GetSecret(p, u, c)
      PROVE  OnceInv'
  BY <1>1, <1>3, OnceStutter DEF GetSecret, history
<1>4. ASSUME NEW p \in Proc, validateStep(p) \/ Crash(p)
      PROVE  OnceInv'
  BY <1>1, <1>4, OnceStutter DEF validateStep, Crash, history
<1>5. ASSUME NEW p \in Proc, ConsumeStep(p)
      PROVE  OnceInv'
  BY <1>1, <1>5, ConsumeStepOnce
<1>6. CASE Tick \/ UNCHANGED vars
  BY <1>1, <1>6, OnceStutter DEF Tick, vars, history
<1> QED
  BY <1>2, <1>3, <1>4, <1>5, <1>6 DEF Next, NotEnrolled

(* While the step it logged in for is in the window, a code does not log   *)
(* in again, whatever other steps have that code, whatever interleaves and *)
(* whatever is re-enrolled, but for the call in adapters/memory whose      *)
(* secret was removed meanwhile.                                           *)
THEOREM CodesLogInOnce == Spec => []AcceptedOnce
<1>1. Init => OnceInv
  BY TypeInit DEF Init, OnceInv, Recorded, AcceptedOnce
<1>2. OnceInv => AcceptedOnce
  BY DEF OnceInv
<1> QED
  BY <1>1, OnceNext, <1>2, PTL DEF Spec

-----------------------------------------------------------------------------
(* Nothing but a login burns a step.                                       *)

LEMMA BurntNext == TypeInv /\ BurntByALogin /\ [Next]_vars => BurntByALogin'
<1> SUFFICES ASSUME TypeInv, BurntByALogin, [Next]_vars PROVE BurntByALogin'
  OBVIOUS
<1>1. CASE UNCHANGED <<steps, accepted, unsure>>
  BY <1>1 DEF BurntByALogin
<1>2. ASSUME NEW u \in User, DeleteSecret(u)
      PROVE  BurntByALogin'
  BY <1>2 DEF DeleteSecret, ClearStep, history, BurntByALogin, TypeInv, TypeOK
<1>3. ASSUME NEW p \in Proc, ConsumeStep(p)
      PROVE  BurntByALogin'
  <2> DEFINE f == call[p]
             login == [user |-> f.user, secret |-> f.secret, step |-> f.step]
  <2>1. CASE UNCHANGED <<steps, accepted, unsure>>
    BY <2>1 DEF BurntByALogin
  <2>2. CASE /\ SetStep(f.user, f.step)
             /\ \/ accepted' = accepted \cup {login} /\ UNCHANGED unsure
                \/ unsure' = unsure \cup {login} /\ UNCHANGED accepted
    BY <2>2 DEF SetStep, BurntByALogin, TypeInv, TypeOK
  <2> QED
    BY <1>3, <2>1, <2>2 DEF ConsumeStep, Failed
<1> QED
  BY <1>1, <1>2, <1>3
  DEF Next, SetSecret, GetSecret, NotEnrolled, validateStep, Crash, Tick, vars, history

(* A step that is refused as consumed let its user in, or was about to     *)
(* when the answer was lost.                                               *)
THEOREM OnlyLoginsBurn == Spec => []BurntByALogin
<1>1. Init => BurntByALogin
  BY DEF Init, BurntByALogin
<1> QED
  BY TypeInit, TypeNext, <1>1, BurntNext, PTL DEF Spec
=============================================================================
