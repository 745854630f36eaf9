-------------------------- MODULE OAuthLoginProofs --------------------------
(***************************************************************************)
(* What OAuthLogin guarantees for every set of handlers, browsers,         *)
(* attempts and codes, every lifetime of a login state, and any difference *)
(* between the servers' clocks.                                            *)
(***************************************************************************)
EXTENDS OAuthLogin, WellFoundedInduction, TLAPS

-----------------------------------------------------------------------------
(* Drift is what its name says.                                            *)

LEMMA LeastNatural ==
  ASSUME NEW T, T \subseteq Nat, T # {}
  PROVE  \E x \in T : \A y \in T : x <= y
<1>1. PICK x \in T : \A y \in T : ~(<<y, x>> \in OpToRel(<, Nat))
  BY WFMin, NatLessThanWellFounded
<1>2. \A y \in T : ~(y < x)
  BY <1>1 DEF OpToRel
<1> QED
  BY <1>2

LEMMA DriftBounds ==
  ASSUME offset \in [Proc -> 0..MaxOffset], Proc # {}
  PROVE  Drift \in Nat /\ \A p, q \in Proc : offset[p] <= offset[q] + Drift
<1> DEFINE Covers(d) == \A p, q \in Proc : offset[p] <= offset[q] + d
           Reached(d) == \E p, q \in Proc : offset[p] = offset[q] + d
           T == {d \in 0..MaxOffset : Covers(d)}
<1>1. T \subseteq Nat /\ MaxOffset \in T
  BY OAuthAssumption
<1>2. PICK d \in T : \A e \in T : d <= e
  BY <1>1, LeastNatural
<1>3. Reached(d)
  <2>1. CASE d = 0
    BY <2>1
  <2>2. CASE d # 0
    <3>1. d - 1 \in 0..MaxOffset /\ ~(d <= d - 1)
      BY <2>2, OAuthAssumption
    <3>2. ~Covers(d - 1)
      BY <1>2, <3>1
    <3>3. PICK p, q \in Proc : ~(offset[p] <= offset[q] + (d - 1))
      BY <3>2
    <3>4. offset[p] = offset[q] + d
      <4>1. offset[p] \in Nat /\ offset[q] \in Nat /\ d \in Nat
        BY <1>1, OAuthAssumption
      <4>2. offset[p] <= offset[q] + d
        BY <1>2
      <4> QED
        BY <3>3, <4>1, <4>2
    <3> QED
      BY <3>4
  <2> QED
    BY <2>1, <2>2
<1>4. Drift \in 0..MaxOffset /\ Covers(Drift)
  <2>1. \E x \in 0..MaxOffset : Covers(x) /\ Reached(x)
    BY <1>2, <1>3
  <2> QED
    BY <2>1 DEF Drift
<1> QED
  BY <1>4, OAuthAssumption

-----------------------------------------------------------------------------
(* The inductive invariant.                                                *)

FrameOK(c) ==
  /\ c.pc # "idle" => c.browser \in Browser
  /\ c.pc \in {"redirect", "exchange", "identity"} => c.login \in DOMAIN login
  /\ c.pc \in {"exchange", "identity"} => c.code \in DOMAIN code

TypeInv ==
  /\ TypeOK
  /\ Proc # {}
  /\ login \in [DOMAIN login -> LoginState]
  /\ code \in [DOMAIN code -> Approval]
  /\ \A p \in Proc : FrameOK(call[p])

(* A login state reads what some server's clock did when it was minted.    *)
IssuedOK ==
  \A a \in DOMAIN login :
    /\ login[a].at <= now
    /\ \E q \in Proc : login[a].issuedAt = login[a].at + offset[q]

(* A cookie, and a handler, are of the browser that began the attempt.     *)
OwnAttempt(c) ==
  c.pc \in {"redirect", "exchange", "identity"} => login[c.login].browser = c.browser

OwnersOK ==
  /\ \A b \in Browser : jar[b] # None => login[jar[b]].browser = b
  /\ \A p \in Proc : OwnAttempt(call[p])

(* A code is accepted once, and by one handler: the one whose verifier it  *)
(* was approved for.                                                       *)
CodesOK ==
  /\ \A c \in DOMAIN code : /\ code[c].signIns <= 1
                            /\ ~code[c].spent => code[c].signIns = 0
  /\ \A p \in Proc : call[p].pc = "identity" =>
       /\ code[call[p].code].challenge = call[p].login
       /\ code[call[p].code].spent /\ code[call[p].code].signIns = 0
  /\ \A p, q \in Proc : /\ p # q
                        /\ call[p].pc = "identity" /\ call[q].pc = "identity"
                        => call[p].code # call[q].code

Inv == TypeInv /\ IssuedOK /\ OwnersOK /\ CodesOK

LEMMA InvInit == Init => Inv
<1> SUFFICES ASSUME Init PROVE Inv
  OBVIOUS
<1>1. TypeInv
  BY OAuthAssumption DEF Init, TypeInv, TypeOK, FrameOK, Idle, Frame
<1>2. IssuedOK /\ OwnersOK /\ CodesOK
  BY DEF Init, IssuedOK, OwnersOK, OwnAttempt, CodesOK, Idle
<1> QED
  BY <1>1, <1>2 DEF Inv

LEMMA BeginInv ==
  ASSUME Inv, NEW p \in Proc, NEW b \in Browser, Begin(p, b)
  PROVE  Inv'
<1>1. PICK a \in Attempt \ DOMAIN login :
           /\ login' = Put(login, a, NewLoginState(p, b))
           /\ sealed' = sealed \cup {a}
           /\ call' = [call EXCEPT ![p] = [Idle EXCEPT !.pc = "redirect", !.browser = b, !.login = a]]
  BY DEF Begin, Step
<1>2. UNCHANGED <<now, offset, jar, code, spoiled>>
  BY DEF Begin
<1>3. /\ now \in 0..MaxTime /\ offset[p] \in Nat /\ now \in Nat
      /\ NewLoginState(p, b) \in LoginState
  BY OAuthAssumption DEF Inv, TypeInv, TypeOK, NewLoginState, reading, LoginState
<1>4. /\ DOMAIN login' = DOMAIN login \cup {a}
      /\ login'[a] = NewLoginState(p, b)
      /\ \A x \in DOMAIN login : login'[x] = login[x]
      /\ login' \in [DOMAIN login' -> LoginState]
  BY <1>1, <1>3 DEF Put, Inv, TypeInv
<1>5. /\ call'[p].pc = "redirect" /\ call'[p].browser = b /\ call'[p].login = a
      /\ \A q \in Proc \ {p} : call'[q] = call[q]
      /\ call' \in [Proc -> Frame]
  BY <1>1 DEF Inv, TypeInv, TypeOK, Idle, Frame
<1>6. TypeInv'
  <2>1. \A q \in Proc : FrameOK(call[q])'
    BY <1>2, <1>4, <1>5 DEF Inv, TypeInv, FrameOK
  <2>2. TypeOK'
    BY <1>1, <1>2, <1>4, <1>5 DEF Inv, TypeInv, TypeOK
  <2> QED
    BY <1>2, <1>4, <2>1, <2>2 DEF Inv, TypeInv
<1>7. IssuedOK'
  BY <1>2, <1>3, <1>4 DEF Inv, IssuedOK, NewLoginState, reading
<1>8. OwnersOK'
  BY <1>2, <1>4, <1>5 DEF Inv, TypeInv, TypeOK, FrameOK, OwnersOK, OwnAttempt, NewLoginState
<1>9. CodesOK'
  BY <1>2, <1>5 DEF Inv, CodesOK
<1> QED
  BY <1>6, <1>7, <1>8, <1>9 DEF Inv

(* The frame of the steps that mint nothing: a cookie is dropped or comes  *)
(* from a redirect, and codes stay or change as CodesOK says.              *)
LEMMA FrameInv ==
  ASSUME Inv, UNCHANGED <<offset, login>>, now' \in 0..MaxTime, now' >= now, sealed' \subseteq DOMAIN login,
         jar' \in [Browser -> DOMAIN login \cup {None}], spoiled' \subseteq DOMAIN login,
         DOMAIN code \subseteq DOMAIN code', DOMAIN code' \subseteq Code, code' \in [DOMAIN code' -> Approval],
         call' \in [Proc -> Frame], \A p \in Proc : FrameOK(call[p])',
         \A b \in Browser : jar'[b] # None => login[jar'[b]].browser = b,
         \A p \in Proc : OwnAttempt(call'[p]),
         CodesOK'
  PROVE  Inv'
<1>1. TypeInv'
  BY DEF Inv, TypeInv, TypeOK
<1>2. IssuedOK'
  BY OAuthAssumption DEF Inv, TypeInv, TypeOK, IssuedOK, LoginState
<1>3. OwnersOK'
  BY DEF OwnersOK, OwnAttempt
<1> QED
  BY <1>1, <1>2, <1>3 DEF Inv

(* A browser's cookie is replaced by one of its own attempts or dropped.   *)
LEMMA SetCookieInv ==
  ASSUME Inv, NEW b \in Browser, NEW a \in DOMAIN login \cup {None}, SetCookie(b, a),
         a # None => login[a].browser = b
  PROVE  /\ jar' \in [Browser -> DOMAIN login \cup {None}]
         /\ spoiled' \subseteq DOMAIN login
         /\ \A x \in Browser : jar'[x] # None => login[jar'[x]].browser = x
  BY DEF SetCookie, Inv, TypeInv, TypeOK, OwnersOK

LEMMA RedirectInv == ASSUME Inv, NEW p \in Proc, Redirect(p) PROVE Inv'
<1>1. PICK b \in Browser, a \in DOMAIN login :
           b = call[p].browser /\ a = call[p].login /\ login[a].browser = b
  BY DEF Redirect, Inv, TypeInv, FrameOK, OwnersOK, OwnAttempt
<1>2. SetCookie(b, a) /\ call' = [call EXCEPT ![p] = Idle] /\ UNCHANGED <<now, offset, login, sealed, code>>
  BY <1>1 DEF Redirect, Step
<1>3. call' \in [Proc -> Frame] /\ \A q \in Proc : call'[q] = call[q] \/ call'[q].pc = "idle"
  BY <1>2 DEF Inv, TypeInv, TypeOK, Idle, Frame
<1>4. /\ jar' \in [Browser -> DOMAIN login \cup {None}]
      /\ spoiled' \subseteq DOMAIN login
      /\ \A x \in Browser : jar'[x] # None => login[jar'[x]].browser = x
  BY <1>1, <1>2, SetCookieInv
<1>5. \A q \in Proc : FrameOK(call[q])' /\ OwnAttempt(call'[q])
  BY <1>2, <1>3 DEF Inv, TypeInv, FrameOK, OwnersOK, OwnAttempt
<1>6. CodesOK'
  BY <1>2, <1>3 DEF Inv, CodesOK
<1> QED
  BY <1>2, <1>3, <1>4, <1>5, <1>6, OAuthAssumption, FrameInv DEF Inv, TypeInv, TypeOK

LEMMA AnswerInv == ASSUME Inv, NEW p \in Proc, Answer(p) PROVE Inv'
<1>1. PICK b \in Browser : b = call[p].browser
  BY DEF Answer, Inv, TypeInv, FrameOK
<1>2. SetCookie(b, None) /\ call' = [call EXCEPT ![p] = Idle] /\ UNCHANGED <<now, offset, login, sealed, code>>
  BY <1>1 DEF Answer, Step
<1>3. call' \in [Proc -> Frame] /\ \A q \in Proc : call'[q] = call[q] \/ call'[q].pc = "idle"
  BY <1>2 DEF Inv, TypeInv, TypeOK, Idle, Frame
<1>4. /\ jar' \in [Browser -> DOMAIN login \cup {None}]
      /\ spoiled' \subseteq DOMAIN login
      /\ \A x \in Browser : jar'[x] # None => login[jar'[x]].browser = x
  BY <1>2, SetCookieInv
<1>5. \A q \in Proc : FrameOK(call[q])' /\ OwnAttempt(call'[q])
  BY <1>2, <1>3 DEF Inv, TypeInv, FrameOK, OwnersOK, OwnAttempt
<1>6. CodesOK'
  BY <1>2, <1>3 DEF Inv, CodesOK
<1> QED
  BY <1>2, <1>3, <1>4, <1>5, <1>6, OAuthAssumption, FrameInv DEF Inv, TypeInv, TypeOK

LEMMA CookieExpiresInv == ASSUME Inv, NEW b \in Browser, CookieExpires(b) PROVE Inv'
<1>1. SetCookie(b, None) /\ UNCHANGED <<now, offset, login, sealed, code, call>>
  BY DEF CookieExpires
<1>2. /\ jar' \in [Browser -> DOMAIN login \cup {None}]
      /\ spoiled' \subseteq DOMAIN login
      /\ \A x \in Browser : jar'[x] # None => login[jar'[x]].browser = x
  BY <1>1, SetCookieInv
<1>3. \A q \in Proc : FrameOK(call[q])' /\ OwnAttempt(call'[q])
  BY <1>1 DEF Inv, TypeInv, FrameOK, OwnersOK, OwnAttempt
<1>4. CodesOK'
  BY <1>1 DEF Inv, CodesOK
<1> QED
  BY <1>1, <1>2, <1>3, <1>4, OAuthAssumption, FrameInv DEF Inv, TypeInv, TypeOK

LEMMA ApproveInv == ASSUME Inv, NEW a \in Attempt, Approve(a) PROVE Inv'
<1> DEFINE approval == [challenge |-> a, spent |-> FALSE, signIns |-> 0]
<1>1. PICK c \in Code \ DOMAIN code : code' = Put(code, c, approval)
  BY DEF Approve, Challenge
<1>2. UNCHANGED <<now, offset, login, sealed, jar, call, spoiled>>
  BY DEF Approve
<1>3. approval \in Approval
  BY DEF Approval
<1>4. /\ DOMAIN code' = DOMAIN code \cup {c}
      /\ code'[c] = approval /\ \A x \in DOMAIN code : code'[x] = code[x]
      /\ code' \in [DOMAIN code' -> Approval]
  BY <1>1, <1>3 DEF Put, Inv, TypeInv
<1>5. \A q \in Proc : FrameOK(call[q])' /\ OwnAttempt(call'[q])
  BY <1>2, <1>4 DEF Inv, TypeInv, FrameOK, OwnersOK, OwnAttempt
<1>6. CodesOK'
  BY <1>2, <1>4 DEF Inv, TypeInv, FrameOK, CodesOK
<1>7. /\ now' \in 0..MaxTime /\ now' >= now /\ call' \in [Proc -> Frame]
      /\ sealed' \subseteq DOMAIN login /\ spoiled' \subseteq DOMAIN login
      /\ jar' \in [Browser -> DOMAIN login \cup {None}]
      /\ \A b \in Browser : jar'[b] # None => login[jar'[b]].browser = b
  BY <1>2, OAuthAssumption DEF Inv, TypeInv, TypeOK, OwnersOK
<1>8. DOMAIN code \subseteq DOMAIN code' /\ DOMAIN code' \subseteq Code
  BY <1>4 DEF Inv, TypeInv, TypeOK
<1> QED
  BY <1>2, <1>4, <1>5, <1>6, <1>7, <1>8, FrameInv

LEMMA CallbackInv ==
  ASSUME Inv, NEW p \in Proc, NEW b \in Browser,
         \/ Declined(p, b)
         \/ \E a \in Attempt, c \in Code : Callback(p, b, a, c)
  PROVE  Inv'
<1>1. UNCHANGED <<now, offset, login, sealed, jar, code, spoiled>>
  BY DEF Declined, Callback
<1>2. /\ \A q \in Proc \ {p} : call'[q] = call[q]
      /\ call'[p] \in Frame /\ call' \in [Proc -> Frame]
      /\ call'[p].browser = b /\ call'[p].pc \in {"answer", "exchange"}
      /\ call'[p].pc = "exchange" =>
           /\ jar[b] # None /\ call'[p].login = jar[b] /\ call'[p].code \in DOMAIN code
  <2>1. \/ call' = [call EXCEPT ![p] = [Idle EXCEPT !.pc = "answer", !.browser = b]]
        \/ \E c \in DOMAIN code :
             /\ jar[b] # None
             /\ call' = [call EXCEPT ![p] = [pc |-> "exchange", browser |-> b, login |-> jar[b], code |-> c]]
    BY DEF Declined, Callback, Opens, End, Step
  <2>2. [Idle EXCEPT !.pc = "answer", !.browser = b] \in Frame
    BY DEF Idle, Frame
  <2>3. \A c \in DOMAIN code :
          jar[b] # None => [pc |-> "exchange", browser |-> b, login |-> jar[b], code |-> c] \in Frame
    BY DEF Inv, TypeInv, TypeOK, Frame
  <2>4. call \in [Proc -> Frame]
    BY DEF Inv, TypeInv, TypeOK
  <2>5. CASE call' = [call EXCEPT ![p] = [Idle EXCEPT !.pc = "answer", !.browser = b]]
    BY <2>2, <2>4, <2>5 DEF Idle
  <2>6. CASE \E c \in DOMAIN code :
               /\ jar[b] # None
               /\ call' = [call EXCEPT ![p] = [pc |-> "exchange", browser |-> b, login |-> jar[b], code |-> c]]
    <3>1. PICK c \in DOMAIN code :
            /\ jar[b] # None
            /\ call' = [call EXCEPT ![p] = [pc |-> "exchange", browser |-> b, login |-> jar[b], code |-> c]]
      BY <2>6
    <3> QED
      BY <2>3, <2>4, <3>1
  <2> QED
    BY <2>1, <2>5, <2>6
<1>3. \A q \in Proc : FrameOK(call[q])'
  BY <1>1, <1>2 DEF Inv, TypeInv, TypeOK, FrameOK
<1>4. \A q \in Proc : OwnAttempt(call'[q])
  BY <1>1, <1>2 DEF Inv, OwnersOK, OwnAttempt
<1>5. CodesOK'
  BY <1>1, <1>2 DEF Inv, CodesOK
<1> QED
  BY <1>1, <1>2, <1>3, <1>4, <1>5, OAuthAssumption, FrameInv DEF Inv, TypeInv, TypeOK, OwnersOK

LEMMA exchangeInv == ASSUME Inv, NEW p \in Proc, exchange(p) PROVE Inv'
<1>1. PICK c \in DOMAIN code, a \in DOMAIN login :
           c = call[p].code /\ a = call[p].login
  BY DEF exchange, Inv, TypeInv, FrameOK
<1>2. UNCHANGED <<now, offset, login, sealed, jar, spoiled>>
  BY DEF exchange
<1>3. /\ \A q \in Proc \ {p} : call'[q] = call[q]
      /\ call' \in [Proc -> Frame]
      /\ \/ call'[p].pc = "answer" /\ call'[p].browser = call[p].browser
         \/ /\ call'[p] = [call[p] EXCEPT !.pc = "identity"]
            /\ Accepts(c, a) /\ Spend(c)
  <2>1. PICK f \in Frame : f = call[p]
    BY DEF Inv, TypeInv, TypeOK
  <2>2. call \in [Proc -> Frame]
    BY DEF Inv, TypeInv, TypeOK
  <2>3. \/ call' = [call EXCEPT ![p] = [Idle EXCEPT !.pc = "answer", !.browser = f.browser]]
        \/ /\ call' = [call EXCEPT ![p] = [f EXCEPT !.pc = "identity"]]
           /\ Accepts(c, a) /\ Spend(c)
    BY <1>1, <2>1 DEF exchange, End, Step
  <2>4. [Idle EXCEPT !.pc = "answer", !.browser = f.browser] \in Frame /\ [f EXCEPT !.pc = "identity"] \in Frame
    BY DEF Idle, Frame
  <2>5. CASE call' = [call EXCEPT ![p] = [Idle EXCEPT !.pc = "answer", !.browser = f.browser]]
    BY <2>1, <2>2, <2>4, <2>5 DEF Idle
  <2>6. CASE /\ call' = [call EXCEPT ![p] = [f EXCEPT !.pc = "identity"]]
             /\ Accepts(c, a) /\ Spend(c)
    BY <2>1, <2>2, <2>4, <2>6
  <2> QED
    BY <2>3, <2>5, <2>6
<1>4. /\ \/ code' = code
         \/ ~code[c].spent /\ code[c].challenge = a /\ Spend(c)
      /\ DOMAIN code' = DOMAIN code /\ code' \in [DOMAIN code -> Approval]
      /\ \A x \in DOMAIN code \ {c} : code'[x] = code[x]
  BY <1>1 DEF exchange, Accepts, Challenge, Spend, Inv, TypeInv, Approval
<1>5. \A q \in Proc : FrameOK(call[q])'
  BY <1>2, <1>3, <1>4 DEF exchange, Inv, TypeInv, TypeOK, FrameOK, Frame
<1>6. \A q \in Proc : OwnAttempt(call'[q])
  BY <1>2, <1>3 DEF exchange, Inv, OwnersOK, OwnAttempt, TypeInv, TypeOK, Frame
<1>7. CodesOK'
  <2>1. \A x \in DOMAIN code' : /\ code'[x].signIns <= 1
                                /\ ~code'[x].spent => code'[x].signIns = 0
    BY <1>4 DEF Spend, Inv, CodesOK, TypeInv, Approval
  <2>2. ~code[c].spent => \A q \in Proc \ {p} : call[q].pc = "identity" => call[q].code # c
    BY DEF Inv, CodesOK
  <2>3. ASSUME NEW q \in Proc, call'[q].pc = "identity"
        PROVE  /\ code'[call'[q].code].challenge = call'[q].login
               /\ code'[call'[q].code].spent /\ code'[call'[q].code].signIns = 0
    <3>1. CASE q = p
      <4>1. call'[p].code = c /\ call'[p].login = a /\ ~code[c].spent /\ code[c].challenge = a /\ Spend(c)
        BY <1>1, <1>3, <2>3, <3>1 DEF Accepts, Challenge, Inv, TypeInv, TypeOK, Frame
      <4> QED
        BY <3>1, <4>1 DEF Spend, Inv, CodesOK, TypeInv, Approval
    <3>2. CASE q # p
      BY <1>3, <1>4, <2>2, <2>3, <3>2 DEF Inv, CodesOK, TypeInv, FrameOK
    <3> QED
      BY <3>1, <3>2
  <2>4. \A q, r \in Proc : /\ q # r
                           /\ call'[q].pc = "identity" /\ call'[r].pc = "identity"
                           => call'[q].code # call'[r].code
    <3>1. call'[p].pc = "identity" => call'[p].code = c /\ ~code[c].spent
      BY <1>1, <1>3 DEF Accepts, Inv, TypeInv, TypeOK, Frame
    <3> QED
      BY <1>3, <2>2, <3>1 DEF Inv, CodesOK
  <2> QED
    BY <2>1, <2>3, <2>4 DEF CodesOK
<1> QED
  BY <1>2, <1>3, <1>4, <1>5, <1>6, <1>7, OAuthAssumption, FrameInv DEF Inv, TypeInv, TypeOK, OwnersOK

LEMMA ReadIdentityInv == ASSUME Inv, NEW p \in Proc, ReadIdentity(p) PROVE Inv'
<1>1. PICK c \in DOMAIN code : c = call[p].code
  BY DEF ReadIdentity, Inv, TypeInv, FrameOK
<1>2. UNCHANGED <<now, offset, login, sealed, jar, spoiled>>
  BY DEF ReadIdentity
<1>3. /\ \A q \in Proc \ {p} : call'[q] = call[q]
      /\ call' \in [Proc -> Frame]
      /\ call'[p].pc = "answer" /\ call'[p].browser = call[p].browser
  BY DEF ReadIdentity, End, Step, Inv, TypeInv, TypeOK, FrameOK, Frame, Idle
<1>4. code[c].signIns = 0 /\ code[c].spent
  BY <1>1 DEF ReadIdentity, Inv, CodesOK
<1>5. /\ DOMAIN code' = DOMAIN code /\ code' \in [DOMAIN code -> Approval]
      /\ \A x \in DOMAIN code \ {c} : code'[x] = code[x]
      /\ code'[c].signIns <= 1 /\ code'[c].spent
  BY <1>1, <1>4 DEF ReadIdentity, SignIn, Inv, TypeInv, Approval
<1>6. \A q \in Proc : FrameOK(call[q])'
  BY <1>2, <1>3, <1>5 DEF ReadIdentity, Inv, TypeInv, TypeOK, FrameOK
<1>7. \A q \in Proc : OwnAttempt(call'[q])
  BY <1>3 DEF Inv, OwnersOK, OwnAttempt
<1>8. CodesOK'
  <2>1. \A q \in Proc \ {p} : call[q].pc = "identity" => call[q].code # c
    BY <1>1 DEF ReadIdentity, Inv, CodesOK
  <2> QED
    BY <1>3, <1>5, <2>1 DEF Inv, CodesOK, TypeInv, FrameOK
<1> QED
  BY <1>2, <1>3, <1>5, <1>6, <1>7, <1>8, OAuthAssumption, FrameInv DEF Inv, TypeInv, TypeOK, OwnersOK

LEMMA LoseInv == ASSUME Inv, NEW p \in Proc, Lose(p) PROVE Inv'
<1>1. UNCHANGED <<now, offset, login, sealed, jar, code, spoiled>>
  BY DEF Lose
<1>2. call' \in [Proc -> Frame] /\ \A q \in Proc : call'[q] = call[q] \/ call'[q].pc = "idle"
  BY DEF Lose, Step, Inv, TypeInv, TypeOK, Idle, Frame
<1>3. \A q \in Proc : FrameOK(call[q])' /\ OwnAttempt(call'[q])
  BY <1>1, <1>2 DEF Inv, TypeInv, FrameOK, OwnersOK, OwnAttempt
<1>4. CodesOK'
  BY <1>1, <1>2 DEF Inv, CodesOK
<1> QED
  BY <1>1, <1>2, <1>3, <1>4, OAuthAssumption, FrameInv DEF Inv, TypeInv, TypeOK, OwnersOK

LEMMA OtherInv == ASSUME Inv, RotateKey \/ Tick \/ UNCHANGED vars PROVE Inv'
<1>1. UNCHANGED <<offset, login, jar, code, call, spoiled>>
  BY DEF RotateKey, Tick, vars
<1>2. sealed' \subseteq DOMAIN login /\ now' \in 0..MaxTime /\ now' >= now
  BY OAuthAssumption DEF RotateKey, Tick, vars, Inv, TypeInv, TypeOK
<1>3. \A q \in Proc : FrameOK(call[q])' /\ OwnAttempt(call'[q])
  BY <1>1 DEF Inv, TypeInv, FrameOK, OwnersOK, OwnAttempt
<1>4. CodesOK'
  BY <1>1 DEF Inv, CodesOK
<1> QED
  BY <1>1, <1>2, <1>3, <1>4, FrameInv DEF Inv, TypeInv, TypeOK, OwnersOK

LEMMA InvNext == Inv /\ [Next]_vars => Inv'
<1> SUFFICES ASSUME Inv, [Next]_vars PROVE Inv'
  OBVIOUS
<1>1. ASSUME NEW p \in Proc, NEW b \in Browser,
             \/ Begin(p, b) \/ Declined(p, b)
             \/ \E a \in Attempt, c \in Code : Callback(p, b, a, c)
      PROVE  Inv'
  BY <1>1, BeginInv, CallbackInv
<1>2. ASSUME NEW p \in Proc, Redirect(p) \/ exchange(p) \/ ReadIdentity(p) \/ Answer(p) \/ Lose(p)
      PROVE  Inv'
  BY <1>2, RedirectInv, exchangeInv, ReadIdentityInv, AnswerInv, LoseInv
<1>3. ASSUME NEW a \in Attempt, Approve(a)
      PROVE  Inv'
  BY <1>3, ApproveInv
<1>4. ASSUME NEW b \in Browser, CookieExpires(b)
      PROVE  Inv'
  BY <1>4, CookieExpiresInv
<1>5. CASE RotateKey \/ Tick \/ UNCHANGED vars
  BY <1>5, OtherInv
<1> QED
  BY <1>1, <1>2, <1>3, <1>4, <1>5 DEF Next

LEMMA Invariance == Spec => []Inv
  BY InvInit, InvNext, PTL DEF Spec

(* Every variable keeps its type: the cookie of a browser is a login state *)
(* that was minted.                                                        *)
THEOREM TypeCorrect == Spec => []TypeOK
<1>1. Inv => TypeOK
  BY DEF Inv, TypeInv
<1> QED
  BY <1>1, Invariance, PTL

(* An access token is had only for an approval of the attempt that the     *)
(* handler's browser began, and an approval signs in once.                 *)
THEOREM ApprovalsSignInOnce == Spec => []SignedInByApproval
<1>1. Inv => SignedInByApproval
  BY DEF Inv, OwnersOK, OwnAttempt, CodesOK, SignedInByApproval
<1> QED
  BY <1>1, Invariance, PTL

-----------------------------------------------------------------------------
(* What Open makes of a callback.                                          *)

LEMMA OpenMeaning ==
  ASSUME Inv, NEW p \in Proc, NEW b \in Browser, NEW a \in Attempt, Opens(p, jar[b], a)
  PROVE  login[a].browser = b /\ now < login[a].at + TTL + Drift
<1>1. a = jar[b] /\ a \in DOMAIN login /\ InTime(p, a)
  BY DEF Opens, Echoes, Inv, TypeInv, TypeOK
<1>2. login[a].browser = b
  BY <1>1, OAuthAssumption DEF Inv, OwnersOK
<1>3. PICK q \in Proc : login[a].issuedAt = login[a].at + offset[q]
  BY <1>1 DEF Inv, IssuedOK
<1>4. offset[q] <= offset[p] + Drift /\ Drift \in Nat
  BY DriftBounds DEF Inv, TypeInv, TypeOK
<1>5. now + offset[p] < login[a].at + offset[q] + TTL
  BY <1>1, <1>3 DEF InTime, reading
<1>6. now \in Nat /\ offset[p] \in Nat /\ offset[q] \in Nat /\ login[a].at \in Nat /\ TTL \in Nat
  BY <1>1, OAuthAssumption DEF Inv, TypeInv, TypeOK, LoginState
<1>7. now < login[a].at + TTL + Drift
  BY <1>4, <1>5, <1>6
<1> QED
  BY <1>2, <1>7

LEMMA RefusalMeaning ==
  ASSUME Inv, NEW p \in Proc, NEW b \in Browser, NEW a \in Attempt,
         Followed(a), login[a].browser = b, ~Opens(p, jar[b], a)
  PROVE  \/ a \in spoiled \/ a \notin sealed
         \/ now + Drift >= login[a].at + TTL
         \/ Drift > Leeway
<1> SUFFICES ASSUME a \notin spoiled, a \in sealed
             PROVE  now + Drift >= login[a].at + TTL \/ Drift > Leeway
  OBVIOUS
<1>1. PICK x \in Browser : jar[x] = a
  BY DEF Followed
<1>2. a # None /\ a \in DOMAIN login /\ x = b
  BY <1>1, OAuthAssumption DEF Inv, TypeInv, TypeOK, OwnersOK
<1>3. ~InTime(p, a)
  BY <1>1, <1>2 DEF Opens, Genuine, Echoes
<1>4. PICK q \in Proc : login[a].issuedAt = login[a].at + offset[q]
  BY <1>2 DEF Inv, IssuedOK
<1>5. offset[q] <= offset[p] + Drift /\ offset[p] <= offset[q] + Drift /\ Drift \in Nat
  BY DriftBounds DEF Inv, TypeInv, TypeOK
<1>6. login[a].at <= now
  BY <1>2 DEF Inv, IssuedOK
<1>7. /\ now \in Nat /\ offset[p] \in Nat /\ offset[q] \in Nat /\ login[a].at \in Nat
      /\ TTL \in Nat /\ Leeway \in Nat
  BY <1>2, OAuthAssumption DEF Inv, TypeInv, TypeOK, LoginState
<1>8. CASE ~(login[a].at + offset[q] <= now + offset[p] + Leeway)
  BY <1>5, <1>6, <1>7, <1>8
<1>9. CASE ~(now + offset[p] < login[a].at + offset[q] + TTL)
  BY <1>5, <1>7, <1>9
<1> QED
  BY <1>3, <1>4, <1>8, <1>9 DEF InTime, reading

(* A callback opens, or is answered.                                       *)
LEMMA CallbackOutcome ==
  ASSUME Inv, NEW p \in Proc, NEW b, NEW a, NEW c, Callback(p, b, a, c)
  PROVE  /\ Followed(a)
         /\ call'[p].pc = "exchange" => Opens(p, jar[b], a)
         /\ call'[p].pc = "answer" => ~Opens(p, jar[b], a)
<1>1. DOMAIN call = Proc
  BY DEF Inv, TypeInv, TypeOK
<1>2. \/ /\ Opens(p, jar[b], a)
         /\ call' = [call EXCEPT ![p] = [pc |-> "exchange", browser |-> b, login |-> jar[b], code |-> c]]
      \/ /\ ~Opens(p, jar[b], a)
         /\ call' = [call EXCEPT ![p] = [Idle EXCEPT !.pc = "answer", !.browser = b]]
  BY DEF Callback, End, Step
<1>3. [Idle EXCEPT !.pc = "answer", !.browser = b].pc = "answer"
  BY DEF Idle
<1>4. [pc |-> "exchange", browser |-> b, login |-> jar[b], code |-> c].pc = "exchange"
  OBVIOUS
<1>5. call'[p].pc = IF Opens(p, jar[b], a) THEN "exchange" ELSE "answer"
  BY <1>1, <1>2, <1>3, <1>4
<1>6. Followed(a)
  BY DEF Callback
<1> QED
  BY <1>5, <1>6

(* A callback gets as far as the provider only in the browser that began   *)
(* the attempt, and within the lifetime of its login state, whatever the   *)
(* servers' clocks read.                                                   *)
THEOREM ForgeriesEnd == Spec => ForgeriesEndAtOpen
<1>1. Inv /\ [Next]_vars => [\A p \in Proc : OpensItsOwn(p)]_vars
  <2> SUFFICES ASSUME Inv, [Next]_vars, NEW p \in Proc,
                      call[p].pc = "idle", call'[p].pc = "exchange",
                      NEW a \in Attempt, Callback(p, call'[p].browser, a, call'[p].code)
               PROVE  login[a].browser = call'[p].browser /\ now < login[a].at + TTL + Drift
    BY DEF OpensItsOwn
  <2>1. PICK b \in Browser : b = call'[p].browser
    BY InvNext DEF Inv, TypeInv, FrameOK
  <2>2. PICK c : c = call'[p].code
    OBVIOUS
  <2>3. Callback(p, b, a, c)
    BY <2>1, <2>2
  <2>4. Opens(p, jar[b], a)
    BY <2>3, CallbackOutcome
  <2> QED
    BY <2>1, <2>4, OpenMeaning
<1> QED
  BY <1>1, Invariance, PTL DEF Spec, ForgeriesEndAtOpen

(* A browser that returns with its own attempt is refused only if its      *)
(* cookie was replaced, the key was rotated, it is late, or the clocks     *)
(* differ by more than Open allows.                                        *)
THEOREM HonestReturns == Spec => HonestReturnsOpen
<1>1. Inv /\ [Next]_vars => [\A p \in Proc : RefusesForAReason(p)]_vars
  <2> SUFFICES ASSUME Inv, [Next]_vars, NEW p \in Proc,
                      call[p].pc = "idle", call'[p].pc = "answer",
                      NEW a \in Attempt, NEW c \in Code,
                      Callback(p, call'[p].browser, a, c), login[a].browser = call'[p].browser
               PROVE  \/ a \in spoiled \/ a \notin sealed
                      \/ now + Drift >= login[a].at + TTL
                      \/ Drift > Leeway
    BY DEF RefusesForAReason
  <2>1. PICK b \in Browser : b = call'[p].browser
    BY InvNext DEF Inv, TypeInv, FrameOK
  <2>2. Callback(p, b, a, c)
    BY <2>1
  <2>3. Followed(a) /\ ~Opens(p, jar[b], a)
    BY <2>2, CallbackOutcome
  <2> QED
    BY <2>1, <2>3, RefusalMeaning
<1> QED
  BY <1>1, Invariance, PTL DEF Spec, HonestReturnsOpen
=============================================================================
