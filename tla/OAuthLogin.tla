------------------------------ MODULE OAuthLogin ------------------------------
(***************************************************************************)
(* Sign-in through an OAuth provider (oauth/oauth.go, oauth/github.go):    *)
(* browsers that leave for the provider and come back, in several tabs,    *)
(* with links seen elsewhere, after the key was rotated, to a server whose *)
(* clock differs from that of the server they left.                        *)
(*                                                                         *)
(* Nothing is stored here: an attempt lives in the sealed cookie of one    *)
(* browser.  A state value and the verifier minted with it are one element *)
(* of Attempt; a code stands for whoever approved it and for the access    *)
(* token it is traded for.  A step is one clock reading, one request to    *)
(* the provider, or one arrival at a browser; any request or answer may    *)
(* fail, at any time and any number of times.  What the product does with  *)
(* the cookie is what the usage in the repository's README shows.          *)
(***************************************************************************)
EXTENDS Naturals, FiniteSets

CONSTANTS
  Proc,         \* handlers, each on a server with a clock of its own
  Browser,
  Attempt,      \* what NewLoginState may mint; never one twice
  Code,         \* authorization codes the provider may issue
  TTL,          \* StateSealer.ttl, also the cookie's Max-Age
  Leeway,       \* the minute by which a login state may lie in the future
  MaxOffset,    \* bound on the difference of two servers' clocks
  MaxTime,      \* bound on time
  None          \* the absence of an attempt, a browser, a code

ASSUME OAuthAssumption ==
  /\ TTL \in Nat \ {0}
  /\ {Leeway, MaxOffset, MaxTime} \subseteq Nat
  /\ None \notin Browser \cup Attempt \cup Code

VARIABLES
  now,       \* true time
  offset,    \* what the clock of each handler's server reads beyond it
  login,     \* every login state minted
  sealed,    \* of them, those sealed with the key in use
  jar,       \* the login-state cookie of each browser
  code,      \* the provider's record of every code issued
  call,      \* the frame of each handler
  \* History, read by the properties only:
  spoiled    \* attempts whose cookie was replaced, cleared or dropped

vars == <<now, offset, login, sealed, jar, code, call, spoiled>>

LoginState == [issuedAt : Nat,        \* the reading of the server that minted it
               browser  : Browser,    \* history: that asked for it
               at       : 0..MaxTime] \* history: when, in true time

Approval == [challenge : Attempt \cup {None}, spent : BOOLEAN,
             signIns   : 0..2]        \* history: sign-ins it led to, up to two

Frame == [pc      : {"idle", "redirect", "exchange", "identity", "answer"},
          browser : Browser \cup {None},
          login   : Attempt \cup {None},   \* the login state, minted or opened
          code    : Code \cup {None}]

Idle == [pc |-> "idle", browser |-> None, login |-> None, code |-> None]

Put(f, x, y) == [u \in DOMAIN f \cup {x} |-> IF u = x THEN y ELSE f[u]]

reading(p) == now + offset[p]

Init ==
  /\ now = 0
  /\ offset \in [Proc -> 0..MaxOffset] /\ \E p \in Proc : offset[p] = 0
  /\ login = [a \in {} |-> a] /\ sealed = {}
  /\ jar = [b \in Browser |-> None]
  /\ code = [c \in {} |-> c]
  /\ call = [p \in Proc |-> Idle]
  /\ spoiled = {}

Step(p, frame) == call' = [call EXCEPT ![p] = frame]

-----------------------------------------------------------------------------
(* Variants of the definitions below with a plausible mistake.             *)

WithoutTime(p, b) == [browser |-> b, at |-> now]

OneForAll(a) == None

AnyState(a, state) == TRUE

NoLeeway(p, a) == login[a].issuedAt <= reading(p) /\ reading(p) < login[a].issuedAt + TTL

-----------------------------------------------------------------------------
(* Leaving for the provider.                                               *)

NewLoginState(p, b) == [issuedAt |-> reading(p), browser |-> b, at |-> now]

(* It is minted, and sealed with the key in use.                           *)
Begin(p, b) ==
  /\ call[p].pc = "idle"
  /\ \E a \in Attempt \ DOMAIN login :
       /\ login' = Put(login, a, NewLoginState(p, b))
       /\ sealed' = sealed \cup {a}
       /\ Step(p, [Idle EXCEPT !.pc = "redirect", !.browser = b, !.login = a])
  /\ UNCHANGED <<now, offset, jar, code, spoiled>>

SetCookie(b, a) ==
  /\ jar' = [jar EXCEPT ![b] = a]
  /\ spoiled' = spoiled \cup ({jar[b]} \ {None})

(* The redirect and its cookie arrive; the browser has one such cookie.    *)
Redirect(p) ==
  /\ call[p].pc = "redirect"
  /\ SetCookie(call[p].browser, call[p].login)
  /\ Step(p, Idle)
  /\ UNCHANGED <<now, offset, login, sealed, code>>

(* The redirect of the attempt has reached a browser.                      *)
Followed(a) == a \in spoiled \/ \E b \in Browser : jar[b] = a

(* PKCEChallenge of the attempt's verifier, sent in AuthCodeURL.           *)
Challenge(a) == a

(* A person approves the attempt at the provider, usually but not          *)
(* necessarily in the browser that began it.                               *)
Approve(a) ==
  /\ Followed(a)
  /\ \E c \in Code \ DOMAIN code :
       code' = Put(code, c, [challenge |-> Challenge(a), spent |-> FALSE, signIns |-> 0])
  /\ UNCHANGED <<now, offset, login, sealed, jar, call, spoiled>>

(* The cookie's Max-Age is TTL(), counted from its arrival.                *)
CookieExpires(b) ==
  /\ jar[b] # None
  /\ now >= login[jar[b]].at + TTL
  /\ SetCookie(b, None)
  /\ UNCHANGED <<now, offset, login, sealed, code, call>>

-----------------------------------------------------------------------------
(* The callback: Open.                                                     *)

(* The cookie decrypts under the key in use.                               *)
Genuine(a) == a \in sealed

(* Its state is the one the provider echoed.                               *)
Echoes(a, state) == a = state

(* It was minted no more than a minute from now and is not expired.        *)
InTime(p, a) ==
  /\ login[a].issuedAt <= reading(p) + Leeway
  /\ reading(p) < login[a].issuedAt + TTL

Opens(p, cookie, state) ==
  /\ cookie # None
  /\ Genuine(cookie)
  /\ Echoes(cookie, state)
  /\ InTime(p, cookie)

(* The callback has ended, with an identity or an error, but for the       *)
(* product's answer.                                                       *)
End(p, b) == Step(p, [Idle EXCEPT !.pc = "answer", !.browser = b])

(* A browser follows a callback link: its own redirect, once more, or one  *)
(* from elsewhere; state and code need not belong together.                *)
Callback(p, b, state, c) ==
  /\ call[p].pc = "idle"
  /\ Followed(state) /\ c \in DOMAIN code
  /\ \/ /\ Opens(p, jar[b], state)
        /\ Step(p, [pc |-> "exchange", browser |-> b, login |-> jar[b], code |-> c])
     \/ ~Opens(p, jar[b], state) /\ End(p, b)          \* ErrState
  /\ UNCHANGED <<now, offset, login, sealed, jar, code, spoiled>>

(* The link carries an error, ErrDenied or ErrProvider to CallbackError.   *)
Declined(p, b) ==
  /\ call[p].pc = "idle"
  /\ \E a \in Attempt : Followed(a)
  /\ End(p, b)
  /\ UNCHANGED <<now, offset, login, sealed, jar, code, spoiled>>

-----------------------------------------------------------------------------
(* Complete.                                                               *)

(* What the provider does with a code, and with the verifier sent along.   *)
Accepts(c, a) == ~code[c].spent /\ code[c].challenge = Challenge(a)

Spend(c) == code' = [code EXCEPT ![c].spent = TRUE]

exchange(p) ==
  LET f == call[p] IN
  /\ f.pc = "exchange"
  /\ \/ /\ Accepts(f.code, f.login) /\ Spend(f.code)
        /\ \/ Step(p, [f EXCEPT !.pc = "identity"])
           \/ End(p, f.browser)              \* no answer, or a malformed one
     \/ End(p, f.browser) /\ UNCHANGED code  \* refused, or never asked
  /\ UNCHANGED <<now, offset, login, sealed, jar, spoiled>>

(* The identity is returned.                                               *)
SignIn(c) == code' = [code EXCEPT ![c].signIns = IF @ = 0 THEN 1 ELSE 2]

(* GET /user, then GET /user/emails.  Neither changes anything; either may *)
(* fail, and the primary address may turn out unverified.                  *)
ReadIdentity(p) ==
  /\ call[p].pc = "identity"
  /\ End(p, call[p].browser)
  /\ SignIn(call[p].code) \/ UNCHANGED code
  /\ UNCHANGED <<now, offset, login, sealed, jar, spoiled>>

(* The product answers the callback and clears the cookie.                 *)
Answer(p) ==
  /\ call[p].pc = "answer"
  /\ SetCookie(call[p].browser, None)
  /\ Step(p, Idle)
  /\ UNCHANGED <<now, offset, login, sealed, code>>

-----------------------------------------------------------------------------
(* The handler is killed, or its answer lost.                              *)
Lose(p) ==
  /\ call[p].pc # "idle"
  /\ Step(p, Idle)
  /\ UNCHANGED <<now, offset, login, sealed, jar, code, spoiled>>

(* The product is redeployed with another state key.                       *)
RotateKey ==
  /\ sealed' = {}
  /\ UNCHANGED <<now, offset, login, jar, code, call, spoiled>>

Tick ==
  /\ now < MaxTime /\ now' = now + 1
  /\ UNCHANGED <<offset, login, sealed, jar, code, call, spoiled>>

Next ==
  \/ \E p \in Proc :
       \/ \E b \in Browser : Begin(p, b) \/ Declined(p, b)
       \/ \E b \in Browser, a \in Attempt, c \in Code : Callback(p, b, a, c)
       \/ Redirect(p) \/ exchange(p) \/ ReadIdentity(p) \/ Answer(p) \/ Lose(p)
  \/ \E a \in Attempt : Approve(a)
  \/ \E b \in Browser : CookieExpires(b)
  \/ RotateKey
  \/ Tick

Spec == Init /\ [][Next]_vars

-----------------------------------------------------------------------------
(* Properties.                                                             *)

TypeOK ==
  /\ now \in 0..MaxTime
  /\ offset \in [Proc -> 0..MaxOffset]
  /\ DOMAIN login \subseteq Attempt /\ \A a \in DOMAIN login : login[a] \in LoginState
  /\ sealed \subseteq DOMAIN login
  /\ jar \in [Browser -> DOMAIN login \cup {None}]
  /\ DOMAIN code \subseteq Code /\ \A c \in DOMAIN code : code[c] \in Approval
  /\ call \in [Proc -> Frame]
  /\ spoiled \subseteq DOMAIN login

(* By how much any two servers' clocks differ.                             *)
Drift == CHOOSE d \in 0..MaxOffset :
           /\ \A p, q \in Proc : offset[p] <= offset[q] + d
           /\ \E p, q \in Proc : offset[p] = offset[q] + d

(* Open succeeds, in this step of p, only in the browser that began the    *)
(* attempt whose state the callback echoes, and in the state's lifetime.   *)
OpensItsOwn(p) ==
  LET f == call'[p] IN
  call[p].pc = "idle" /\ f.pc = "exchange"
    => \A a \in Attempt :
         Callback(p, f.browser, a, f.code)
           => login[a].browser = f.browser /\ now < login[a].at + TTL + Drift

(* "A cross-site request forgery ... ends here": a callback gets as far as *)
(* the provider only in the browser that began the attempt whose state it  *)
(* echoes, and only within the state's lifetime, however the servers'      *)
(* clocks differ.                                                          *)
ForgeriesEndAtOpen == [][\A p \in Proc : OpensItsOwn(p)]_vars

(* Open refuses, in this step of p, a browser that returns with its own    *)
(* attempt only for a reason.                                              *)
RefusesForAReason(p) ==
  LET b == call'[p].browser IN
  call[p].pc = "idle" /\ call'[p].pc = "answer"
    => \A a \in Attempt, c \in Code :
         Callback(p, b, a, c) /\ login[a].browser = b
           => \/ a \in spoiled
              \/ a \notin sealed
              \/ now + Drift >= login[a].at + TTL
              \/ Drift > Leeway

(* An honest return is not taken for a forgery: it is refused only if      *)
(* another tab or an earlier callback has replaced the cookie, the key was *)
(* rotated ("only fails sign-ins in flight"), it is late, or the servers'  *)
(* clocks differ by more than the minute Open allows.                      *)
HonestReturnsOpen == [][\A p \in Proc : RefusesForAReason(p)]_vars

(* An access token is had only for an approval of the attempt that the     *)
(* handler's browser began; and though a login state opens any number of   *)
(* times, an approval signs in once.                                       *)
SignedInByApproval ==
  /\ \A p \in Proc :
       call[p].pc = "identity"
         => /\ login[call[p].login].browser = call[p].browser
            /\ code[call[p].code].challenge = call[p].login
  /\ \A c \in DOMAIN code : code[c].signIns <= 1
=============================================================================
