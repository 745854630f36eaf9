------------------------------ MODULE BasicAuth ------------------------------
(***************************************************************************)
(* The basic-auth middleware (middleware/basicauth.go) in front of         *)
(* SessionService, and one browser that talks to it: requests in parallel, *)
(* responses that overtake each other or never arrive, logouts.            *)
(*                                                                         *)
(* The service is the module Sessions, which this one extends: a step of a *)
(* handler that calls it is a step of Sessions by the same goroutine.  The *)
(* clock of Sessions is the clock of the middleware and of the browser.    *)
(***************************************************************************)
EXTENDS Sessions, Integers

CONSTANTS
  Second,       \* units of the clock in a second
  MaxRequests   \* bound on requests the browser sends

ASSUME MiddlewareAssumption ==
  /\ Second \in Nat \ {0}
  /\ MaxRequests \in Nat

VARIABLES
  jar,         \* the browser's session cookie
  request,     \* the request each goroutine works on, up to its answer's arrival
  sent,        \* requests sent so far
  \* History, read by the properties only:
  orphaned     \* tokens the browser lost for a reason that is no mistake

allVars == <<vars, jar, request, sent, orphaned>>

(* A cookie as the browser keeps it: until is when it drops it.            *)
Cookie == [token : Token \cup {None}, until : Nat]

NoCookie == [token |-> None, until |-> 0]

Request == [pc     : {"idle", "sent", "validate", "handshake", "issue", "setCookie", "answered"},
            op     : {"none", "Middleware", "Logout"},
            cookie : Token \cup {None},           \* the cookie it carries
            user   : User \cup {None},            \* whose right credentials it carries
            fresh  : Token \cup {None},           \* the session it established
            answer : {"none", "served", "401", "500", "cleared"},
            maxAge : Nat,                         \* of the session cookie set, in seconds
            hurt   : BOOLEAN]                     \* history: a repository call failed it

NoRequest == [pc |-> "idle", op |-> "none", cookie |-> None, user |-> None, fresh |-> None,
              answer |-> "none", maxAge |-> 0, hurt |-> FALSE]

MiddlewareInit ==
  /\ Init
  /\ jar = NoCookie
  /\ request = [p \in Proc |-> NoRequest]
  /\ sent = 0
  /\ orphaned = {}

-----------------------------------------------------------------------------
(* Variants of the definitions below with a plausible mistake.             *)

NotBounded(a, b) == a

MissIsFinal(p) == [request[p] EXCEPT !.pc = "answered", !.answer = "401"]

(* Revoke of the validated session's token, which is not the cookie's.     *)
ClearOnly(p) == UNCHANGED vars

-----------------------------------------------------------------------------
(* The browser.                                                            *)

(* The cookie it sends.                                                    *)
held == IF now < jar.until THEN jar.token ELSE None

(* It sends a request at any time, with or without credentials (wrong ones *)
(* make no difference to none).  The cookie is that of this moment.        *)
Send(p, op, u) ==
  /\ request[p].pc = "idle" /\ call[p].pc = "idle"
  /\ sent < MaxRequests /\ sent' = sent + 1
  /\ request' = [request EXCEPT ![p] =
       [NoRequest EXCEPT !.pc = IF op = "Middleware" /\ held = None THEN "handshake" ELSE "sent",
                    !.op = op, !.cookie = held, !.user = u]]
  /\ UNCHANGED <<vars, jar, orphaned>>

(* A cookie that an answer of p replaces is no loss to wonder about if p   *)
(* was sent without it, or a failing repository was in play.               *)
Replaced(p) == IF request[p].cookie # jar.token \/ request[p].hurt THEN {jar.token} \ {None} ELSE {}

(* The answer arrives, before or after those to other requests.            *)
Deliver(p) ==
  LET r == request[p] IN
  /\ r.pc = "answered"
  /\ \/ /\ r.answer = "served" /\ r.fresh # None
        /\ jar' = [token |-> r.fresh, until |-> now + r.maxAge * Second]
        /\ orphaned' = orphaned \cup Replaced(p)
     \/ r.answer = "cleared" /\ jar' = NoCookie /\ orphaned' = orphaned \cup Replaced(p)
     \/ r.answer # "cleared" /\ r.fresh = None /\ UNCHANGED <<jar, orphaned>>
  /\ request' = [request EXCEPT ![p] = NoRequest]
  /\ UNCHANGED <<vars, sent>>

-----------------------------------------------------------------------------
(* Middleware.                                                             *)

Become(p, r) == request' = [request EXCEPT ![p] = r] /\ UNCHANGED <<jar, sent>>

Proceed(p, pc) == Become(p, [request[p] EXCEPT !.pc = pc])

Hurt(p, pc) == Become(p, [request[p] EXCEPT !.pc = pc, !.hurt = TRUE])

AnswerWith(p, a) == Become(p, [request[p] EXCEPT !.pc = "answered", !.answer = a])

(* A repository call fails before it has an effect.                        *)
RepositoryFails ==
  /\ Failed
  /\ UNCHANGED <<kind, now, call, handed, retired, revoked, killed, broken>>

(* Where a request goes whose cookie names no valid session.               *)
Missed(p) == [request[p] EXCEPT !.pc = "handshake"]

(* sessionFromCookie up to FindByToken; every error of it is a miss.       *)
FindSession(p) ==
  LET t == request[p].cookie IN
  /\ request[p].pc = "sent" /\ request[p].op = "Middleware"
  /\ \/ FindByToken(p, "Validate", t) /\ Proceed(p, "validate")
     \/ t \notin stored /\ Become(p, Missed(p)) /\ UNCHANGED vars
     \/ RepositoryFails /\ Hurt(p, "handshake")
  /\ UNCHANGED orphaned

(* A valid session cookie rides through: next runs, no cookie is set.      *)
RideThrough(p) ==
  /\ request[p].pc = "validate"
  /\ ~Expired(call[p].arg) /\ CheckExpiry(p)
  /\ AnswerWith(p, "served")
  /\ UNCHANGED orphaned

SessionExpired(p) ==
  /\ request[p].pc = "validate"
  /\ \/ /\ call[p].pc = "check" /\ Expired(call[p].arg) /\ CheckExpiry(p)
        /\ UNCHANGED <<request, jar, sent>>
     \/ Purge(p) /\ Become(p, Missed(p))
  /\ UNCHANGED orphaned

(* No credentials, or none that Authenticate accepts.                      *)
Challenge(p) ==
  /\ request[p].pc = "handshake"
  /\ \/ request[p].user = None /\ AnswerWith(p, "401") /\ UNCHANGED vars
     \/ RepositoryFails /\ Become(p, [request[p] EXCEPT !.pc = "answered", !.answer = "401", !.hurt = TRUE])
  /\ UNCHANGED orphaned

(* Authenticate accepts, and Issue builds the session.                     *)
Bootstrap(p) ==
  /\ request[p].pc = "handshake" /\ request[p].user # None
  /\ \E n \in Tenant : Issue(p, request[p].user, n)
  /\ Become(p, [request[p] EXCEPT !.pc = "issue", !.fresh = call'[p].fresh])
  /\ UNCHANGED orphaned

(* NewToken fails: here, when the bounded supply is used up.               *)
BootstrapFails(p) ==
  /\ request[p].pc = "handshake" /\ request[p].user # None
  /\ Token \subseteq drawn \/ Cardinality(Logins) >= MaxLogins
  /\ AnswerWith(p, "500")
  /\ UNCHANGED <<vars, orphaned>>

(* repo.Save of Issue.                                                     *)
SaveSession(p) ==
  LET t == request[p].fresh IN
  /\ request[p].pc = "issue"
  /\ Save(p)
  /\ IF t \in handed'
     THEN Proceed(p, "setCookie") /\ UNCHANGED orphaned
     ELSE /\ Become(p, [request[p] EXCEPT !.pc = "answered", !.answer = "500", !.fresh = None])
          /\ orphaned' = orphaned \cup {t}

(* What is left of the session, in seconds: Go's conversion drops the      *)
(* fraction.                                                               *)
Seconds(t) == (sess[t].expiresAt - now) \div Second

MoreOf(a, b) == IF a < b THEN b ELSE a

(* setCookie reads the clock again; then next runs.                        *)
SetCookie(p) ==
  /\ request[p].pc = "setCookie"
  /\ Become(p, [request[p] EXCEPT !.pc = "answered", !.answer = "served",
                                  !.maxAge = MoreOf(Seconds(request[p].fresh), 1)])
  /\ UNCHANGED <<vars, orphaned>>

-----------------------------------------------------------------------------
(* Logout, and the ends of requests and sessions that nobody asked for.    *)

(* Revoke is asked to delete the session of the cookie.                    *)
RevokeCookie(p) == Revoke(p, request[p].cookie) \/ RepositoryFails

(* Its error is dropped; the cookie is cleared all the same.               *)
Logout(p) ==
  /\ request[p].pc = "sent" /\ request[p].op = "Logout"
  /\ IF request[p].cookie = None THEN UNCHANGED vars ELSE RevokeCookie(p)
  /\ Become(p, [request[p] EXCEPT !.pc = "answered", !.answer = "cleared",
                                  !.hurt = faults' # faults])
  /\ UNCHANGED orphaned

(* The user logs out everywhere from another device.                       *)
RevokeAllElsewhere(p, u) ==
  /\ request[p].pc = "idle"
  /\ DeleteByUser(p, u)
  /\ UNCHANGED <<jar, request, sent, orphaned>>

(* The handler panics, the process is killed, or the connection breaks     *)
(* before the answer has arrived.                                          *)
RequestLost(p) ==
  /\ request[p].pc # "idle"
  /\ Fault /\ Return(p)
  /\ UNCHANGED <<kind, now, sess, stored, ever, handed, retired, revoked, killed, broken>>
  /\ Become(p, NoRequest)
  /\ orphaned' = orphaned \cup ({request[p].fresh} \ {None})

ClockTick == Tick /\ UNCHANGED <<jar, request, sent, orphaned>>

MiddlewareNext ==
  \/ \E p \in Proc :
       \/ \E op \in {"Middleware", "Logout"}, u \in User \cup {None} : Send(p, op, u)
       \/ FindSession(p) \/ RideThrough(p) \/ SessionExpired(p)
       \/ Challenge(p) \/ Bootstrap(p) \/ BootstrapFails(p) \/ SaveSession(p) \/ SetCookie(p)
       \/ Logout(p) \/ Deliver(p) \/ RequestLost(p)
       \/ \E u \in User : RevokeAllElsewhere(p, u)
  \/ ClockTick

MiddlewareSpec == MiddlewareInit /\ [][MiddlewareNext]_allVars

-----------------------------------------------------------------------------
(* Properties.                                                             *)

MiddlewareTypeOK ==
  /\ TypeOK
  /\ jar \in Cookie
  /\ request \in [Proc -> Request]
  /\ sent \in 0..MaxRequests
  /\ orphaned \subseteq Token

live == {t \in stored : ~Expired(t)}

(* "Expiring it in lockstep with the session" and "revokes ... and clears  *)
(* in one step": a session that authenticates is in the browser's cookie   *)
(* or on its way there.  None lives on unseen but for a parallel request   *)
(* whose cookie came later, a failure, or the last fraction of a second    *)
(* that Max-Age cannot express.                                            *)
NoSilentOrphan ==
  \A t \in live :
    \/ t = held
    \/ \E p \in Proc : request[p].fresh = t
    \/ t \in orphaned
    \/ sess[t].expiresAt - now < Second

(* "Any miss falls back to the basic-auth handshake and re-bootstraps":    *)
(* whatever has become of the session meanwhile, nobody is challenged who  *)
(* sent right credentials, or whose cookie names a live session.           *)
NoFalseChallenge ==
  [][\A p \in Proc :
       request[p].answer = "none" /\ request'[p].answer = "401" /\ ~request'[p].hurt
         => request[p].user = None /\ request[p].cookie \notin live]_allVars
=============================================================================
