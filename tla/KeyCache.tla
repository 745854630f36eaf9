------------------------------ MODULE KeyCache ------------------------------
(***************************************************************************)
(* The key-set cache of the OIDC verifier (oidc/jwks.go): concurrent calls *)
(* of Verify look up the key a token names, share one fetch of the         *)
(* issuer's key set, and go on serving the last good set for a while if    *)
(* fetches fail.  Every critical section of keyCache.mu is one step; a     *)
(* fetch runs in a goroutine of its own between two of them.  The issuer   *)
(* publishes and withdraws keys meanwhile.                                 *)
(*                                                                         *)
(* A JWK names its key pair; whether its numbers make a sound key of their *)
(* type (rsaKey, ecKey) is a field of it.  A key type and its curve are one*)
(* name.  The instant 0 is Go's zero time.                                 *)
(***************************************************************************)
EXTENDS Naturals, FiniteSets, SequencesExt

CONSTANTS
  Proc,                \* callers of Verify
  Kid,                 \* key ids that tokens name
  KeySets,             \* names of the documents the issuer may publish
  Document,            \* the sequence of JWKs that each of them is
  Headers,             \* its Cache-Control headers: sequences of directives
  FetchTimeout,        \* fetchTimeout
  MinRefreshInterval,
  MinKeySetTTL, DefaultKeySetTTL, MaxKeySetTTL,
  MaxStale,            \* keyCache.maxStale
  MaxTime,             \* bound on the clock
  MaxChanges,          \* bound on changes of the issuer's key set
  None                 \* the absence of a key set, of a kid

(* The code's 15s, 30s, 5min, 1h, 24h, and New's check of MaxStale.        *)
ASSUME ConstantsAssumption ==
  /\ FetchTimeout \in Nat \ {0} /\ MinRefreshInterval \in Nat
  /\ FetchTimeout < MinRefreshInterval
  /\ {MinKeySetTTL, DefaultKeySetTTL, MaxKeySetTTL, MaxStale} \subseteq Nat
  /\ MinRefreshInterval < MinKeySetTTL /\ MinKeySetTTL < MaxStale
  /\ MinKeySetTTL <= DefaultKeySetTTL /\ DefaultKeySetTTL <= MaxKeySetTTL
  /\ MaxTime \in Nat /\ MaxChanges \in Nat
  /\ \A h \in Headers : h \in Seq([name : STRING, secs : Nat])

VARIABLES
  now,           \* keyCache.now
  published,     \* the issuer's key set
  discovered,    \* keyCache.jwksURI is known
  keys,          \* keyCache.keys, None for nil
  fetchedAt, expiresAt, lastAttempt,
  failed,        \* keyCache.lastErr is not nil
  inflight,      \* the fetch that is to close keyCache.inflight; 0 for nil
  fetch,         \* the fetch goroutines that run, numbered from 1
  call,          \* the call of Verify each caller is in
  \* History, read by the properties only:
  fetches,       \* how many fetches were started
  changedAt,     \* when the keys of a kid were last published or withdrawn
  changes        \* changes of the key set so far

cache == <<discovered, keys, fetchedAt, expiresAt, failed>>
flight == <<inflight, lastAttempt, fetch, fetches>>
issuer == <<published, changedAt, changes>>
vars == <<now, issuer, cache, flight, call>>

(* The names of the package's algorithms, with the key type of each.       *)
supportedAlgorithms ==
  [RS256 |-> "RSA", RS384 |-> "RSA", RS512 |-> "RSA", PS256 |-> "RSA", PS384 |-> "RSA", PS512 |-> "RSA",
   ES256 |-> "P-256", ES384 |-> "P-384", ES512 |-> "P-521"]

Frame == [pc     : {"idle", "wait", "answered"},
          kid    : Kid \cup {None},
          found  : KeySets \cup {None}, \* the set whose keys of the kid lookup returned
          done   : Nat,                  \* the fetch waited for
          began  : Nat,                  \* history: when a waiting call began
          answer : {"none", "keys", "unknown", "unavailable"}]

Idle == [pc |-> "idle", kid |-> None, found |-> None, done |-> 0, began |-> 0, answer |-> "none"]

Fetch == [pc      : {"discover", "get", "finish"},
          started : Nat,
          uri     : BOOLEAN,             \* discovery succeeded, now or earlier
          got     : KeySets \cup {None}]   \* the response; None for an error

running == DOMAIN fetch

Init ==
  /\ now = 1
  /\ published \in KeySets
  /\ discovered = FALSE /\ keys = None /\ failed = FALSE
  /\ fetchedAt = 0 /\ expiresAt = 0 /\ lastAttempt = 0
  /\ inflight = 0 /\ fetches = 0
  /\ fetch = [f \in {} |-> f]
  /\ call = [p \in Proc |-> Idle]
  /\ changedAt = [k \in Kid |-> 0]
  /\ changes = 0

-----------------------------------------------------------------------------
(* Key sets.                                                               *)

(* A key that may verify signatures; other keys of a set are skipped.      *)
toKey(rk) ==
  /\ rk.kid # None
  /\ rk.use \in {"absent", "sig"} /\ rk.key_ops \in {"absent", "verify"}
  /\ rk.type \in {"RSA", "P-256", "P-384", "P-521"} /\ rk.sound
  /\ rk.alg # "absent"
       => rk.alg \in DOMAIN supportedAlgorithms /\ supportedAlgorithms[rk.alg] = rk.type

parseJWKS == [s \in KeySets |-> SelectSeq(Document[s], toKey)]

(* OfKid[s][kid] is keyCache.keys[kid], the set of keys being s.           *)
OfKid ==
  [s \in KeySets |-> [kid \in Kid |-> SelectSeq(parseJWKS[s], LAMBDA k : k.kid = kid)]]

-----------------------------------------------------------------------------
(* Variants of the definitions below with a plausible mistake.             *)

EverFetched == keys # None

RetryAtOnceAfterError == failed \/ lastAttempt = 0 \/ now - lastAttempt >= MinRefreshInterval

ClosedIfSucceeded(f) == IF fetch[f].got # None THEN 0 ELSE f

TrustsTheSetItHas(fetched, isUsable) == inflight = 0 /\ (fetched \/ isUsable)

KeepOldTimes(f, ttl) ==
  /\ keys' = fetch[f].got
  /\ UNCHANGED <<fetchedAt, expiresAt>>
  /\ failed' = failed

-----------------------------------------------------------------------------
(* lookup.                                                                 *)

usable == keys # None /\ now < fetchedAt + MaxStale

mayFetch == lastAttempt = 0 \/ now - lastAttempt >= MinRefreshInterval

GivesUp(fetched, isUsable) == inflight = 0 /\ (fetched \/ ~mayFetch)

Answer(p, kid, a, found) ==
  call' = [call EXCEPT ![p] = [Idle EXCEPT !.pc = "answered", !.kid = kid, !.answer = a, !.found = found]]

Began(p) == IF call[p].pc = "wait" THEN call[p].began ELSE now

Wait(p, kid, f) ==
  call' = [call EXCEPT ![p] = [Idle EXCEPT !.pc = "wait", !.kid = kid, !.done = f, !.began = Began(p)]]

(* startFetchLocked up to the start of its goroutine.                      *)
StartFetch(f) ==
  /\ inflight' = f
  /\ lastAttempt' = now
  /\ fetch' = [g \in running \cup {f} |->
                 IF g = f THEN [pc |-> IF discovered THEN "get" ELSE "discover",
                                started |-> now, uri |-> discovered, got |-> None]
                          ELSE fetch[g]]
  /\ fetches' = f

(* One turn of lookup's loop, up to the unlock.                            *)
Turn(p, kid, fetched) ==
  LET found == usable /\ OfKid[keys][kid] # <<>>
      fresh == usable /\ now < expiresAt
      hit   == found /\ (fresh \/ fetched)
  IN
  /\ \/ hit /\ Answer(p, kid, "keys", keys) /\ UNCHANGED flight
     \/ /\ ~hit /\ GivesUp(fetched, usable)
        /\ \/ found /\ Answer(p, kid, "keys", keys)
           \/ ~found /\ Answer(p, kid, IF usable THEN "unknown" ELSE "unavailable", None)
        /\ UNCHANGED flight
     \/ ~hit /\ inflight # 0 /\ Wait(p, kid, inflight) /\ UNCHANGED flight
     \/ /\ ~hit /\ inflight = 0 /\ ~GivesUp(fetched, usable)
        /\ StartFetch(fetches + 1) /\ Wait(p, kid, fetches + 1)
  /\ UNCHANGED <<now, issuer, cache>>

Verify(p, kid) ==
  /\ call[p].pc = "idle"
  /\ Turn(p, kid, FALSE)

(* The fetch waited for has closed its channel.                            *)
Resume(p) ==
  /\ call[p].pc = "wait"
  /\ call[p].done \notin running
  /\ Turn(p, call[p].kid, TRUE)

(* ctx.Done() of the caller; the shared fetch runs on.                     *)
Cancel(p) ==
  /\ call[p].pc = "wait"
  /\ Answer(p, call[p].kid, "unavailable", None)
  /\ UNCHANGED <<now, issuer, cache, flight>>

(* The rest of Verify, over the keys lookup returned.                      *)
Return(p) ==
  /\ call[p].pc = "answered"
  /\ call' = [call EXCEPT ![p] = Idle]
  /\ UNCHANGED <<now, issuer, cache, flight>>

-----------------------------------------------------------------------------
(* The goroutine of startFetchLocked.                                      *)

Advance(f, fr) ==
  /\ fetch' = [fetch EXCEPT ![f] = fr]
  /\ UNCHANGED <<now, issuer, cache, inflight, lastAttempt, fetches, call>>

Discover(f) ==
  /\ fetch[f].pc = "discover"
  /\ Advance(f, [fetch[f] EXCEPT !.pc = "get", !.uri = TRUE])

(* The issuer answers with its keys of this moment; a set with no usable   *)
(* key is an error.                                                        *)
GetKeys(f) ==
  /\ fetch[f].pc = "get"
  /\ parseJWKS[published] # <<>>
  /\ Advance(f, [fetch[f] EXCEPT !.pc = "finish", !.got = published])

(* discover or fetchKeys return an error: the issuer cannot be reached, its*)
(* documents are not acceptable, or fctx ends before all of them is read.  *)
Fails(f) == Advance(f, [fetch[f] EXCEPT !.pc = "finish", !.got = None])

Least(a, b) == IF a < b THEN a ELSE b

(* How long a set is fresh: the last max-age counts, within bounds, and    *)
(* "no-store" or "no-cache" means the minimum.                             *)
cacheTTL(header) ==
  LET ages == {i \in DOMAIN header : header[i].name = "max-age"}
      age  == IF ages = {} THEN DefaultKeySetTTL ELSE Least(header[Max(ages)].secs, MaxKeySetTTL)
  IN  IF (\E d \in Range(header) : d.name = "no-store") \/ age < MinKeySetTTL THEN MinKeySetTTL ELSE age

(* The second critical section.                                            *)
Store(f, ttl) ==
  /\ keys' = fetch[f].got
  /\ fetchedAt' = now
  /\ expiresAt' = now + Least(ttl, MaxStale)
  /\ failed' = FALSE

Cleared(f) == 0

Finish(f, ttl) ==
  /\ fetch[f].pc = "finish"
  /\ discovered' = (discovered \/ fetch[f].uri)
  /\ IF fetch[f].got # None
     THEN Store(f, ttl)
     ELSE failed' = TRUE /\ UNCHANGED <<keys, fetchedAt, expiresAt>>
  /\ inflight' = Cleared(f)
  /\ fetch' = [g \in running \ {f} |-> fetch[g]]
  /\ UNCHANGED <<now, issuer, lastAttempt, fetches, call>>

-----------------------------------------------------------------------------
(* The issuer and time.                                                    *)

Publish ==
  /\ changes < MaxChanges
  /\ \E S \in KeySets \ {published} :
       /\ published' = S
       /\ changedAt' = [k \in Kid |-> IF OfKid[S][k] = OfKid[published][k] THEN changedAt[k] ELSE now]
  /\ changes' = changes + 1
  /\ UNCHANGED <<now, cache, flight, call>>

(* A fetch is over when its context is.                                    *)
Tick ==
  /\ now < MaxTime
  /\ \A f \in running : now < fetch[f].started + FetchTimeout
  /\ now' = now + 1
  /\ UNCHANGED <<issuer, cache, flight, call>>

FetchStep(f) ==
  /\ f \in running
  /\ Discover(f) \/ GetKeys(f) \/ Fails(f) \/ \E ttl \in {cacheTTL(h) : h \in Headers} : Finish(f, ttl)

Next ==
  \/ \E p \in Proc :
       \/ \E kid \in Kid : Verify(p, kid)
       \/ Resume(p) \/ Cancel(p) \/ Return(p)
  \/ \E f \in running : FetchStep(f)
  \/ Publish
  \/ Tick

(* Runnable goroutines run: a fetch ends by its timeout, and a caller      *)
(* whose channel was closed gets the mutex.  Nobody has to call Verify,    *)
(* to cancel, or to publish.                                               *)
Fairness ==
  /\ \A p \in Proc : WF_vars(Resume(p) \/ Return(p))
  /\ WF_vars(\E f \in running : FetchStep(f))

Spec == Init /\ [][Next]_vars /\ Fairness

-----------------------------------------------------------------------------
(* Properties.                                                             *)

TypeOK ==
  /\ now \in Nat
  /\ published \in KeySets
  /\ discovered \in BOOLEAN /\ failed \in BOOLEAN
  /\ keys \in {s \in KeySets : parseJWKS[s] # <<>>} \cup {None}
  /\ keys # None => fetchedAt < expiresAt /\ expiresAt <= fetchedAt + MaxStale
  /\ inflight \in running \cup {0}
  /\ \A f \in running : fetch[f] \in Fetch
  /\ call \in [Proc -> Frame]

(* "Fetches are single-flight": no caller, cancelled or not, sets off a    *)
(* second fetch while one runs.                                            *)
SingleFlight == Cardinality(running) <= 1

(* "At most once per 30 s, so random kids cannot hammer the issuer": all   *)
(* callers together, with fetches that succeed or fail.                    *)
FetchBudget == fetches > 0 => (fetches - 1) * MinRefreshInterval <= now - 1

FetchPolicy == SingleFlight /\ FetchBudget

(* lookup answers caller p in this step.                                   *)
Answers(p, a) == call[p].pc # "answered" /\ call'[p].pc = "answered" /\ call'[p].answer = a

(* In this step, p is given no key that was withdrawn long ago.            *)
TrustsInTime(p) ==
  Answers(p, "keys") =>
    LET k == call'[p].kid IN
    \/ Range(OfKid[call'[p].found][k]) \subseteq Range(OfKid[published][k])
    \/ now < changedAt[k] + MaxStale + FetchTimeout

(* "An attacker who keeps the JWKS endpoint unreachable cannot keep a      *)
(* revoked key trusted indefinitely": a key the issuer withdrew is trusted *)
(* for at most MaxStale and the duration of the fetch that last brought    *)
(* it.                                                                     *)
UntrustedInTime == [][\A p \in Proc : TrustsInTime(p)]_vars

(* In this step, p is told that its kid is unknown only for a reason.      *)
MissesForAReason(p) ==
  Answers(p, "unknown") =>
    LET k == call'[p].kid IN
    failed \/ OfKid[published][k] = <<>> \/ Began(p) < changedAt[k] + MinRefreshInterval

(* "An unknown kid refetches - key rotation": a token whose key had been   *)
(* published for MinRefreshInterval when Verify was called is refused with *)
(* ErrUnknownKey only if the last fetch failed.                            *)
NewKeyFound == [][\A p \in Proc : MissesForAReason(p)]_vars

(* Every call of Verify comes back, whatever becomes of the fetches it     *)
(* waits for, without its own context ending.  Callers are alike, so it is *)
(* said of one of them.                                                    *)
VerifyReturns ==
  LET p == CHOOSE q \in Proc : TRUE IN call[p].pc = "wait" ~> call[p].pc = "idle"
=============================================================================
