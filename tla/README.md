# A verification of auth-go in TLA+

TLA+ modules that model the stateful parts of auth-go, TLC configurations that
check them on small instances, and proofs, checked by TLAPS, of what holds for
every instance. The modules are translated from the Go source; every definition
that stands for code is listed with its lines in `PROJECT.json` ("map").

    tlc -config sessions.cfg MCSessions      # any run: its cfg and MC module
    tlapm SessionsProofs.tla                 # the proofs of one component

## 1. The system

auth-go is a library. An application's goroutines (request handlers) call
*services*; a service holds no state of its own but its configuration and a
clock, and keeps everything in a *repository*, of which the library brings three
implementations: `adapters/memory` (a map behind a mutex), `adapters/sqlite`
(one write transaction at a time) and `adapters/pgstore` (READ COMMITTED transactions). An
application may bring a fourth, without the optional "atomic" interfaces, and the
services then fall back to sequences of simple calls. So the hard behaviour is
always of one kind: a call of a service is several repository calls and clock
readings, and other calls come in between; a repository call may fail, take
effect and report an error, or be the last one of a process. The one component
with state and goroutines of its own is the key-set cache of the OIDC verifier. Two
components keep their state at the client: the session cookie of the basic-auth
middleware and the sealed login state of the OAuth login.

| component | state | operations | interacts with | hard behaviour | what makes it correct |
|---|---|---|---|---|---|
| `SessionService` (domain/services.go) | the session table | Issue, Validate, Rotate, Revoke, RevokeAll | SessionRepository, Clock | rotations racing each other and logouts, half-done fallback, lost commits, expiry | a replaced or revoked token is dead for good; one session per login; logout-everywhere is final; nobody is logged out by an accident |
| `MagicLinkService` (domain/services.go) | the link table | Issue, Peek, Consume | MagicLinkRepository, Clock | two redemptions or two issues at once, failure between invalidating and saving | single use; only the newest link works; no link lost to a failure; expiry |
| `WorkloadKeyService` (domain/services.go, workload.go) | the API-key table | IssueKey, ValidateKey, Authorize, ListKeys, RotateKey, RevokeKey, RevokeAllKeys | WorkloadKeyRepository, Clock | rotation racing rotation and kill-switch, the fallback's overlap and rollback, scopes kept as text | one heir per key; spent keys stay dead; no gap, no doubling; authorized for what was granted, and no longer |
| `LockoutService` (domain/lockout.go) | one row per account: failure count, lock end | Guard/IsLocked, RecordFailure, Clear | LoginAttemptStore, Clock | attempts in flight while the lock engages, lost increments, stale writes, text comparison of times | the lock engages at the threshold, lasts exactly its window, is announced once, bounds the guesses, and cannot be extended |
| `TOTPService` (domain/totp.go) | secret and last consumed step per user | Enroll, SetSecret, DeleteSecret, Verify | TOTPRepository, Clock | two logins with one code, removal and re-enrolment during a login, colliding codes | a code does not log in again in its window; a step is burnt only by a login |
| OIDC key-set cache (oidc/jwks.go) | key set, its times, the fetch in flight | lookup (from Verify), fetch | the issuer over HTTP, Clock | shared fetch, rate limit, staleness, cancellation, wake-up | single flight, fetch budget, withdrawn keys expire, new keys are found, every caller returns |
| OIDC token verification (oidc/verifier.go, jws.go) | none | Verify | the cache, Clock | several keys of one kid, documents that parsers read differently, fractional times, a clock read after a wait | accepts only what an issuer's key signed for this service, in its time; accepts all of that |
| passkeys (adapters/webauthn) | credentials with sign counts; signed ceremony state held by the client | Begin/FinishRegistration, Begin/FinishLogin | PasskeyRepository, go-webauthn | counter written from a stale read, state replayed | a clone is noticed; a deleted credential does not log in |
| users (UserRepository) | the user table | GetUser, UpsertUser | - | none: single statements | an upsert by id, a lookup within the tenant |
| basic-auth bootstrap (middleware/basicauth.go) | the browser's cookie | Middleware, Logout, ClearCookie | SessionService, the browser, Clock | parallel requests, answers out of order or lost, a failing logout, expiry in a request | cookie and session live and die together; nobody who can sign in is challenged |
| OAuth login (oauth/) | sealed login state held by the browser | NewLoginState, Seal, Open, AuthCodeURL, CallbackError, Complete | the provider over HTTP, Clock | tabs, links from elsewhere, replays, lost answers, servers whose clocks differ, key rotation | only the browser that began an attempt completes it, once per approval; honest returns get through |
| passwords, ciphers, values (domain/, aesgcm/, oidc/github.go) | none | hashing, sealing, parsing | - | none: pure functions | their unit tests |
| schemas, connections, examples | - | - | - | - | - |

## 2. The modules

| module | models |
|---|---|
| `CredentialLedger` | abstract: which bearer tokens authenticate and the only ways this set may change - Admit, Swap, Fork, Drop. No calls, no adapters, no failures |
| `Sessions` | SessionService over a session table; implements `CredentialLedger` |
| `WorkloadKeys` | WorkloadKeyService over a key table; implements `CredentialLedger` |
| `MagicLinks` | MagicLinkService over a link table |
| `Lockout` | LockoutService over an attempt table, with the callers' protocol Guard, verify, RecordFailure or Clear |
| `TOTP` | TOTPService over secrets and consumed steps |
| `Passkeys` | the passkey ceremonies over a credential table, with authenticators and a copy of one |
| `KeyCache` | the key-set cache, its fetch goroutines, the reading of key sets and Cache-Control, the callers of Verify, and the issuer |
| `TokenVerification` | extends `KeyCache`: what Verify does with a token once it has keys, and an independent statement of which tokens deserve trust |
| `BasicAuth` | the middleware and one browser, which extends `Sessions`: a handler's service calls are steps of `Sessions` |
| `OAuthLogin` | sign-in through a provider: browsers, handlers on servers with their own clocks, the provider's record of codes |
| `...Proofs` | the theorems about `Sessions` (with `BasicAuth`), `WorkloadKeys`, `MagicLinks`, `Lockout`, `TOTP`, `Passkeys`, `KeyCache` and `OAuthLogin`, one module each (section 4) |
| `MC...` | one for each module: symmetry sets and constant values that a cfg cannot write |

### How the modules correspond to the code

All modules are built alike.

* **A call is a frame.** `call[p]` is what goroutine `p` has on its stack: `pc`,
  the next step of the call it is in, the arguments and the local variables that
  are still needed. One action is one repository call, one critical section or
  one reading of the clock, with the code up to the next of these; in between any
  other goroutine may run. A call's first action is its first such step: only
  checks of its arguments come before it.
* **A table is a set of keys and a function of rows.** In `Sessions`, `stored`
  are the keys in the table and `sess` the immutable columns of every token ever
  drawn. Tokens are model values, and a token stands for its hash too:
  `NewToken` never returns one twice (32 random bytes), hashing is injective.
* **A repository call ends in one of three ways**: `Done`; `Failed`, with an error
  and no effect (cancelled context, refused connection, rolled-back transaction);
  `Lost`, with its effect and an error all the same (the commit happened, its
  acknowledgement did not arrive). `Crash` ends a call between two steps. All
  but `Done` draw on the bound `MaxFaults`.
* **`kind` (or `atomic`) is the repository** chosen at the start:
  `"serial"` for memory and SQLite, whose calls exclude each other;
  `"readCommitted"` for pgstore, where a statement over many rows sees the rows
  there were when it began and is therefore two steps; `"plain"` for a repository
  without the optional interface, on which the service takes its fallback. One
  run covers all kinds, since `Init` chooses.
* **History variables** (each module says which) record what callers were told.
  No guard and no assignment of another variable reads them.

Module by module, with what is abstracted:

* `Sessions`. `FindByToken`, `CheckExpiry`, `Purge` are Validate, which Rotate
  begins with; `RotateDraws` is newSession; then `RotateAtomically`, or the
  fallback `Save`, `DeleteOld`, `Rollback`. `DeleteByUser` is RevokeAll where it is
  one step, `SelectByUser`/`DeleteSelected` where it is not. `root`, the login a
  session descends from, is history. Not modelled: the constructor that restores a
  session from columns, as such.
* `MagicLinks`. `NewLink` reads the clock and draws the token, `IssueAtomically` or
  `IssueSelects`/`IssueCommits` or `InvalidateOutstanding`/`Save` store it;
  `FindByHash`, `CheckLink`, `MarkConsumed` are Consume, the first two Peek. An
  address stands for the pair of email and tenant.
* `WorkloadKeys`. `NewScope`/`IssueKey`, `GetKey`/`RotateIssues`/`RotateAtomically` or
  `CreateKey`/`DeleteOld`/`Rollback`, `RevokeKey`, and
  `ListKeys`/`DeleteNext` for RevokeAllKeys, which deletes in the order of its list;
  every order is possible. `calm` and `ended` (history) follow the lineages that it listed and that no
  rotation met. `GetKeyByHash`/`Authorize` are ValidateKey and Authorize. A scope
  entry is a pair of segments, a segment a sequence of words: what a column of text makes of it is
  `ReadBack`, which is the identity only on what `NewScope` lets through.
* `Lockout`. `GuardGet`/`GuardCheck`, `Verify` (external: the caller's credential
  check, right or wrong), `ReadClock`/`RecordFailureAtomically` or
  `Get`/`Decide`/`Save`, `Clear`. One unit of time is half a second, so that the
  texts of instants with and without a fraction both occur; `TextRank` is the order
  of those texts.
* `TOTP`. `GetSecret`, `validateStep`, `ConsumeStep` are Verify; the clock counts
  periods; `hotp` is a constant operator, so codes may recur and neighbouring steps share one. The
  frame's `at`, the reading of the clock, is history.
* `Passkeys`. `BeginRegistration`, `BeginLogin` draw a challenge and seal its state; `Create`, `Get`,
  `Clone`, `GetByClone` (external) are authenticators; `FinishRegistration` and the caller's
  `Add` end a registration; `FinishLogin` (up to loadUser), `ValidateLogin`, `UpdateSignCount` are
  FinishLogin. `CloneWarning` is go-webauthn's rule (external). One user: the state is
  signed, so users cannot be mixed up. The application is assumed to use a state once, as the
  package demands; one that does not can log in again with a counter-less authenticator's
  answer and bring a removed credential back while its registration lasts.
* `KeyCache`. `Turn` is one turn of lookup's loop under the mutex, taken by
  `Verify` (the first) and `Resume` (after the wait); `Cancel` is the end of the
  caller's context; `Discover`, `GetKeys`, `Fails`, `Finish` are the fetch
  goroutine; `Publish` (external) is the issuer's rotation. A key set is a sequence of JWK
  records; `toKey`, `parseJWKS` drop the unusable ones, `cacheTTL` reads the header. A JWK names its
  key pair, and whether its numbers make a sound key is a field.
* `TokenVerification`. `Accepts` is what Verify does after lookup: `parseCompact`, `walkValue` for
  the strict JSON, `headerString`, `stringClaim`, `audienceClaim`, `numericDate`, the first usable key,
  `verifySignature`, `validate`. A JSON document is a function from paths to values, in which a name
  may occur twice and an array hold anything; so the walks of jws.go, which recurse over the text, are
  quantifiers over paths. A signature is the key pair and scheme that made it; dates count parts of
  a clock unit, `Scale` to the unit. That KeyCache's `Return` answers the caller with this judgement, at the
  clock of that step, is how the two fit together.
* `BasicAuth`. `FindSession`, `RideThrough`, `SessionExpired` are sessionFromCookie;
  `Challenge`, `Bootstrap`, `BootstrapFails`, `SaveSession`, `SetCookie` the rest of Middleware;
  `Logout`. `Send` and `Deliver` are the browser (external): it attaches its cookie when it
  sends, and keeps the cookie of the answer that comes last. Credentials are right or none, as
  wrong ones make no difference to none; Authenticate may fail.
* `OAuthLogin`. `Begin` mints and seals, `Redirect` is its arrival, `Callback` is Open,
  `Declined` CallbackError, `exchange` and `ReadIdentity` Complete, `Answer` the clearing of the
  cookie as the repository's README shows it; `Approve`, `Accepts` (external) the provider.
  Sealing is membership in `sealed`, and PKCE the identity of attempts. A cookie is replaced by
  that of a later attempt of the same browser.

## 3. The runs

| run | question | distinct states |
|---|---|---|
| `sessions` | Do replaced and revoked tokens stay dead, logins stay single, users stay logged in, and is every step a ledger step? 2 goroutines, 2 users, 2 tenants, 3 tokens, 2 logins, 1 expiry, 1 fault | 719 000 |
| `magiclinks` | Single use, newest only, none lost? 2 goroutines, 3 links, 2 addresses, 2 faults | 1 117 000 |
| `keys` | One key from one key, dead stays dead, no gap, authorized as granted, the kill-switch final where nothing rotates? 2 goroutines, 2 workers, 4 keys, scopes with wildcards and with a separator, 1 fault | 555 000 |
| `lockout` | Does the lock engage, hold, tell once, bound the guesses, end? 3 attempts at once, threshold 2, 1 fault, exact and Get/Save store | 1 355 000 |
| `keycache` | Single flight and budget, staleness, freshness, sound tokens only, and does every call return? 2 callers, 2 key sets (4 keys of one kid), 34 tokens, 1 rotation | 344 000 |
| `totp` | One login per code while its step is in the window, and steps burnt by logins only, whatever is re-enrolled? 2 goroutines, 2 secrets, codes that recur and codes shared by neighbouring steps, 1 fault | 3 375 000 |
| `passkeys` | Does a removed passkey stay out, do counts ascend, is the owner never taken for a copy? 2 goroutines, 1 credential and a copy, 3 login ceremonies, 3 answers, counts up to 2, 1 fault | 226 000 |
| `basicauth` | Is every live session in the cookie, or known to be lost? Is nobody challenged in error? 1 browser, 2 requests at once, 3 in all, 2 tokens, 1 fault | 938 000 |
| `oauth` | Do forgeries end at Open, honest returns pass, approvals sign in once? 2 handlers, 2 browsers, 2 attempts, 2 codes, clocks that differ by up to the leeway | 829 000 |
| `sessions_logout`, `keys_killswitch`, `lockout_text` | counterexamples: see section 6 | - |

**Why the bounds are enough.** Every hazard in `PROJECT.json` that has properties is a conflict
of two calls (three for the lockout: one engages the lock, one lifts or tells, one
is in flight), at one instant or around one expiry, with at most one thing going
wrong. So there are two goroutines, as many tokens as a login and two
rotations need (one key more for a second worker), clocks that reach the end of every lifetime, and one fault (two for
links, where a failed issue and a lost answer combine). The `MaxTime`, `MaxLogins`,
`MaxIssues`, `MaxExpiry`, `MaxFaults`, `MaxChanges`, `MaxCount`, `MaxAnswers`, `MaxRequests` bounds
are guards of the actions they name and appear in no property but `GuessesBounded`, which counts
faults; `MaxOffset` bounds the difference of clocks in `OAuthLogin`, whose faults are unbounded. In `Lockout`
the window is one second, so a lock spans an instant with and one without a
fraction; in `BasicAuth` a second is two units, so that Max-Age loses a fraction; in `KeyCache` one unit
is 15 s and the spans keep the order of the code's
constants (fetch timeout < refresh interval < shortest TTL < staleness bound; one TTL is longer than
that). The tokens of `keycache` differ from an issuer's proper token in one respect each: a key, an
algorithm, a claim, a date just before and just after its limit, a member twice, one level too deep.
Deadlock is checked in every run: no cfg switches it off.

**Symmetry.** Goroutines, tokens, users, browsers, attempts and codes are only compared, so the MC modules permute
them; not in `keycache`, which checks liveness, and not the secrets of `totp`, whose
codes differ.

**Fairness** is assumed in `KeyCache` only: weak fairness of the fetch goroutine's
steps, since each of its requests runs under a context with a timeout and must
return, and of `Resume` and `Return` of each caller, since a goroutine whose channel
was closed is runnable and a Go mutex does not starve. Nobody has to call, to
cancel or to rotate keys. The other modules have no liveness properties: their
calls are straight-line code.

**Properties that deserve a word.**

* `NeverStranded`, `NeverAGap`, `NoLinkLost` are the other half of safety: not only must
  old credentials die, the service must not destroy the newest one. They excuse
  exactly what cannot be helped: a revocation, an expiry, an answer that was lost.
  `NoFalseChallenge` and `HonestReturnsOpen` are of the same kind for requests and sign-ins.
* `LedgerSpec` is refinement. The mapping takes the table to `live` and every row ever
  stored to `credential`; `overlap` is the fallback. It says in one formula that no
  step of any call changes a row, revives a token, lets a rotation change user,
  scope or expiry, or deletes rows of two users at once.
* `AuthorizedAsGranted` compares the code's matching of stored text with `Meaning`, which
  spells a granted scope out word for word, and with the expiry first asked for, after every chain of
  rotations. It fails if `NewScope` lets a separator through.
* `NothingReturns` is `SpentStaysDead` and `KillSwitchUnraced`. The second says how far the kill-switch
  reaches (section 6): a lineage that RevokeAllKeys listed and that no rotation met, from the list to
  the last delete, has ended. A rotation meets a lineage as soon as it has read a key of it, even if it
  then fails. It does not need an `AtomicRotator`.
* `TokensVerified` compares `Accepts` with `Trustworthy`, which does not read a document
  the way the code does: it looks at all members of a name and at unrounded times. Two tolerances
  are stated in it: iat and nbf count to the unit, not its parts, because the code truncates them
  (never in favour of a late token); and an issuer whose kid names two keys that may verify one
  algorithm is only understood through the first (`Faultless`), so a token of the second is refused.
* `NoSilentOrphan` has the ways a session is lost to its browser as its exceptions: a parallel
  request whose cookie came later, a failing Revoke or Save, an answer that never arrived, and the
  last fraction of a second that Max-Age drops. It says there is no other.
* `ForgeriesEndAtOpen` and `HonestReturnsOpen` bound Open from both sides in true time,
  with the difference of the servers' clocks (`Drift`) in both. The leeway of a minute is
  what makes the second hold: without it a redirect and a callback on two servers could be refused.
* `SignedInByApproval` rests on PKCE and the provider's single use of codes: an opened login state
  may be used again and with any code, and is stopped at the exchange.
* `UntrustedInTime` allows the duration of a fetch beyond `maxStale`: the code stamps a key
  set with the time it was received, and the issuer may have withdrawn a key while
  the response was on its way.
* `NewKeyFound` excepts keys younger than `MinRefreshInterval`: the rate limit makes
  unknown keys unknown for that long.
* `GuessesBounded` is what Guard really gives: attempts that passed Guard before the lock
  engaged still count, so with n callers up to n - 1 guesses more than the threshold.
* `CountsAdvance` speaks of credentials with which no two logins were ever under way at once. The
  exception is needed: `UpdateSignCount` stores whatever count its call had validated, so of two
  overlapping logins the later write may put the count back.
* `AcceptedOnce` is the promise of `domain/totp.go:75-78` and `:87-88`: no reuse of a code within its window.
  It counts codes, not steps: a second login with the same code is a replay also if Verify took
  it for another step, as long as the step of the first is in the window the second looked at. This is where taking the
  earliest match matters; with the latest it fails in the run. When that step has left the window, a neighbouring
  step of the same code may let it in again, which is more than the comment at `:111-112` admits
  (`CodeUsedOnce`, section 6). There is an exception for `adapters/memory`, reachable in the run: a Verify that
  had read the secret before DeleteSecret finds no consumed steps after it.

## 4. The proofs

Ten modules are proved about, each in a `...Proofs` module that extends it (`BasicAuth` shares that of `Sessions`,
`TokenVerification` that of `KeyCache`). A theorem holds
for every value of the constants that the module's assumption admits: any number of
goroutines, users, tokens, any lifetimes, any number of faults, every kind of repository.
A property of the runs that a theorem states is proved under its own definition.

| module | theorem | states |
|---|---|---|
| `SessionsProofs` | `TypeCorrect` | `Spec => []TypeOK` |
| | `RetiredTokensAreDead` | `Spec => []RetiredStaysDead` |
| | `RotationNeverForks` | `Spec => []OneSessionPerLogin` |
| | `RevokeAllIsFinal` | `Spec => []LogoutEverywhereSerial` |
| | `NobodyIsStranded` | `Spec => []NeverStranded` |
| | `SessionsImplementLedger` | `Spec => LedgerSpec` |
| its last part | `MiddlewareTypeCorrect` | `MiddlewareSpec => []MiddlewareTypeOK` |
| | `NoSessionIsOrphaned` | `MiddlewareSpec => []NoSilentOrphan` |
| | `ChallengesAreDue` | `MiddlewareSpec => NoFalseChallenge` |
| | `MiddlewareKeepsSessions` | `MiddlewareSpec => []` of the four invariants of `Sessions` above |
| | `MiddlewareImplementsLedger` | `MiddlewareSpec => LedgerSpec` |
| `WorkloadKeysProofs` | `TypeCorrect` | `Spec => []TypeOK` |
| | `KeysRotateToOne` | `Spec => []RotatesToOne` |
| | `SpentKeysAreDead` | `Spec => []SpentStaysDead` |
| | `RotationLeavesNoGap` | `Spec => []NeverAGap` |
| | `KeysAuthorizeWhatWasGranted` | `Spec => []AuthorizedAsGranted` |
| | `KillSwitchEndsCalmLineages` | `Spec => []KillSwitchUnraced` |
| | `WhatEndedStaysEnded` | `Spec => []NothingReturns`, the two together |
| | `KeysImplementLedger` | `Spec => LedgerSpec` |
| `MagicLinksProofs` | `TypeCorrect` | `Spec => []TypeOK` |
| | `LinksWorkOnce` | `Spec => []RedeemedOnce` |
| | `OneLiveLink` | `Spec => []OnlyNewestRedeemableSerial` |
| | `NoLinkIsLost` | `Spec => []NoLinkLost` |
| `LockoutProofs` | `TypeCorrect` | `Spec => []TypeOK` |
| | `LocksLastTheirWindow` | `Spec => []LockLastsItsWindow` |
| | `LocksEngageOnce` | `Spec => []LocksOnceAtThreshold` |
| | `GuessesAreBounded` | `Spec => []GuessesBounded` |
| `TOTPProofs` | `TypeCorrect` | `Spec => []TypeOK` |
| | `CodesLogInOnce` | `Spec => []AcceptedOnce` |
| | `OnlyLoginsBurn` | `Spec => []BurntByALogin` |
| `PasskeysProofs` | `TypeCorrect` | `Spec => []TypeOK` |
| | `DeletedIsGone` | `Spec => []DeletedStaysOut` |
| | `LoginsAscend` | `Spec => CountsAdvance` |
| | `AlarmsAreGenuine` | `Spec => NoFalseAlarm` |
| `KeyCacheProofs` | `TypeCorrect` | `Spec => []TypeOK` |
| | `FetchesAreFew` | `Spec => []FetchPolicy` |
| | `WithdrawnKeysFade` | `Spec => UntrustedInTime` |
| | `NewKeysAreFound` | `Spec => NewKeyFound` |
| its last part | `TokensAreVerified` | `Spec => []TokensVerified` |
| `OAuthLoginProofs` | `TypeCorrect` | `Spec => []TypeOK` |
| | `ApprovalsSignInOnce` | `Spec => []SignedInByApproval` |
| | `ForgeriesEnd` | `Spec => ForgeriesEndAtOpen` |
| | `HonestReturns` | `Spec => HonestReturnsOpen` |

### Assumptions

Each proof uses only the named assumption of the module it is about (`ConstantsAssumption`,
`MiddlewareAssumption`, `OAuthAssumption`, `ConfigAssumption` with `TokensAssumption`), which TLC evaluates on every run. All say that bounds and lifetimes are
naturals and that `None` is no token, user or the like. Beyond that:

* `WorkloadKeys`: a `Request` is a set of pairs of nonempty segments, and no word is the wildcard.
* `Lockout`: there are finitely many goroutines, since `GuessesBounded` counts them; the policy's
  threshold and window are positive, as its constructor demands.
* `KeyCache`: the order of the timeouts is that of the code's constants (a fetch is shorter than
  `minRefreshInterval`, that shorter than `minKeySetTTL`, that shorter than `maxStale`), and a Cache-Control header
  is a sequence of directives.
* `TokenVerification`: the configuration passes the checks of New (`ConfigAssumption`: supported
  algorithms, an issuer, audiences that are not empty), and header and payload of each token are what encoding/json can read
  (`TokensAssumption`): finite trees whose inner nodes are objects and arrays. Nothing is assumed of their
  size, depth, names, types or numbers.
* `Passkeys`: no challenge is both for a registration and for a login.
* `BasicAuth`: a second has at least one unit of the clock.

### The arguments

Almost no property is inductive: a frame that is about to write can break each of them. So every
inductive invariant says what a frame *knows*, at every point between two steps, and what
no other step can take from it meanwhile. TLC has checked each of them on the instance of the
module's run before. A lemma for each action shows that it keeps the invariant (where many
actions leave the table alone, one lemma does for all of them); `InvNext`, or `TypeNext` and `SafeNext`,
put the cases of `Next` together, and the theorems follow by PTL. A theorem about an action property
is shown for a step from a state that satisfies the invariant.

* `Sessions`, `WorkloadKeys`. `TypeInv` adds to `TypeOK` that a credential under construction was
  drawn, is not stored yet (`FrameOK`), and is under construction in one frame only (`FreshApart`):
  a token enters the table once, so what is retired stays dead. `LineageOK` (`LineageFrame`) says what a frame about to insert
  continues: a new lineage that no stored row belongs to, or that of the token presented, and which steps
  are possible over which repository; a swap then replaces the one row of a lineage by another. `KilledOK` says
  that a lineage RevokeAll ended exists already, so a later login cannot be in it. For keys, `OneHeir` and
  `NeverTwoKeys` do the work of `OneSessionPerLogin`, and `ColumnsOK` carries the scope and expiry first
  asked for along a lineage. `ReadBackKeeps` shows that the column of text gives
  back every scope that `NewScope` lets through, and `AllowsMeaning` what its matching decides.
* *No one is stranded.* For `Sessions`, `PendingOK`: what the fallback of Rotate is about to delete (a row
  inserted and handed to nobody) belongs to one frame, and the row it is about to delete in favour of another has that other in the table.
  For `WorkloadKeys` this is not enough: rotations of a key and of its replacement may overlap, and
  each then deletes its old key. `Aged` says that there is a function giving every key its generation, the
  rotations between it and IssueKey. A frame about to delete an old key whose replacement
  is gone already knows of a key of a later generation in the table that no frame may roll back
  (`AgeFrame`), and that key is not the one it deletes. The function is a bound variable of the
  invariant, not a variable of the model.
* *The kill-switch.* `KillInv` says of each calm lineage that every key of it in the table is on the list still
  to be deleted, and that no rotation holds a key of it (`Still`); for an ended one the list is empty. A key is
  stored only as the first of its lineage or by a rotation (`KillStores`), and a rotation begins with a
  key in the table, so what has ended has no way back (`KillMeets`). Most steps leave the loops alone (`KillElsewhere`).
* *Refinement.* `LedgerNext` has a case for each action, and three lemmas for what a case can be
  (`LedgerSame`, `LedgerDrop`, `LedgerEnter`): Issue's and Rotate's inserts are Admit, Fork
  or Swap, deletes are Drop, everything else a stutter under the mapping. `RowsOK` says that the rows a DELETE of pgstore has seen are all the user's.
* `BasicAuth`. `MiddlewareCalls`: a step of the middleware is a step of
  `Sessions`, or leaves the service alone, or is a `Loss`, which `Sessions` does not have (a repository call that fails
  before it begins a call, a request lost while it reads). A `Loss` keeps the service's invariant (`LossKeeps`),
  so all that `Sessions` guarantees holds behind the middleware. On top of that, `RequestOK` says
  that whoever is about to replace the browser's cookie, and met no fault, carries that
  cookie no more or has found it dead, and dead it stays (`Onward`: no session comes back). `JarOK` relates the
  cookie's end to its session's, by `SecondsBound`. `Accounted` says where each row's session is.
* `MagicLinks`. A link in a frame that is about to insert is not stored and in no other such frame
  (`PendingApart`); `RedeemedOK` ties the count of redemptions to the consumed column, and `ReasonsOK`
  says of every consumed link why it is.
* `Lockout`. `CountOK` ties the number of recorded failures to the row, and the lock to the threshold; `ToldOK`
  ties what callers were told to both. For `GuessesBounded`, `Threat(a)` are the attempts whose
  failure would still be counted although the account is locked: those that have passed Guard, or will
  pass it with the row they read. `GuessOK` says that the recorded failures and these attempts together do not exceed the
  bound, which each step keeps, because a failure that is recorded leaves the set, and nothing but a
  failing Guard joins it.
* `TOTP`. `Recorded`: every accepted step lies at or before the step recorded for its user, as long
  as the secret is the same (over memory) or in any case (over SQL). `FirstOf`: the step that a call is about to
  consume is the first of its window with its code. A fresh step is past the recorded one, so an accepted step with
  the same code is before it, and by `FirstOf` not in the window.
* `Passkeys`. `MadeOnce` and `AddedOnce`: an authenticator makes a credential once, its registration is
  used up when it is under way, so it is added once and a removed one does not come back. `LoginsOK`: of a
  credential whose logins never overlapped, the table, the row a login has read and the answer it
  has validated are in order with the highest count accepted. `GenuineOK`: without a copy counts identify
  answers, and the table holds one that was used, so an unused newest answer is ahead of it.
* `KeyCache`. `FlightOK`, `KeysOK`: what a fetch has got, and what is cached, has been the issuer's since the fetch
  started (`SameSince`); `BudgetOK` counts fetches by the time of the last; `WaitersOK`: who waits
  began before the fetch can have ended. Lemmas: the bounds of `cacheTTL`, for every header.
* `TokenVerification`. No invariant is needed, only that the clock and the cached sets have their types: the
  argument is about documents. `CheckMeans` turns the strict walk into the statement that no
  object names a member twice (by counting, `NamesCounted`) and none is too deep; from then on the member
  the code reads is the only one of its name (`OneMember`, `OnlyMember`), and what it reads is what is said
  (`StringAsSaid`, `AudienceAsSaid`, `DateAsSaid`). `BeforeInParts` and `PastInParts` relate a truncated date to its
  parts. `AcceptedIsTrustworthy` and `FaultlessIsAccepted` are the two directions; the second needs in
  addition that a well-typed document is read without an error (`WellTypedIsRead`, `PlainHeaderIsRead`).
* `OAuthLogin`. `IssuedOK`: a login state was minted by some server's clock not later than now;
  `OwnersOK`: a cookie, and a frame past Open, is that of the browser that began the attempt; `CodesOK`: a code is spent
  before an access token is had, and by one frame. `OpenMeaning` and `RefusalMeaning` turn the clocks of
  two servers into true time.

### Only model-checked

* `VerifyReturns`: liveness under fairness is out of this prover's reach, as is ENABLED.
* The properties of the violation runs, which do not hold.

## 5. Not modelled

* `ListKeys` for display and UserRepository's GetUser: they read one row or list
  and change nothing. UserRepository's other operation is an upsert by id (UpsertUser), and no service is built over it.
* Password hashing, encryption, the parsing of values: sequential and pure, over bytes. A model checker
  adds little to their tests.
* Cryptography: a signature, a seal and a hash are relations that hold or do not. Base64, the
  length limits of a token and the arithmetic of key numbers are fields of the inputs
  (`canonical`, `sound`).
* The URL policy of the verifier's New and the issuer check of the discovery document: they
  decide whether a fetch fails, and a fetch may fail in any case.
* Token generation and hashing: assumed never to repeat, and injective.
* SQL engines: assumed to give the isolation their documentation states; every
  transaction of `adapters/sqlite` begins with a write, so it holds SQLite's one write lock from its
  start and its calls are serial. pgstore's calls are modelled per statement where it matters.
* Schemas, the opening of databases, the example programs.

## 6. Findings

The three violation runs are disagreements of code and documentation met while modelling;
each is quoted under "findings" in `PROJECT.json`.

* `sessions_logout`: over PostgreSQL, RevokeAll misses a session that a concurrent rotation
  inserts. Over memory and SQLite it does not (`RevokeAllIsFinal`).
* `keys_killswitch`: RevokeAllKeys misses the heir of a key rotated between its list and its
  deletes, over every store. Every other lineage of the worker does end (`KillSwitchEndsCalmLineages`).
* `lockout_text`: SQLite compares RFC 3339 texts whose trailing zeros are trimmed: a lock that ends half
  a second past a full second is found expired at the full second.

Without a run of their own. TLC finds the first three when their formula is the INVARIANT of the cfg of their
component's run:

* `TOTP!CodeUsedOnce` fails (`totp.cfg`): `domain/totp.go:111-112` says "On success the matched step is consumed so the same code
  cannot be used again". If two neighbouring steps have one code (about one pair in a million, with six digits),
  Verify consumes the first, and accepts the code once more, as the second, when the first has left the window
  (`domain/totp.go:191-199`). In the model, with a skew of 1 and one code for the steps 2 and 3: at time 2 the code
  logs in as step 2, at time 3 it is refused, at time 4 it logs in as step 3. Within the window it is refused
  always, as `:75-78` and `:87-88` promise: this is `AcceptedOnce`.
* `MagicLinks!OnlyNewestRedeemable` fails over PostgreSQL (`magiclinks.cfg`): two concurrent Issue calls leave two live
  links, as neither UPDATE sees the other's INSERT (`domain/services.go:173-175` promises one).
  `OnlyNewestRedeemableSerial` is what holds.
* `Lockout!LockHolds` fails over a Get/Save store (`lockout.cfg`): a RecordFailure that read the row before the lock
  engaged saves it afterwards and erases the lock; the comment at `domain/lockout.go:165-168` concedes a delayed
  threshold only.
* `ErrKeySetUnavailable` is documented (`oidc/errors.go:31-33`) for when "no
  previously fetched key set is cached", but it is returned as well when the cached set is beyond
  its staleness bound or the caller's context ends (`oidc/jwks.go:338`, `:354-366`).
* `ErrState` is documented (`oauth/oauth.go:43-46`) as where "a replayed callback ends". Open is
  stateless: as long as the cookie is there a replayed callback opens, and ends at the provider as
  ErrExchange. It does not sign in again (`SignedInByApproval`).

## 7. Plan

Done, in this order, the most important first: `CredentialLedger`, `Sessions`, `SessionsProofs`,
`MagicLinks`, `WorkloadKeys`, `Lockout`, `KeyCache`, `TOTP`, `Passkeys`, `BasicAuth` over `Sessions`,
`OAuthLogin`, `TokenVerification`, scopes in `WorkloadKeys`; then the proofs of section 4.

Every safety property of the passing runs is proved; what is left is outside of the prover's reach
(`VerifyReturns`) or of the models (section 5). The next things to keep up with the code: a repository
for UserRepository once a service is built over it, a policy of `Lockout` that changes over live
rows, and `KillSwitch` itself in place of `KillSwitchUnraced` when RevokeAllKeys becomes one statement of the store.
