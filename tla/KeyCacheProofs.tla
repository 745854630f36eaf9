--------------------------- MODULE KeyCacheProofs ---------------------------
(***************************************************************************)
(* What KeyCache guarantees for every number of callers, every key set and *)
(* header, and every choice of the timeouts that ConstantsAssumption       *)
(* allows, whatever fetches fail and whenever the issuer rotates; and what *)
(* TokenVerification does, for every configuration New accepts and every   *)
(* JSON document.                                                          *)
(***************************************************************************)
EXTENDS TokenVerification, FiniteSetTheorems, WellFoundedInduction, TLAPS

-----------------------------------------------------------------------------
(* Lemmas about the operators of the model.                                *)

LEMMA LeastNatural ==
  ASSUME NEW T, T \subseteq Nat, T # {}
  PROVE  \E x \in T : \A y \in T : x <= y
<1>1. PICK x \in T : \A y \in T : ~(<<y, x>> \in OpToRel(<, Nat))
  BY WFMin, NatLessThanWellFounded
<1>2. \A y \in T : ~(y < x)
  BY <1>1 DEF OpToRel
<1> QED
  BY <1>2

LEMMA MaxOfBounded ==
  ASSUME NEW n \in Nat, NEW T, T \subseteq 1..n, T # {}
  PROVE  Max(T) \in T
<1> DEFINE Below == {n - i : i \in T}
<1>1. Below \subseteq Nat /\ Below # {}
  <2>1. PICK i \in T : TRUE
    OBVIOUS
  <2>2. n - i \in Below
    BY <2>1
  <2>3. \A j \in T : n - j \in Nat
    OBVIOUS
  <2> QED
    BY <2>2, <2>3
<1>2. PICK x \in Below : \A y \in Below : x <= y
  BY <1>1, LeastNatural
<1>3. PICK i \in T : x = n - i
  BY <1>2
<1>4. \A j \in T : n - i <= n - j
  BY <1>2, <1>3
<1>5. \A j \in T : i >= j
  BY <1>4
<1> QED
  BY <1>5 DEF Max

(* The bounds of a time to live.                                           *)
LEMMA TTLBounds ==
  ASSUME NEW h \in Headers
  PROVE  cacheTTL(h) \in Nat /\ MinKeySetTTL <= cacheTTL(h)
<1> DEFINE ages == {i \in DOMAIN h : h[i].name = "max-age"}
           age  == IF ages = {} THEN DefaultKeySetTTL ELSE Least(h[Max(ages)].secs, MaxKeySetTTL)
<1>1. age \in Nat
  <2>1. CASE ages = {}
    BY <2>1, ConstantsAssumption
  <2>2. CASE ages # {}
    <3>1. h \in Seq([name : STRING, secs : Nat])
      BY ConstantsAssumption
    <3>2. Len(h) \in Nat /\ ages \subseteq 1..Len(h)
      BY <3>1
    <3>3. Max(ages) \in ages
      BY <2>2, <3>2, MaxOfBounded
    <3>4. h[Max(ages)].secs \in Nat
      <4>1. Max(ages) \in 1..Len(h)
        BY <3>2, <3>3
      <4>2. \A S : h \in Seq(S) => h[Max(ages)] \in S
        BY <4>1
      <4>3. h[Max(ages)] \in [name : STRING, secs : Nat]
        BY <3>1, <4>2
      <4> QED
        BY <4>3
    <3> QED
      BY <2>2, <3>4, ConstantsAssumption DEF Least
  <2> QED
    BY <2>1, <2>2
<1>2. \/ cacheTTL(h) = MinKeySetTTL
      \/ cacheTTL(h) = age /\ ~(age < MinKeySetTTL)
  BY DEF cacheTTL
<1> QED
  BY <1>1, <1>2, ConstantsAssumption

-----------------------------------------------------------------------------
(* The inductive invariant.                                                *)

TypeInv ==
  /\ TypeOK
  /\ now # 0 /\ fetchedAt \in Nat /\ expiresAt \in Nat
  /\ lastAttempt \in 0..now /\ fetchedAt \in 0..now
  /\ fetches \in Nat /\ (fetches = 0 <=> lastAttempt = 0)
  /\ inflight \in Nat /\ running = {inflight} \ {0}
  /\ fetch \in [running -> Fetch]
  /\ changedAt \in [Kid -> Nat]
  /\ \A p \in Proc : call[p].pc = "wait" => call[p].kid \in Kid

(* What the issuer publishes for k is what the set s has of it, or it      *)
(* changed at t or later.                                                  *)
SameSince(s, k, t) == OfKid[s][k] = OfKid[published][k] \/ t <= changedAt[k]

(* The fetch that runs is the last attempt, within its time, and brings    *)
(* what the issuer published since it was started.                         *)
FlightOK ==
  inflight # 0 =>
    /\ fetch[inflight].started = lastAttempt
    /\ now <= lastAttempt + FetchTimeout
    /\ fetch[inflight].got # None =>
         /\ fetch[inflight].got \in {s \in KeySets : parseJWKS[s] # <<>>}
         /\ \A k \in Kid : SameSince(fetch[inflight].got, k, lastAttempt)

(* So do the keys kept, of the fetch that last succeeded.                  *)
KeysOK ==
  keys # None =>
    \A k \in Kid : /\ SameSince(keys, k, fetchedAt - FetchTimeout)
                   /\ inflight = 0 /\ ~failed => SameSince(keys, k, lastAttempt)

BudgetOK == fetches > 0 => (fetches - 1) * MinRefreshInterval <= lastAttempt - 1

(* A caller waits since a moment when the last fetch, or one before, ran.  *)
WaitersOK ==
  \A p \in Proc : call[p].pc = "wait" => call[p].began <= lastAttempt + FetchTimeout

Inv == TypeInv /\ FlightOK /\ KeysOK /\ BudgetOK /\ WaitersOK

LEMMA InvInit == Init => Inv
<1> SUFFICES ASSUME Init PROVE Inv
  OBVIOUS
<1>1. DOMAIN fetch = {}
  BY DEF Init
<1>2. TypeOK
  BY <1>1 DEF Init, TypeOK, running, Frame, Idle
<1>3. TypeInv
  BY <1>1, <1>2 DEF Init, TypeInv, running, Idle
<1> QED
  BY <1>3 DEF Init, Inv, FlightOK, KeysOK, BudgetOK, WaitersOK, Idle

-----------------------------------------------------------------------------
(* lookup.                                                                 *)

(* What a turn of lookup's loop leaves in the caller's frame.              *)
TurnResult(fr, kid, fetched) ==
  /\ fr \in Frame /\ fr.kid = kid
  /\ \/ fr.pc = "answered" /\ UNCHANGED flight
     \/ fr.pc = "wait" /\ inflight # 0 /\ UNCHANGED flight
     \/ fr.pc = "wait" /\ inflight = 0 /\ ~fetched /\ mayFetch /\ StartFetch(fetches + 1)
  /\ fr.pc = "answered" /\ fr.answer = "keys" => usable /\ fr.found = keys
  /\ fr.pc = "answered" /\ fr.answer = "unknown" =>
       /\ usable /\ OfKid[keys][kid] = <<>>
       /\ inflight = 0 /\ (fetched \/ ~mayFetch)

LEMMA TurnOutcome ==
  ASSUME TypeInv, NEW p \in Proc, NEW kid \in Kid, NEW fetched \in BOOLEAN, Turn(p, kid, fetched)
  PROVE  /\ UNCHANGED <<now, issuer, cache>>
         /\ \E fr \in Frame : /\ call' = [call EXCEPT ![p] = fr]
                              /\ TurnResult(fr, kid, fetched)
                              /\ fr.pc = "wait" => fr.began = Began(p)
<1> DEFINE found == usable /\ OfKid[keys][kid] # <<>>
           Ans(a, s) == [Idle EXCEPT !.pc = "answered", !.kid = kid, !.answer = a, !.found = s]
           Wai(f) == [Idle EXCEPT !.pc = "wait", !.kid = kid, !.done = f, !.began = Began(p)]
<1>1. UNCHANGED <<now, issuer, cache>>
  BY DEF Turn
<1>2. Began(p) \in Nat
  BY DEF Began, TypeInv, TypeOK, Frame
<1>3. \A a \in {"keys", "unknown", "unavailable"}, s \in KeySets \cup {None} :
        /\ Ans(a, s) \in Frame /\ Ans(a, s).pc = "answered" /\ Ans(a, s).kid = kid
        /\ Ans(a, s).answer = a /\ Ans(a, s).found = s
  BY DEF Idle, Frame
<1>4. \A f \in Nat :
        Wai(f) \in Frame /\ Wai(f).pc = "wait" /\ Wai(f).kid = kid /\ Wai(f).began = Began(p)
  BY <1>2 DEF Idle, Frame
<1>5. keys \in KeySets \cup {None} /\ inflight \in Nat /\ fetches + 1 \in Nat
  BY DEF TypeInv, TypeOK
<1>6. \/ found /\ call' = [call EXCEPT ![p] = Ans("keys", keys)] /\ UNCHANGED flight
      \/ /\ ~found /\ GivesUp(fetched, usable)
         /\ call' = [call EXCEPT ![p] = Ans(IF usable THEN "unknown" ELSE "unavailable", None)]
         /\ UNCHANGED flight
      \/ inflight # 0 /\ call' = [call EXCEPT ![p] = Wai(inflight)] /\ UNCHANGED flight
      \/ /\ inflight = 0 /\ ~GivesUp(fetched, usable)
         /\ StartFetch(fetches + 1) /\ call' = [call EXCEPT ![p] = Wai(fetches + 1)]
  BY DEF Turn, Answer, Wait
<1>7. CASE found /\ call' = [call EXCEPT ![p] = Ans("keys", keys)] /\ UNCHANGED flight
  BY <1>1, <1>3, <1>5, <1>7 DEF TurnResult
<1>8. CASE /\ ~found /\ GivesUp(fetched, usable)
           /\ call' = [call EXCEPT ![p] = Ans(IF usable THEN "unknown" ELSE "unavailable", None)]
           /\ UNCHANGED flight
  <2>1. CASE usable
    BY <1>1, <1>3, <1>8, <2>1 DEF TurnResult, GivesUp
  <2>2. CASE ~usable
    BY <1>1, <1>3, <1>8, <2>2 DEF TurnResult
  <2> QED
    BY <2>1, <2>2
<1>9. CASE inflight # 0 /\ call' = [call EXCEPT ![p] = Wai(inflight)] /\ UNCHANGED flight
  BY <1>1, <1>4, <1>5, <1>9 DEF TurnResult
<1>10. CASE /\ inflight = 0 /\ ~GivesUp(fetched, usable)
            /\ StartFetch(fetches + 1) /\ call' = [call EXCEPT ![p] = Wai(fetches + 1)]
  BY <1>1, <1>4, <1>5, <1>10 DEF TurnResult, GivesUp
<1> QED
  BY <1>6, <1>7, <1>8, <1>9, <1>10

(* The caller's frame and the flight after a turn, and nothing else.       *)
LEMMA TurnInv ==
  ASSUME Inv, NEW p \in Proc, NEW kid \in Kid, NEW fetched \in BOOLEAN, Turn(p, kid, fetched)
  PROVE  Inv'
<1>1. UNCHANGED <<now, issuer, cache>>
  BY TurnOutcome DEF Inv
<1>2. PICK fr \in Frame : /\ call' = [call EXCEPT ![p] = fr]
                          /\ TurnResult(fr, kid, fetched)
                          /\ fr.pc = "wait" => fr.began = Began(p)
  BY TurnOutcome DEF Inv
<1>3. /\ call' \in [Proc -> Frame] /\ call'[p] = fr
      /\ \A q \in Proc \ {p} : call'[q] = call[q]
  <2>1. call' = [call EXCEPT ![p] = fr]
    BY <1>2
  <2> QED
    BY <2>1 DEF Inv, TypeInv, TypeOK
<1>4. \A q \in Proc : call'[q].pc = "wait" => call'[q].kid \in Kid
  <2>1. fr.kid \in Kid
    BY <1>2 DEF TurnResult
  <2> QED
    BY <1>3, <2>1 DEF Inv, TypeInv
<1>5. fr.pc = "wait" => fr.began = IF call[p].pc = "wait" THEN call[p].began ELSE now
  BY <1>2 DEF Began
<1>6. CASE UNCHANGED flight
  <2>1. TypeInv'
    BY <1>1, <1>3, <1>4, <1>6 DEF issuer, cache, flight, running, Inv, TypeInv, TypeOK
  <2>2. FlightOK' /\ KeysOK' /\ BudgetOK'
    BY <1>1, <1>6 DEF issuer, cache, flight, Inv, FlightOK, KeysOK, BudgetOK, SameSince
  <2>3. fr.pc = "wait" => fr.began <= lastAttempt + FetchTimeout
    <3>1. CASE call[p].pc = "wait"
      BY <1>5, <3>1 DEF Inv, WaitersOK
    <3>2. CASE call[p].pc # "wait" /\ fr.pc = "wait"
      <4>1. UNCHANGED flight => inflight # 0 \/ StartFetch(fetches + 1)
        BY <1>2, <3>2 DEF TurnResult
      <4>2. ~StartFetch(fetches + 1)
        BY <1>6 DEF StartFetch, flight, Inv, TypeInv
      <4>3. inflight # 0
        BY <1>6, <4>1, <4>2
      <4> QED
        BY <1>5, <3>2, <4>3, <1>6 DEF Inv, FlightOK
    <3> QED
      BY <3>1, <3>2
  <2>4. WaitersOK'
    BY <1>3, <1>6, <2>3 DEF flight, Inv, WaitersOK
  <2> QED
    BY <2>1, <2>2, <2>4 DEF Inv
<1>7. CASE inflight = 0 /\ ~fetched /\ mayFetch /\ StartFetch(fetches + 1)
  <2> DEFINE n == fetches + 1
             new == [pc |-> IF discovered THEN "get" ELSE "discover",
                     started |-> now, uri |-> discovered, got |-> None]
  <2>1. /\ now \in Nat /\ now # 0 /\ n \in Nat /\ n # 0
        /\ running = {} /\ inflight' = n /\ lastAttempt' = now /\ fetches' = n
    BY <1>7 DEF Inv, TypeInv, TypeOK, StartFetch
  <2>2. /\ DOMAIN fetch' = {n} /\ fetch'[n] = new /\ new \in Fetch /\ fetch' \in [{n} -> Fetch]
    <3>1. new \in Fetch
      BY <2>1 DEF Fetch, Inv, TypeInv, TypeOK
    <3>2. fetch' = [g \in {n} |-> new]
      BY <1>7, <2>1 DEF StartFetch
    <3> QED
      BY <3>1, <3>2
  <2>3. TypeInv'
    BY <1>1, <1>3, <1>4, <2>1, <2>2 DEF issuer, cache, running, Inv, TypeInv, TypeOK
  <2>4. FlightOK'
    BY <1>1, <2>1, <2>2, ConstantsAssumption DEF FlightOK
  <2>5. KeysOK'
    BY <1>1, <2>1 DEF issuer, cache, Inv, KeysOK, SameSince
  <2>6. BudgetOK'
    <3>1. CASE fetches = 0
      BY <2>1, <3>1, ConstantsAssumption DEF BudgetOK
    <3>2. CASE fetches # 0
      <4>1. /\ fetches \in Nat /\ lastAttempt \in Nat /\ lastAttempt <= now
            /\ now - lastAttempt >= MinRefreshInterval
            /\ (fetches - 1) * MinRefreshInterval <= lastAttempt - 1
        BY <1>7, <3>2 DEF mayFetch, Inv, TypeInv, BudgetOK
      <4>2. fetches * MinRefreshInterval = (fetches - 1) * MinRefreshInterval + MinRefreshInterval
        BY <4>1, ConstantsAssumption
      <4>3. (fetches - 1) * MinRefreshInterval \in Int
        BY <4>1, ConstantsAssumption
      <4>4. (n - 1) * MinRefreshInterval <= now - 1
        BY <2>1, <4>1, <4>2, <4>3, ConstantsAssumption
      <4> QED
        BY <2>1, <4>4 DEF BudgetOK
    <3> QED
      BY <3>1, <3>2
  <2>7. WaitersOK'
    <3>1. \A q \in Proc : call[q].pc = "wait" => call[q].began \in Nat /\ call[q].began <= lastAttempt + FetchTimeout
      BY DEF Inv, TypeInv, TypeOK, Frame, WaitersOK
    <3>2. lastAttempt \in Nat /\ lastAttempt <= now /\ FetchTimeout \in Nat
      BY ConstantsAssumption DEF Inv, TypeInv
    <3>3. fr.pc = "wait" => fr.began <= now + FetchTimeout
      BY <1>5, <2>1, <3>1, <3>2
    <3> QED
      BY <1>3, <2>1, <3>1, <3>2, <3>3 DEF WaitersOK
  <2> QED
    BY <2>3, <2>4, <2>5, <2>6, <2>7 DEF Inv
<1> QED
  BY <1>2, <1>6, <1>7 DEF TurnResult

(* A caller returns, or its context ends.                                  *)
LEMMA LeaveInv == ASSUME Inv, NEW p \in Proc, Cancel(p) \/ Return(p) PROVE Inv'
<1>1. UNCHANGED <<now, issuer, cache, flight>>
  BY DEF Cancel, Return
<1>2. PICK fr \in Frame : fr.pc # "wait" /\ call' = [call EXCEPT ![p] = fr]
  BY DEF Cancel, Return, Answer, Idle, Frame, Inv, TypeInv, TypeOK
<1>3. call' \in [Proc -> Frame] /\ \A q \in Proc : call'[q] = call[q] \/ call'[q].pc # "wait"
  BY <1>2 DEF Inv, TypeInv, TypeOK
<1>4. TypeInv'
  BY <1>1, <1>3 DEF issuer, cache, flight, running, Inv, TypeInv, TypeOK
<1>5. FlightOK' /\ KeysOK' /\ BudgetOK'
  BY <1>1 DEF issuer, cache, flight, Inv, FlightOK, KeysOK, BudgetOK, SameSince
<1>6. WaitersOK'
  BY <1>1, <1>3 DEF flight, Inv, WaitersOK
<1> QED
  BY <1>4, <1>5, <1>6 DEF Inv

-----------------------------------------------------------------------------
(* The goroutine of a fetch.                                               *)

LEMMA AdvanceInv ==
  ASSUME Inv, NEW f \in running, NEW fr \in Fetch, Advance(f, fr),
         fr.started = fetch[f].started,
         \/ fr.got = fetch[f].got \/ fr.got = None
         \/ fr.got = published /\ parseJWKS[published] # <<>>
  PROVE  Inv'
<1>1. /\ UNCHANGED <<now, issuer, cache, inflight, lastAttempt, fetches, call>>
      /\ fetch' = [fetch EXCEPT ![f] = fr]
  BY DEF Advance
<1>2. f = inflight /\ inflight # 0
  BY DEF Inv, TypeInv
<1>3. DOMAIN fetch' = running /\ fetch' \in [running -> Fetch] /\ fetch'[f] = fr
  BY <1>1 DEF Inv, TypeInv
<1>4. TypeInv'
  BY <1>1, <1>3 DEF issuer, cache, running, Inv, TypeInv, TypeOK
<1>5. FlightOK'
  BY <1>1, <1>2, <1>3 DEF issuer, Inv, TypeInv, TypeOK, FlightOK, SameSince
<1>6. KeysOK' /\ BudgetOK' /\ WaitersOK'
  BY <1>1 DEF issuer, cache, Inv, KeysOK, BudgetOK, WaitersOK, SameSince
<1> QED
  BY <1>4, <1>5, <1>6 DEF Inv

LEMMA FinishInv == ASSUME Inv, NEW f \in running, NEW h \in Headers, Finish(f, cacheTTL(h)) PROVE Inv'
<1>1. PICK ttl \in Nat : ttl = cacheTTL(h) /\ MinKeySetTTL <= ttl
  BY TTLBounds
<1>2. /\ UNCHANGED <<now, issuer, lastAttempt, fetches, call>>
      /\ fetch' = [g \in running \ {f} |-> fetch[g]] /\ inflight' = 0
      /\ discovered' = (discovered \/ fetch[f].uri)
      /\ \/ fetch[f].got # None /\ Store(f, ttl)
         \/ fetch[f].got = None /\ failed' = TRUE /\ UNCHANGED <<keys, fetchedAt, expiresAt>>
  BY <1>1 DEF Finish, Cleared
<1>3. f = inflight /\ running \ {f} = {} /\ inflight # 0
  BY DEF Inv, TypeInv
<1>4. DOMAIN fetch' = {} /\ fetch' \in [{} -> Fetch]
  BY <1>2, <1>3
<1>5. /\ fetch[f].uri \in BOOLEAN /\ fetch[f].started = lastAttempt /\ now <= lastAttempt + FetchTimeout
      /\ fetch[f].got # None =>
           /\ fetch[f].got \in {s \in KeySets : parseJWKS[s] # <<>>}
           /\ \A k \in Kid : SameSince(fetch[f].got, k, lastAttempt)
  BY <1>3 DEF Inv, TypeInv, Fetch, FlightOK
<1>6. /\ keys' \in {s \in KeySets : parseJWKS[s] # <<>>} \cup {None}
      /\ fetchedAt' \in 0..now /\ expiresAt' \in Nat /\ failed' \in BOOLEAN
      /\ keys' # None => fetchedAt' < expiresAt' /\ expiresAt' <= fetchedAt' + MaxStale
  <2>1. CASE fetch[f].got # None /\ Store(f, ttl)
    <3>1. PICK m \in Nat : m = Least(ttl, MaxStale) /\ 0 < m /\ m <= MaxStale
      BY <1>1, ConstantsAssumption DEF Least
    <3>2. keys' = fetch[f].got /\ fetchedAt' = now /\ expiresAt' = now + m /\ failed' = FALSE
      BY <2>1, <3>1 DEF Store
    <3>3. now \in Nat /\ MaxStale \in Nat
      BY ConstantsAssumption DEF Inv, TypeInv, TypeOK
    <3>4. keys' \in {s \in KeySets : parseJWKS[s] # <<>>}
      BY <1>5, <2>1, <3>2
    <3>5. fetchedAt' \in 0..now /\ expiresAt' \in Nat /\ fetchedAt' < expiresAt' /\ expiresAt' <= fetchedAt' + MaxStale
      BY <3>1, <3>2, <3>3
    <3> QED
      BY <3>2, <3>4, <3>5
  <2>2. CASE failed' = TRUE /\ UNCHANGED <<keys, fetchedAt, expiresAt>>
    BY <2>2 DEF Inv, TypeInv, TypeOK
  <2> QED
    BY <1>2, <2>1, <2>2
<1>7. TypeInv'
  <2>1. discovered' \in BOOLEAN
    BY <1>2, <1>5 DEF Inv, TypeInv, TypeOK
  <2> QED
    BY <1>2, <1>4, <1>6, <2>1 DEF issuer, running, Inv, TypeInv, TypeOK
<1>8. FlightOK' /\ BudgetOK' /\ WaitersOK'
  BY <1>2 DEF Inv, FlightOK, BudgetOK, WaitersOK
<1>9. KeysOK'
  <2>1. CASE fetch[f].got # None /\ Store(f, ttl)
    <3>1. PICK t : t = fetch[f].got
      OBVIOUS
    <3>2. \A k \in Kid : SameSince(t, k, lastAttempt)
      BY <1>5, <2>1, <3>1
    <3>3. now - FetchTimeout <= lastAttempt /\ now \in Nat /\ lastAttempt \in Nat /\ FetchTimeout \in Nat
      BY <1>5, ConstantsAssumption DEF Inv, TypeInv, TypeOK
    <3>4. \A k \in Kid : changedAt[k] \in Nat
      BY DEF Inv, TypeInv
    <3>5. \A k \in Kid : SameSince(t, k, now - FetchTimeout)
      BY <3>2, <3>3, <3>4 DEF SameSince
    <3>6. keys' = t /\ fetchedAt' = now
      BY <2>1, <3>1 DEF Store
    <3> QED
      BY <1>2, <3>2, <3>5, <3>6 DEF KeysOK, SameSince, issuer
  <2>2. CASE failed' = TRUE /\ UNCHANGED <<keys, fetchedAt, expiresAt>>
    BY <1>2, <2>2 DEF Inv, KeysOK, SameSince, issuer
  <2> QED
    BY <1>2, <2>1, <2>2
<1> QED
  BY <1>7, <1>8, <1>9 DEF Inv

LEMMA FetchStepInv == ASSUME Inv, NEW f \in running, FetchStep(f) PROVE Inv'
<1>1. PICK fr \in Fetch : fr = fetch[f]
  BY DEF Inv, TypeInv
<1>2. CASE Discover(f)
  <2>1. [fr EXCEPT !.pc = "get", !.uri = TRUE] \in Fetch
    BY DEF Fetch
  <2> QED
    BY <1>1, <1>2, <2>1, AdvanceInv DEF Discover, Fetch
<1>3. CASE GetKeys(f)
  <2>1. published \in KeySets
    BY DEF Inv, TypeInv, TypeOK
  <2>2. [fr EXCEPT !.pc = "finish", !.got = published] \in Fetch
    BY <2>1 DEF Fetch
  <2> QED
    BY <1>1, <1>3, <2>2, AdvanceInv DEF GetKeys, Fetch
<1>4. CASE Fails(f)
  <2>1. [fr EXCEPT !.pc = "finish", !.got = None] \in Fetch
    BY DEF Fetch
  <2> QED
    BY <1>1, <1>4, <2>1, AdvanceInv DEF Fails, Fetch
<1>5. CASE \E ttl \in {cacheTTL(h) : h \in Headers} : Finish(f, ttl)
  BY <1>5, FinishInv
<1> QED
  BY <1>2, <1>3, <1>4, <1>5 DEF FetchStep

-----------------------------------------------------------------------------
(* The issuer and time.                                                    *)

LEMMA PublishInv == ASSUME Inv, Publish PROVE Inv'
<1>1. PICK S \in KeySets :
        /\ published' = S
        /\ changedAt' = [k \in Kid |-> IF OfKid[S][k] = OfKid[published][k] THEN changedAt[k] ELSE now]
  BY DEF Publish
<1>2. UNCHANGED <<now, cache, flight, call>>
  BY DEF Publish
<1>3. /\ now \in Nat /\ lastAttempt \in Nat /\ fetchedAt \in Nat
      /\ lastAttempt <= now /\ fetchedAt <= now /\ FetchTimeout \in Nat
  BY ConstantsAssumption DEF Inv, TypeInv, TypeOK
<1>4. \A k \in Kid : /\ changedAt'[k] \in Nat
                      /\ \A s : \A t \in {lastAttempt, fetchedAt - FetchTimeout} : SameSince(s, k, t) => SameSince(s, k, t)'
  <2> SUFFICES ASSUME NEW k \in Kid, NEW s, NEW t \in {lastAttempt, fetchedAt - FetchTimeout}
               PROVE  changedAt'[k] \in Nat /\ (SameSince(s, k, t) => OfKid[s][k] = OfKid[S][k] \/ t <= changedAt'[k])
    BY <1>1, <1>2 DEF SameSince, cache, flight
  <2>1. CASE OfKid[S][k] = OfKid[published][k]
    BY <1>1, <2>1 DEF SameSince, Inv, TypeInv
  <2>2. CASE OfKid[S][k] # OfKid[published][k]
    BY <1>1, <1>3, <2>2 DEF SameSince
  <2> QED
    BY <2>1, <2>2
<1>5. changedAt' \in [Kid -> Nat]
  BY <1>1, <1>3 DEF Inv, TypeInv
<1>6. TypeInv'
  BY <1>1, <1>2, <1>5 DEF cache, flight, running, Inv, TypeInv, TypeOK
<1>7. FlightOK'
  BY <1>2, <1>4 DEF cache, flight, Inv, FlightOK
<1>8. KeysOK'
  BY <1>2, <1>4 DEF cache, flight, Inv, KeysOK
<1>9. BudgetOK' /\ WaitersOK'
  BY <1>2 DEF cache, flight, Inv, BudgetOK, WaitersOK
<1> QED
  BY <1>6, <1>7, <1>8, <1>9 DEF Inv

LEMMA TickInv == ASSUME Inv, Tick PROVE Inv'
<1>1. now' = now + 1 /\ UNCHANGED <<issuer, cache, flight, call>>
  BY DEF Tick
<1>2. inflight # 0 => now' <= lastAttempt + FetchTimeout
  <2>1. inflight # 0 => inflight \in running /\ fetch[inflight].started = lastAttempt
    BY DEF Inv, TypeInv, FlightOK
  <2> QED
    BY <1>1, <2>1, ConstantsAssumption DEF Tick, Inv, TypeInv, TypeOK
<1>3. TypeInv'
  BY <1>1 DEF issuer, cache, flight, running, Inv, TypeInv, TypeOK
<1>4. FlightOK' /\ KeysOK' /\ BudgetOK' /\ WaitersOK'
  BY <1>1, <1>2 DEF issuer, cache, flight, Inv, FlightOK, KeysOK, BudgetOK, WaitersOK, SameSince
<1> QED
  BY <1>3, <1>4 DEF Inv

LEMMA InvNext == Inv /\ [Next]_vars => Inv'
<1> SUFFICES ASSUME Inv, [Next]_vars PROVE Inv'
  OBVIOUS
<1>1. ASSUME NEW p \in Proc, NEW kid \in Kid, Verify(p, kid) PROVE Inv'
  BY <1>1, TurnInv DEF Verify
<1>2. ASSUME NEW p \in Proc, Resume(p) PROVE Inv'
  <2>1. PICK kid \in Kid : kid = call[p].kid
    BY <1>2 DEF Resume, Inv, TypeInv
  <2> QED
    BY <1>2, <2>1, TurnInv DEF Resume
<1>3. ASSUME NEW p \in Proc, Cancel(p) \/ Return(p) PROVE Inv'
  BY <1>3, LeaveInv
<1>4. ASSUME NEW f \in running, FetchStep(f) PROVE Inv'
  BY <1>4, FetchStepInv
<1>5. CASE UNCHANGED vars
  BY <1>5 DEF vars, issuer, cache, flight, running, Inv, TypeInv, TypeOK, FlightOK, KeysOK, BudgetOK, WaitersOK, SameSince
<1> QED
  BY <1>1, <1>2, <1>3, <1>4, <1>5, PublishInv, TickInv DEF Next

LEMMA Invariance == Spec => []Inv
  BY InvInit, InvNext, PTL DEF Spec

-----------------------------------------------------------------------------
(* Every variable keeps its type: keys that are kept make a usable set,    *)
(* which is never fresh for longer than it may be served at all.           *)
THEOREM TypeCorrect == Spec => []TypeOK
<1>1. Inv => TypeOK
  BY DEF Inv, TypeInv
<1> QED
  BY <1>1, Invariance, PTL

(* All callers together never have two fetches run at once, nor start them *)
(* more often than one in MinRefreshInterval.                              *)
THEOREM FetchesAreFew == Spec => []FetchPolicy
<1>1. Inv => SingleFlight
  <2> SUFFICES ASSUME Inv PROVE Cardinality(running) <= 1
    BY DEF SingleFlight
  <2>1. running = {} \/ running = {inflight}
    BY DEF Inv, TypeInv
  <2>2. Cardinality({}) = 0 /\ Cardinality({inflight}) = 1
    BY FS_EmptySet, FS_Singleton
  <2> QED
    BY <2>1, <2>2
<1>2. Inv => FetchBudget
  <2> SUFFICES ASSUME Inv, fetches > 0 PROVE (fetches - 1) * MinRefreshInterval <= now - 1
    BY DEF FetchBudget
  <2>1. PICK n \in Int : n = (fetches - 1) * MinRefreshInterval
    BY ConstantsAssumption DEF Inv, TypeInv
  <2> QED
    BY <2>1 DEF Inv, TypeInv, TypeOK, BudgetOK
<1>3. Inv => FetchPolicy
  BY <1>1, <1>2 DEF FetchPolicy
<1> QED
  BY <1>3, Invariance, PTL

(* An answer of lookup comes from a turn of its loop.                      *)
LEMMA AnswerStep ==
  ASSUME Inv, [Next]_vars, NEW p \in Proc, NEW a \in {"keys", "unknown"}, Answers(p, a)
  PROVE  \E kid \in Kid, fetched \in BOOLEAN :
           /\ Turn(p, kid, fetched)
           /\ fetched <=> call[p].pc = "wait"
<1>1. call'[p] # call[p] /\ DOMAIN call = Proc
  BY DEF Answers, Inv, TypeInv, TypeOK
<1>2. ASSUME NEW q \in Proc, NEW fr, call' = [call EXCEPT ![q] = fr] PROVE q = p /\ call'[p] = fr
  BY <1>1, <1>2
<1>3. ASSUME NEW q \in Proc, NEW kid \in Kid, Verify(q, kid)
      PROVE  Turn(p, kid, FALSE) /\ call[p].pc # "wait"
  <2>1. Turn(q, kid, FALSE) /\ call[q].pc = "idle"
    BY <1>3 DEF Verify
  <2>2. q = p
    BY <1>2, <2>1, TurnOutcome DEF Inv
  <2> QED
    BY <2>1, <2>2
<1>4. ASSUME NEW q \in Proc, Resume(q)
      PROVE  \E kid \in Kid : Turn(p, kid, TRUE) /\ call[p].pc = "wait"
  <2>1. PICK kid \in Kid : kid = call[q].kid
    BY <1>4 DEF Resume, Inv, TypeInv
  <2>2. Turn(q, kid, TRUE) /\ call[q].pc = "wait"
    BY <1>4, <2>1 DEF Resume
  <2>3. q = p
    BY <1>2, <2>2, TurnOutcome DEF Inv
  <2> QED
    BY <2>2, <2>3
<1>5. ASSUME NEW q \in Proc, Cancel(q) PROVE FALSE
  <2>1. PICK fr : call' = [call EXCEPT ![q] = fr] /\ fr.answer = "unavailable"
    <3>1. PICK kid : kid = call[q].kid
      OBVIOUS
    <3>2. call' = [call EXCEPT ![q] = [Idle EXCEPT !.pc = "answered", !.kid = kid, !.answer = "unavailable", !.found = None]]
      BY <1>5, <3>1 DEF Cancel, Answer
    <3>3. [Idle EXCEPT !.pc = "answered", !.kid = kid, !.answer = "unavailable", !.found = None].answer = "unavailable"
      BY DEF Idle
    <3> QED
      BY <3>2, <3>3
  <2>2. q = p /\ call'[p].answer = "unavailable"
    BY <1>2, <2>1
  <2> QED
    BY <2>2 DEF Answers
<1>6. ASSUME NEW q \in Proc, Return(q) PROVE FALSE
  <2>1. q = p /\ call'[p] = Idle
    BY <1>2, <1>6 DEF Return
  <2> QED
    BY <2>1 DEF Answers, Idle
<1>7. ASSUME NEW f \in running, FetchStep(f) PROVE call' = call
  BY <1>7 DEF FetchStep, Discover, GetKeys, Fails, Advance, Finish
<1>8. Publish \/ Tick \/ UNCHANGED vars => call' = call
  BY DEF Publish, Tick, vars
<1> QED
  BY <1>1, <1>3, <1>4, <1>5, <1>6, <1>7, <1>8 DEF Next

(* A key that the issuer withdrew is trusted for at most MaxStale and the  *)
(* duration of a fetch.                                                    *)
THEOREM WithdrawnKeysFade == Spec => UntrustedInTime
<1>1. Inv /\ [Next]_vars => [\A p \in Proc : TrustsInTime(p)]_vars
  <2> SUFFICES ASSUME Inv, [Next]_vars, NEW p \in Proc, Answers(p, "keys")
               PROVE  \/ Range(OfKid[call'[p].found][call'[p].kid]) \subseteq Range(OfKid[published][call'[p].kid])
                      \/ now < changedAt[call'[p].kid] + MaxStale + FetchTimeout
    BY DEF TrustsInTime
  <2>1. PICK kid \in Kid, fetched \in BOOLEAN : Turn(p, kid, fetched)
    BY AnswerStep
  <2>2. PICK fr \in Frame : call' = [call EXCEPT ![p] = fr] /\ TurnResult(fr, kid, fetched)
    BY <2>1, TurnOutcome DEF Inv
  <2>3. call'[p] = fr
    BY <2>2 DEF Inv, TypeInv, TypeOK
  <2>4. fr.kid = kid /\ fr.found = keys /\ usable
    BY <2>2, <2>3 DEF Answers, TurnResult
  <2>5. SameSince(keys, kid, fetchedAt - FetchTimeout) /\ now < fetchedAt + MaxStale
    BY <2>4 DEF usable, Inv, KeysOK
  <2>6. CASE OfKid[keys][kid] = OfKid[published][kid]
    BY <2>3, <2>4, <2>6
  <2>7. CASE fetchedAt - FetchTimeout <= changedAt[kid]
    BY <2>3, <2>4, <2>5, <2>7, ConstantsAssumption DEF Inv, TypeInv, TypeOK
  <2> QED
    BY <2>5, <2>6, <2>7 DEF SameSince
<1> QED
  BY <1>1, Invariance, PTL DEF Spec, UntrustedInTime

(* A kid that was published for MinRefreshInterval when Verify was called  *)
(* is found, unless the last fetch failed.                                 *)
THEOREM NewKeysAreFound == Spec => NewKeyFound
<1>1. Inv /\ [Next]_vars => [\A p \in Proc : MissesForAReason(p)]_vars
  <2> SUFFICES ASSUME Inv, [Next]_vars, NEW p \in Proc, Answers(p, "unknown"), ~failed,
                      OfKid[published][call'[p].kid] # <<>>
               PROVE  Began(p) < changedAt[call'[p].kid] + MinRefreshInterval
    BY DEF MissesForAReason
  <2>1. PICK kid \in Kid, fetched \in BOOLEAN :
          Turn(p, kid, fetched) /\ (fetched <=> call[p].pc = "wait")
    BY AnswerStep
  <2>2. PICK fr \in Frame : call' = [call EXCEPT ![p] = fr] /\ TurnResult(fr, kid, fetched)
    BY <2>1, TurnOutcome DEF Inv
  <2>3. call'[p] = fr
    BY <2>2 DEF Inv, TypeInv, TypeOK
  <2>4. /\ fr.kid = kid /\ usable /\ OfKid[keys][kid] = <<>>
        /\ inflight = 0 /\ (fetched \/ ~mayFetch)
    BY <2>2, <2>3 DEF Answers, TurnResult
  <2>5. lastAttempt <= changedAt[kid]
    BY <2>3, <2>4 DEF usable, Inv, KeysOK, SameSince
  <2>6. Began(p) < lastAttempt + MinRefreshInterval
    <3>1. CASE fetched
      <4>1. call[p].began <= lastAttempt + FetchTimeout /\ call[p].began \in Nat
        BY <2>1, <3>1 DEF Inv, WaitersOK, TypeInv, TypeOK, Frame
      <4> QED
        BY <2>1, <3>1, <4>1, ConstantsAssumption DEF Began, Inv, TypeInv
    <3>2. CASE ~fetched
      BY <2>1, <2>4, <3>2, ConstantsAssumption DEF Began, mayFetch, Inv, TypeInv, TypeOK
    <3> QED
      BY <3>1, <3>2
  <2>7. Began(p) \in Nat
    BY DEF Began, Inv, TypeInv, TypeOK, Frame
  <2> QED
    BY <2>3, <2>4, <2>5, <2>6, <2>7, ConstantsAssumption DEF Inv, TypeInv
<1> QED
  BY <1>1, Invariance, PTL DEF Spec, NewKeyFound

-----------------------------------------------------------------------------
(* Tokens.                                                                 *)

(* As many names as members: no two members of a name.                     *)
LEMMA NamesCounted ==
  ASSUME NEW doc, IsJSON(doc), NEW p
  PROVE  walkObject(doc, p)
           <=> Cardinality({doc[q].name : q \in Members(doc, p)}) = Cardinality(Members(doc, p))
<1> DEFINE M == Members(doc, p)
           names == {doc[q].name : q \in M}
           f == [q \in M |-> doc[q].name]
<1>1. IsFiniteSet(M)
  <2>1. M \in SUBSET (DOMAIN doc)
    BY DEF Members
  <2> QED
    BY <2>1, FS_Subset DEF IsJSON
<1>2. f \in Surjection(M, names)
  BY DEF Surjection
<1>3. Cardinality(names) = Cardinality(M) <=> f \in Injection(M, names)
  BY <1>1, <1>2, FS_Surjection
<1>4. f \in Injection(M, names) <=> walkObject(doc, p)
  BY DEF Injection, IsInjective, walkObject
<1> QED
  BY <1>3, <1>4

(* A document that passes the check is one that every parser reads alike,  *)
(* not too deep; and the other way round.                                  *)
LEMMA CheckMeans ==
  ASSUME NEW doc, IsJSON(doc)
  PROVE  checkJSONObject(doc) <=> Shallow(doc) /\ Unambiguous(doc)
BY NamesCounted DEF checkJSONObject, walkValue, Shallow, Unambiguous

(* In a checked document a name has at most one member at the top, and it  *)
(* is the one that is read.                                                *)
LEMMA OneMember ==
  ASSUME NEW doc, checkJSONObject(doc), <<>> \in DOMAIN doc, NEW name, NEW q \in Named(doc, name)
  PROVE  Named(doc, name) = {q} /\ At(doc, name) = q
<1>1. walkObject(doc, <<>>)
  BY DEF checkJSONObject, walkValue
<1>2. Named(doc, name) = {q}
  BY <1>1 DEF walkObject, Named
<1>3. At(doc, name) \in Named(doc, name)
  BY <1>2 DEF At
<1> QED
  BY <1>2, <1>3

LEMMA OnlyMember ==
  ASSUME NEW doc, checkJSONObject(doc), <<>> \in DOMAIN doc, NEW name, Has(doc, name)
  PROVE  Named(doc, name) = {At(doc, name)}
BY OneMember DEF Has

(* A value that is no container has no members.                            *)
LEMMA LeavesAreBare ==
  ASSUME NEW doc, IsJSON(doc), NEW p, doc[p].is \notin Containers
  PROVE  Members(doc, p) = {}
BY DEF IsJSON, Members

LEMMA SpansAreNatural == ClockSkew \in Nat \ {0} /\ Scale \in Nat \ {0}
BY ConfigAssumption, Zenon

(* What a unit holds.                                                      *)
LEMMA TruncatedMeans ==
  ASSUME NEW n \in Int, n > 0
  PROVE  /\ Truncated(n) \in Nat
         /\ Truncated(n) * Scale <= n /\ n < Truncated(n) * Scale + Scale
BY SpansAreNatural DEF Truncated

(* Before exp in units is before exp in parts.                             *)
LEMMA BeforeInParts ==
  ASSUME NEW n \in Int, n > 0, NEW at \in Nat
  PROVE  /\ at < Truncated(n) + ClockSkew => at * Scale < n + ClockSkew * Scale
         /\ (at + 1) * Scale < n + ClockSkew * Scale => at < Truncated(n) + ClockSkew
<1> DEFINE q == Truncated(n)
<1>1. q \in Nat /\ q * Scale <= n /\ n < q * Scale + Scale
  BY TruncatedMeans
<1>2. ClockSkew \in Nat /\ Scale \in Nat /\ Scale > 0
  BY SpansAreNatural
<1> HIDE DEF q
<1>3. ASSUME at < q + ClockSkew PROVE at * Scale < n + ClockSkew * Scale
  <2>1. PICK d \in Nat : q + ClockSkew = at + 1 + d
    <3>1. q + ClockSkew - at - 1 \in Nat
      BY <1>1, <1>2, <1>3
    <3> QED
      BY <1>1, <1>2, <3>1
  <2>2. q * Scale + ClockSkew * Scale = at * Scale + Scale + d * Scale
    BY <1>1, <1>2, <2>1
  <2>3. d * Scale \in Nat /\ q * Scale \in Nat /\ ClockSkew * Scale \in Nat /\ at * Scale \in Nat
    BY <1>1, <1>2
  <2> QED
    BY <1>1, <1>2, <2>2, <2>3
<1>4. ASSUME (at + 1) * Scale < n + ClockSkew * Scale PROVE at < q + ClockSkew
  <2>1. SUFFICES ASSUME q + ClockSkew <= at PROVE FALSE
    BY <1>1, <1>2
  <2>2. PICK d \in Nat : at = q + ClockSkew + d
    <3>1. at - (q + ClockSkew) \in Nat
      BY <1>1, <1>2, <2>1
    <3> QED
      BY <1>1, <1>2, <3>1
  <2>3. (at + 1) * Scale = q * Scale + ClockSkew * Scale + d * Scale + Scale
    BY <1>1, <1>2, <2>2
  <2>4. d * Scale \in Nat /\ q * Scale \in Nat /\ ClockSkew * Scale \in Nat
    BY <1>1, <1>2
  <2> QED
    BY <1>1, <1>2, <1>4, <2>3, <2>4
<1> QED
  BY <1>3, <1>4 DEF q

(* iat or nbf is past in units when and only when it is past but for the   *)
(* part of a unit that is cut off.                                         *)
LEMMA PastInParts ==
  ASSUME NEW n \in Int, n > 0, NEW at \in Nat
  PROVE  Truncated(n) <= at + ClockSkew <=> n < (at + ClockSkew + 1) * Scale
<1> DEFINE q == Truncated(n)
           b == at + ClockSkew
<1>1. q \in Nat /\ q * Scale <= n /\ n < q * Scale + Scale
  BY TruncatedMeans
<1>2. b \in Nat /\ Scale \in Nat /\ Scale > 0
  BY SpansAreNatural
<1> HIDE DEF q, b
<1>3. ASSUME q <= b PROVE n < (b + 1) * Scale
  <2>1. PICK d \in Nat : b = q + d
    <3>1. b - q \in Nat
      BY <1>1, <1>2, <1>3
    <3> QED
      BY <1>1, <1>2, <3>1
  <2>2. (b + 1) * Scale = q * Scale + d * Scale + Scale
    BY <1>1, <1>2, <2>1
  <2>3. d * Scale \in Nat /\ q * Scale \in Nat
    BY <1>1, <1>2
  <2> QED
    BY <1>1, <1>2, <2>2, <2>3
<1>4. ASSUME n < (b + 1) * Scale PROVE q <= b
  <2>1. SUFFICES ASSUME b + 1 <= q PROVE FALSE
    BY <1>1, <1>2
  <2>2. PICK d \in Nat : q = b + 1 + d
    <3>1. q - (b + 1) \in Nat
      BY <1>1, <1>2, <2>1
    <3> QED
      BY <1>1, <1>2, <3>1
  <2>3. q * Scale = (b + 1) * Scale + d * Scale
    BY <1>1, <1>2, <2>2
  <2>4. d * Scale \in Nat /\ (b + 1) * Scale \in Nat
    BY <1>1, <1>2
  <2> QED
    BY <1>1, <1>2, <1>4, <2>3, <2>4
<1> QED
  BY <1>3, <1>4 DEF q, b

(* A string claim says what its one member says.                           *)
LEMMA TextsOfString ==
  ASSUME NEW t \in Tokens, checkJSONObject(t.payload), NEW name, Has(t.payload, name),
         Get(t.payload, name).is = "string"
  PROVE  Texts(t, name) = {Get(t.payload, name).text}
<1> DEFINE q == At(t.payload, name)
<1>1. IsJSON(t.payload) /\ <<>> \in DOMAIN t.payload
  BY TokensAssumption DEF IsJSON
<1>2. Named(t.payload, name) = {q}
  BY <1>1, OnlyMember
<1>3. t.payload[q].is = "string"
  BY DEF Get
<1>4. Members(t.payload, q) = {}
  BY <1>1, <1>3, LeavesAreBare DEF Containers
<1> HIDE DEF q
<1>5. {r \in Named(t.payload, name) \cup UNION {Members(t.payload, n) : n \in Named(t.payload, name)} :
         t.payload[r].is = "string"} = {q}
  BY <1>2, <1>3, <1>4
<1>6. Texts(t, name) = {t.payload[q].text}
  BY <1>5 DEF Texts
<1> QED
  BY <1>6 DEF Get, q

(* A date says the one moment of its one member.                           *)
LEMMA SaidOfDate ==
  ASSUME NEW t \in Tokens, checkJSONObject(t.payload), NEW name, Has(t.payload, name),
         Get(t.payload, name).is = "number"
  PROVE  Get(t.payload, name).num \in Int /\ Said(t, name) = {Get(t.payload, name).num}
<1> DEFINE q == At(t.payload, name)
<1>1. IsJSON(t.payload) /\ <<>> \in DOMAIN t.payload
  BY TokensAssumption DEF IsJSON
<1>2. Named(t.payload, name) = {q}
  BY <1>1, OnlyMember
<1>3. q \in DOMAIN t.payload
  BY <1>2 DEF Named, Members
<1> HIDE DEF q
<1>4. t.payload[q] \in Value
  BY <1>1, <1>3 DEF IsJSON
<1> QED
  BY <1>2, <1>4 DEF Said, Get, Value, q

LEMMA NothingOfAnAbsentName ==
  ASSUME NEW t \in Tokens, NEW name, ~Has(t.payload, name)
  PROVE  Texts(t, name) = {} /\ Said(t, name) = {}
BY DEF Has, Texts, Said

(* The audiences that are read are those that are said.                    *)
LEMMA AudienceAsSaid ==
  ASSUME NEW t \in Tokens, checkJSONObject(t.payload), audienceClaim(t.payload).ok
  PROVE  audienceClaim(t.payload).list = Texts(t, "aud")
<1> DEFINE q == At(t.payload, "aud")
           elements == Members(t.payload, q)
<1>1. IsJSON(t.payload) /\ <<>> \in DOMAIN t.payload
  BY TokensAssumption DEF IsJSON
<1>2. CASE ~Has(t.payload, "aud")
  <2>1. audienceClaim(t.payload).list = {}
    BY <1>2 DEF audienceClaim
  <2> QED
    BY <2>1, <1>2, NothingOfAnAbsentName
<1>3. CASE Has(t.payload, "aud")
  <2>1. Named(t.payload, "aud") = {q}
    BY <1>1, <1>3, OnlyMember
  <2>2. Texts(t, "aud") = {t.payload[r].text : r \in {r \in {q} \cup elements : t.payload[r].is = "string"}}
    <3> HIDE DEF q
    <3> QED
      BY <2>1 DEF Texts
  <2>3. CASE t.payload[q].is = "array"
    <3>1. /\ audienceClaim(t.payload).list = {t.payload[r].text : r \in elements}
          /\ \A r \in elements : t.payload[r].is = "string"
      BY <1>3, <2>3 DEF audienceClaim, Get, Elements
    <3>2. {r \in {q} \cup elements : t.payload[r].is = "string"} = elements
      <4> HIDE DEF q, elements
      <4> QED
        BY <2>3, <3>1
    <3> QED
      BY <2>2, <3>1, <3>2
  <2>4. CASE t.payload[q].is = "string"
    <3>1. audienceClaim(t.payload).list = {Get(t.payload, "aud").text}
      BY <1>3, <2>4 DEF audienceClaim, Get
    <3> QED
      BY <1>3, <2>4, <3>1, TextsOfString DEF Get
  <2>5. CASE t.payload[q].is = "null"
    <3>1. audienceClaim(t.payload).list = {}
      BY <1>3, <2>5 DEF audienceClaim, Get
    <3>2. elements = {}
      BY <1>1, <2>5, LeavesAreBare DEF Containers
    <3> HIDE DEF q, elements
    <3> QED
      BY <2>2, <2>5, <3>1, <3>2
  <2>6. t.payload[q].is \in {"array", "string", "null"}
    BY <1>3 DEF audienceClaim, Get
  <2> QED
    BY <2>3, <2>4, <2>5, <2>6
<1> QED
  BY <1>2, <1>3

(* What is read of a date: nothing if there is none, else the unit of its  *)
(* one moment.                                                             *)
LEMMA DateAsSaid ==
  ASSUME NEW t \in Tokens, checkJSONObject(t.payload), NEW name, numericDate(t.payload, name).ok
  PROVE  \/ ~numericDate(t.payload, name).set /\ Said(t, name) = {}
         \/ /\ numericDate(t.payload, name).set
            /\ \E n \in Int : /\ n > 0 /\ Said(t, name) = {n}
                              /\ numericDate(t.payload, name).at = Truncated(n)
<1>1. CASE ~Has(t.payload, name)
  BY <1>1, NothingOfAnAbsentName DEF numericDate
<1>2. CASE Has(t.payload, name)
  <2> DEFINE v == Get(t.payload, name)
  <2>1. v.is = "number" /\ v.num > 0
    BY <1>2 DEF numericDate
  <2>2. v.num \in Int /\ Said(t, name) = {v.num}
    BY <1>2, <2>1, SaidOfDate
  <2>3. numericDate(t.payload, name).set /\ numericDate(t.payload, name).at = Truncated(v.num)
    BY <1>2 DEF numericDate
  <2> QED
    BY <2>1, <2>2, <2>3
<1> QED
  BY <1>1, <1>2

(* decodeClaims, claim by claim.                                           *)
LEMMA ClaimsRead ==
  ASSUME NEW t \in DOMAIN decodeClaims
  PROVE  LET c == decodeClaims[t] IN
         /\ t \in Tokens /\ parseCompact(t)
         /\ c.iss = stringClaim(t.payload, "iss") /\ c.sub = stringClaim(t.payload, "sub")
         /\ c.jti = stringClaim(t.payload, "jti") /\ c.aud = audienceClaim(t.payload)
         /\ \A d \in Dates : c.date[d] = numericDate(t.payload, d)
BY DEF decodeClaims

(* A string that is read is the one that is said, where it is not empty.   *)
LEMMA StringAsSaid ==
  ASSUME NEW t \in Tokens, checkJSONObject(t.payload), NEW name, stringClaim(t.payload, name).ok
  PROVE  \/ stringClaim(t.payload, name).text = "" /\ Texts(t, name) \in {{}, {""}}
         \/ /\ stringClaim(t.payload, name).text # ""
            /\ Texts(t, name) = {stringClaim(t.payload, name).text}
<1>1. CASE ~Has(t.payload, name)
  BY <1>1, NothingOfAnAbsentName DEF stringClaim
<1>2. CASE Has(t.payload, name)
  <2>1. Get(t.payload, name).is = "string" /\ stringClaim(t.payload, name).text = Get(t.payload, name).text
    BY <1>2 DEF stringClaim
  <2>2. Texts(t, name) = {Get(t.payload, name).text}
    BY <1>2, <2>1, TextsOfString
  <2> QED
    BY <2>1, <2>2
<1> QED
  BY <1>1, <1>2

LEMMA AllowedIsSupported == allowList \subseteq DOMAIN supportedAlgorithms /\ "" \notin allowList
<1>1. Algorithms \subseteq DOMAIN supportedAlgorithms
  BY ConfigAssumption, Zenon
<1>2. "RS256" \in DOMAIN supportedAlgorithms /\ "" \notin DOMAIN supportedAlgorithms
  BY DEF supportedAlgorithms
<1> QED
  BY <1>1, <1>2 DEF allowList

LEMMA IssuerIsNamed == Issuer # ""
BY ConfigAssumption, Zenon

LEMMA StatementMeans ==
  ASSUME NEW t \in Tokens
  PROVE  /\ Statement[t].fair = Fair(t)
         /\ Statement[t].plain = (Shallow(t.header) /\ Shallow(t.payload) /\ WellTyped(t) /\ NamesItsKey(t))
         /\ Statement[t].kids = {t.header[q].text : q \in Named(t.header, "kid")}
         /\ Statement[t].exp = Said(t, "exp")
         /\ Statement[t].begin = Said(t, "iat") \cup Said(t, "nbf")
BY DEF Statement

(* "Verify parses rawToken, verifies its signature against the issuer's    *)
(* key set and validates its claims": what it accepts is trustworthy.      *)
LEMMA AcceptedIsTrustworthy ==
  ASSUME NEW t \in Tokens, NEW kid, NEW found, NEW at \in Nat, Accepts(t, kid, found, at)
  PROVE  Trustworthy(t, found, at)
<1> DEFINE c == decodeClaims[t]
<1>1. t \in DOMAIN decodeClaims /\ Decoded(c) /\ validate(c, at)
  BY DEF Accepts
<1>2. /\ c.iss = stringClaim(t.payload, "iss") /\ c.sub = stringClaim(t.payload, "sub")
      /\ c.jti = stringClaim(t.payload, "jti") /\ c.aud = audienceClaim(t.payload)
      /\ \A d \in Dates : c.date[d] = numericDate(t.payload, d)
      /\ parseCompact(t)
  BY <1>1, ClaimsRead
<1> HIDE DEF c
<1>3. checkJSONObject(t.header) /\ checkJSONObject(t.payload) /\ t.canonical /\ Named(t.header, "crit") = {}
  BY <1>2 DEF parseCompact, parseHeader, Has
<1>4. PICK i \in DOMAIN found : /\ usableWith(found[i], Alg(t))
                                /\ verifySignature(found[i], t, Alg(t))
  BY DEF Accepts
<1>5. t.signature.over /\ t.signature.by = found[i].pair /\ t.signature.scheme = Alg(t)
  BY <1>4 DEF verifySignature
<1>6. Texts(t, "iss") = {Issuer}
  <2>1. c.iss.ok /\ c.iss.text = Issuer
    BY <1>1 DEF Decoded, validate
  <2> QED
    BY <1>2, <1>3, <2>1, StringAsSaid, IssuerIsNamed
<1>7. Texts(t, "aud") \cap Audiences # {}
  <2>1. c.aud.ok /\ c.aud.list \cap Audiences # {}
    BY <1>1 DEF Decoded, validate
  <2> QED
    BY <1>2, <1>3, <2>1, AudienceAsSaid
<1>8. RequireSubject => Texts(t, "sub") \notin {{}, {""}}
  <2>1. c.sub.ok /\ (RequireSubject => c.sub.text # "")
    BY <1>1 DEF Decoded, validate
  <2> QED
    BY <1>2, <1>3, <2>1, StringAsSaid
<1>9. RequireJTI => Texts(t, "jti") \notin {{}, {""}}
  <2>1. c.jti.ok /\ (RequireJTI => c.jti.text # "")
    BY <1>1 DEF Decoded, validate
  <2> QED
    BY <1>2, <1>3, <2>1, StringAsSaid
<1>10. \A d \in Dates : numericDate(t.payload, d).ok
  BY <1>1, <1>2 DEF Decoded
<1>11. Said(t, "exp") # {} /\ \A n \in Said(t, "exp") : at * Scale < n + ClockSkew * Scale
  <2>1. numericDate(t.payload, "exp").set /\ at < numericDate(t.payload, "exp").at + ClockSkew
    BY <1>1, <1>2 DEF validate, Dates
  <2>2. PICK n \in Int : n > 0 /\ Said(t, "exp") = {n} /\ numericDate(t.payload, "exp").at = Truncated(n)
    BY <1>3, <1>10, <2>1, DateAsSaid DEF Dates
  <2>3. at * Scale < n + ClockSkew * Scale
    BY <2>1, <2>2, BeforeInParts
  <2> QED
    BY <2>2, <2>3
<1>12. Said(t, "iat") # {} /\ \A n \in Said(t, "iat") : n < (at + ClockSkew + 1) * Scale
  <2>1. numericDate(t.payload, "iat").set /\ numericDate(t.payload, "iat").at <= at + ClockSkew
    BY <1>1, <1>2 DEF validate, Dates
  <2>2. PICK n \in Int : n > 0 /\ Said(t, "iat") = {n} /\ numericDate(t.payload, "iat").at = Truncated(n)
    BY <1>3, <1>10, <2>1, DateAsSaid DEF Dates
  <2>3. n < (at + ClockSkew + 1) * Scale
    BY <2>1, <2>2, PastInParts
  <2> QED
    BY <2>2, <2>3
<1>13. \A n \in Said(t, "nbf") : n < (at + ClockSkew + 1) * Scale
  <2>1. numericDate(t.payload, "nbf").set => numericDate(t.payload, "nbf").at <= at + ClockSkew
    BY <1>1, <1>2 DEF validate, Dates
  <2>2. CASE Said(t, "nbf") = {}
    BY <2>2
  <2>3. CASE Said(t, "nbf") # {}
    <3>1. numericDate(t.payload, "nbf").set
      BY <1>3, <1>10, <2>3, DateAsSaid DEF Dates
    <3>2. PICK n \in Int : n > 0 /\ Said(t, "nbf") = {n} /\ numericDate(t.payload, "nbf").at = Truncated(n)
      BY <1>3, <1>10, <3>1, DateAsSaid DEF Dates
    <3>3. n < (at + ClockSkew + 1) * Scale
      BY <2>1, <3>1, <3>2, PastInParts
    <3> QED
      BY <3>2, <3>3
  <2> QED
    BY <2>2, <2>3
<1>14. Alg(t) \in allowList
  BY DEF Accepts
<1>15. Unambiguous(t.header) /\ Unambiguous(t.payload)
  BY <1>3, CheckMeans, TokensAssumption
<1>16. Statement[t].fair
  <2>1. Fair(t)
    BY <1>3, <1>5, <1>6, <1>7, <1>8, <1>9, <1>11, <1>12, <1>14, <1>15 DEF Fair
  <2> QED
    BY <2>1, StatementMeans
<1>17. \E k \in Range(found) : k.pair = t.signature.by /\ MaySign(k, t)
  <2>1. MaySign(found[i], t)
    BY <1>4, <1>5 DEF MaySign, usableWith
  <2> QED
    BY <1>5, <2>1 DEF Range
<1>18. InTime(t, at)
  BY <1>11, <1>12, <1>13, StatementMeans DEF InTime
<1> QED
  BY <1>16, <1>17, <1>18 DEF Trustworthy

(* The header of a token that names its key is read as it was written.     *)
LEMMA PlainHeaderIsRead ==
  ASSUME NEW t \in Tokens, checkJSONObject(t.header), Named(t.header, "crit") = {},
         NamesItsKey(t), t.signature.scheme \in allowList,
         NEW kid \in {t.header[q].text : q \in Named(t.header, "kid")}
  PROVE  parseHeader(t.header) /\ Alg(t) = t.signature.scheme /\ KidOf(t) = kid
<1>1. <<>> \in DOMAIN t.header
  BY TokensAssumption DEF IsJSON
<1>2. /\ Has(t.header, "alg") /\ At(t.header, "alg") \in Named(t.header, "alg")
      /\ Has(t.header, "kid") /\ Named(t.header, "kid") = {At(t.header, "kid")}
      /\ Has(t.header, "typ") => At(t.header, "typ") \in Named(t.header, "typ")
  <2>1. Has(t.header, "alg") /\ Has(t.header, "kid")
    BY DEF NamesItsKey, Has
  <2>2. /\ Named(t.header, "alg") = {At(t.header, "alg")}
        /\ Named(t.header, "kid") = {At(t.header, "kid")}
        /\ Has(t.header, "typ") => Named(t.header, "typ") = {At(t.header, "typ")}
    BY <1>1, <2>1, OnlyMember
  <2> QED
    BY <2>1, <2>2
<1>3. Get(t.header, "alg").is = "string" /\ Get(t.header, "alg").text = t.signature.scheme
  BY <1>2 DEF NamesItsKey, Get
<1>4. Get(t.header, "kid").is = "string" /\ Get(t.header, "kid").text # "" /\ Get(t.header, "kid").text = kid
  BY <1>2 DEF NamesItsKey, Get
<1>5. Has(t.header, "typ") => Get(t.header, "typ").is \in {"string", "null"}
  BY <1>2 DEF NamesItsKey, Get
<1>6. t.signature.scheme # ""
  BY AllowedIsSupported
<1>7. /\ headerString(t.header, "alg", TRUE) /\ headerString(t.header, "kid", TRUE)
      /\ headerString(t.header, "typ", FALSE)
  BY <1>2, <1>3, <1>4, <1>5, <1>6 DEF headerString
<1> QED
  BY <1>3, <1>4, <1>7 DEF parseHeader, Alg, KidOf, Has

(* Claims of their types are read without an error.                        *)
LEMMA WellTypedIsRead ==
  ASSUME NEW t \in Tokens, checkJSONObject(t.payload), WellTyped(t)
  PROVE  /\ \A name \in {"iss", "sub", "jti"} : stringClaim(t.payload, name).ok
         /\ audienceClaim(t.payload).ok
         /\ \A d \in Dates : numericDate(t.payload, d).ok
<1>1. <<>> \in DOMAIN t.payload
  BY TokensAssumption DEF IsJSON
<1>2. \A name : Has(t.payload, name) =>
        At(t.payload, name) \in Named(t.payload, name) /\ At(t.payload, name) \in DOMAIN t.payload
  BY <1>1, OnlyMember DEF Named, Members
<1>3. \A name \in {"iss", "sub", "jti"} : stringClaim(t.payload, name).ok
  BY <1>2 DEF WellTyped, stringClaim, Get
<1>4. audienceClaim(t.payload).ok
  <2>1. CASE ~Has(t.payload, "aud")
    BY <2>1 DEF audienceClaim
  <2>2. CASE Has(t.payload, "aud")
    <3> DEFINE q == At(t.payload, "aud")
    <3>1. \/ t.payload[q].is = "string"
          \/ t.payload[q].is = "array" /\ \A r \in Members(t.payload, q) : t.payload[r].is = "string"
      BY <1>2, <2>2 DEF WellTyped
    <3> QED
      BY <2>2, <3>1 DEF audienceClaim, Get, Elements
  <2> QED
    BY <2>1, <2>2
<1>5. \A d \in Dates : numericDate(t.payload, d).ok
  <2>1. ASSUME NEW d \in Dates, Has(t.payload, d)
        PROVE  LET v == Get(t.payload, d) IN
               v.is = "number" /\ v.num > 0 /\ v.num <= maxNumericDate * Scale
    <3>1. /\ t.payload[At(t.payload, d)].is = "number"
          /\ 0 < t.payload[At(t.payload, d)].num
          /\ t.payload[At(t.payload, d)].num <= maxNumericDate * Scale
      BY <1>2, <2>1 DEF WellTyped
    <3> QED
      BY <3>1 DEF Get
  <2> QED
    BY <2>1 DEF numericDate
<1> QED
  BY <1>3, <1>4, <1>5

(* The other way round: a faultless token is accepted.                     *)
LEMMA FaultlessIsAccepted ==
  ASSUME NEW t \in Tokens, NEW kid, NEW found, NEW at \in Nat, Faultless(t, kid, found, at)
  PROVE  Accepts(t, kid, found, at)
<1>1. /\ Shallow(t.header) /\ Shallow(t.payload) /\ WellTyped(t) /\ NamesItsKey(t)
      /\ kid \in {t.header[q].text : q \in Named(t.header, "kid")}
      /\ Fair(t) /\ InTime(t, at) /\ InTime(t, at + 1)
  BY StatementMeans DEF Faultless, Trustworthy
<1>2. checkJSONObject(t.header) /\ checkJSONObject(t.payload)
  BY <1>1, CheckMeans, TokensAssumption DEF Fair
<1>3. parseHeader(t.header) /\ Alg(t) = t.signature.scheme /\ KidOf(t) = kid
  BY <1>1, <1>2, PlainHeaderIsRead DEF Fair
<1>4. t \in DOMAIN decodeClaims
  <2>1. parseCompact(t)
    BY <1>1, <1>2, <1>3 DEF parseCompact, Fair
  <2> QED
    BY <2>1 DEF decodeClaims
<1> DEFINE c == decodeClaims[t]
<1>5. /\ c.iss = stringClaim(t.payload, "iss") /\ c.sub = stringClaim(t.payload, "sub")
      /\ c.jti = stringClaim(t.payload, "jti") /\ c.aud = audienceClaim(t.payload)
      /\ \A d \in Dates : c.date[d] = numericDate(t.payload, d)
  BY <1>4, ClaimsRead
<1> HIDE DEF c
<1>6. /\ \A name \in {"iss", "sub", "jti"} : stringClaim(t.payload, name).ok
      /\ audienceClaim(t.payload).ok
      /\ \A d \in Dates : numericDate(t.payload, d).ok
  BY <1>1, <1>2, WellTypedIsRead
<1>7. Decoded(c)
  BY <1>5, <1>6 DEF Decoded
<1>8. c.iss.text = Issuer
  <2>1. Texts(t, "iss") = {Issuer}
    BY <1>1 DEF Fair
  <2>2. \/ c.iss.text = "" /\ Texts(t, "iss") \in {{}, {""}}
        \/ Texts(t, "iss") = {c.iss.text}
    BY <1>2, <1>5, <1>6, StringAsSaid
  <2> QED
    BY <2>1, <2>2, IssuerIsNamed
<1>9. c.aud.list \cap Audiences # {}
  BY <1>1, <1>2, <1>5, <1>6, AudienceAsSaid DEF Fair
<1>10. (RequireSubject => c.sub.text # "") /\ (RequireJTI => c.jti.text # "")
  BY <1>1, <1>2, <1>5, <1>6, StringAsSaid DEF Fair
<1>11. c.date["exp"].set /\ at < c.date["exp"].at + ClockSkew
  <2>1. PICK n \in Int : n > 0 /\ Said(t, "exp") = {n} /\ c.date["exp"].set /\ c.date["exp"].at = Truncated(n)
    <3>1. Said(t, "exp") # {}
      BY <1>1 DEF Fair
    <3>2. numericDate(t.payload, "exp").ok /\ c.date["exp"] = numericDate(t.payload, "exp")
      BY <1>5, <1>6 DEF Dates
    <3> QED
      BY <1>2, <3>1, <3>2, DateAsSaid
  <2>2. (at + 1) * Scale < n + ClockSkew * Scale
    BY <1>1, <2>1, StatementMeans DEF InTime
  <2> QED
    BY <2>1, <2>2, BeforeInParts
<1>12. c.date["iat"].set /\ c.date["iat"].at <= at + ClockSkew
  <2>1. PICK n \in Int : n > 0 /\ Said(t, "iat") = {n} /\ c.date["iat"].set /\ c.date["iat"].at = Truncated(n)
    <3>1. Said(t, "iat") # {}
      BY <1>1 DEF Fair
    <3>2. numericDate(t.payload, "iat").ok /\ c.date["iat"] = numericDate(t.payload, "iat")
      BY <1>5, <1>6 DEF Dates
    <3> QED
      BY <1>2, <3>1, <3>2, DateAsSaid
  <2>2. n < (at + ClockSkew + 1) * Scale
    BY <1>1, <2>1, StatementMeans DEF InTime
  <2> QED
    BY <2>1, <2>2, PastInParts
<1>13. ASSUME c.date["nbf"].set PROVE c.date["nbf"].at <= at + ClockSkew
  <2>1. PICK n \in Int : n > 0 /\ Said(t, "nbf") = {n} /\ c.date["nbf"].at = Truncated(n)
    BY <1>2, <1>5, <1>6, <1>13, DateAsSaid DEF Dates
  <2>2. n < (at + ClockSkew + 1) * Scale
    BY <1>1, <2>1, StatementMeans DEF InTime
  <2> QED
    BY <2>1, <2>2, PastInParts
<1>14. validate(c, at)
  BY <1>8, <1>9, <1>10, <1>11, <1>12, <1>13 DEF validate
<1>15. Alg(t) \in allowList
  BY <1>1, <1>3 DEF Fair
<1>16. \E i \in DOMAIN found :
         /\ usableWith(found[i], Alg(t))
         /\ \A j \in DOMAIN found : j < i => ~usableWith(found[j], Alg(t))
         /\ verifySignature(found[i], t, Alg(t))
  <2>1. PICK i \in DOMAIN found : /\ found[i].pair = t.signature.by /\ MaySign(found[i], t)
                                  /\ \A j \in DOMAIN found : j < i => ~MaySign(found[j], t)
    BY DEF Faultless
  <2>2. \A k : usableWith(k, Alg(t)) <=> MaySign(k, t)
    BY <1>3 DEF usableWith, MaySign
  <2>3. verifySignature(found[i], t, Alg(t))
    BY <1>1, <1>3, <2>1 DEF verifySignature, Fair
  <2> QED
    BY <2>1, <2>2, <2>3
<1> QED
  BY <1>3, <1>4, <1>7, <1>14, <1>15, <1>16 DEF Accepts, c

(* For every set of tokens, every configuration and every depth of         *)
(* documents, what Verify accepts once the cache has answered is           *)
(* trustworthy, and what the issuer signs without a fault is accepted.     *)
THEOREM TokensAreVerified == Spec => []TokensVerified
<1>1. TypeOK => TokensVerified
  <2> SUFFICES ASSUME now \in Nat, NEW p \in Proc, NEW found, NEW t \in Tokens
               PROVE  /\ Accepts(t, call[p].kid, found, now) => Trustworthy(t, found, now)
                      /\ Faultless(t, call[p].kid, found, now) => Accepts(t, call[p].kid, found, now)
    BY DEF TypeOK, TokensVerified
  <2> QED
    BY AcceptedIsTrustworthy, FaultlessIsAccepted
<1> QED
  BY <1>1, TypeCorrect, PTL
=============================================================================
