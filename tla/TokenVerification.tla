------------------------- MODULE TokenVerification -------------------------
(***************************************************************************)
(* What Verify (oidc/verifier.go, oidc/jws.go) does with a token once the  *)
(* cache has returned the keys of its kid: the strict reading of the       *)
(* compact serialization, the choice of the key, the signature and the     *)
(* claims.  KeyCache's Return(p) is this judgement; the clock it reads is  *)
(* that of the step, later than the one lookup read.                       *)
(*                                                                         *)
(* A JSON document is a function from paths to values: a path is the       *)
(* sequence of the positions that lead to a value, and a value is its      *)
(* name, which is empty in an array, its type, and its text or number.  A  *)
(* number counts the parts of a unit of the clock, Scale to the unit.  A   *)
(* signature is the key pair and scheme that made it, and whether it       *)
(* covers the two segments it comes with.                                  *)
(***************************************************************************)
EXTENDS KeyCache, Integers

CONSTANTS
  Tokens,              \* what Verify may be called with
  Algorithms,          \* Config.Algorithms
  Issuer, Audiences, ClockSkew, RequireSubject, RequireJTI,
  maxJSONDepth, maxNumericDate,
  Scale                \* parts of a clock unit that a date can tell apart

(* New's checks of the issuer, the audiences, the skew (0 stands for the   *)
(* default) and, in allowList, the algorithms.                             *)
ASSUME ConfigAssumption ==
  /\ Algorithms \subseteq DOMAIN supportedAlgorithms
  /\ Issuer # "" /\ Audiences # {} /\ "" \notin Audiences
  /\ ClockSkew \in Nat \ {0}
  /\ RequireSubject \in BOOLEAN /\ RequireJTI \in BOOLEAN
  /\ maxJSONDepth \in Nat \ {0} /\ maxNumericDate \in Nat /\ Scale \in Nat \ {0}

Containers == {"object", "array"}

Value == [name : STRING, is : Containers \cup {"string", "number", "boolean", "null"},
          text : STRING, num : Int]

(* What a text that encoding/json can read stands for: a finite tree whose *)
(* inner nodes are containers.  Go reads null into a string as no change.  *)
IsJSON(doc) ==
  /\ IsFiniteSet(DOMAIN doc) /\ DOMAIN doc \subseteq Seq(Nat) /\ <<>> \in DOMAIN doc
  /\ \A p \in DOMAIN doc : doc[p] \in Value /\ (doc[p].is # "string" => doc[p].text = "")
  /\ \A p \in DOMAIN doc \ {<<>>} : Front(p) \in DOMAIN doc /\ doc[Front(p)].is \in Containers

ASSUME TokensAssumption == \A t \in Tokens : IsJSON(t.header) /\ IsJSON(t.payload)

-----------------------------------------------------------------------------
(* Reading.                                                                *)

Members(doc, p) == {q \in DOMAIN doc \ {<<>>} : Front(q) = p}

Named(doc, name) == {q \in Members(doc, <<>>) : doc[q].name = name}

Has(doc, name) == Named(doc, name) # {}

(* encoding/json: the last member of a name is the one read.               *)
At(doc, name) == CHOOSE q \in Named(doc, name) : \A r \in Named(doc, name) \ {q} : Last(r) < Last(q)

Get(doc, name) == doc[At(doc, name)]

walkObject(doc, p) == \A q, r \in Members(doc, p) : doc[q].name = doc[r].name => q = r

(* The value at path p is Len(p) containers deep.                          *)
walkValue(doc, p) ==
  /\ doc[p].is \in Containers => Len(p) < maxJSONDepth
  /\ doc[p].is = "object" => walkObject(doc, p)

(* The walk comes to every value unless it stops at one.                   *)
checkJSONObject(doc) == doc[<<>>].is = "object" /\ \A p \in DOMAIN doc : walkValue(doc, p)

headerString(header, name, required) ==
  IF Has(header, name)
  THEN Get(header, name).is \in {"string", "null"} /\ (required => Get(header, name).text # "")
  ELSE ~required

parseHeader(header) ==
  /\ checkJSONObject(header)
  /\ ~Has(header, "crit")
  /\ headerString(header, "alg", TRUE)
  /\ headerString(header, "kid", TRUE)
  /\ headerString(header, "typ", FALSE)

(* Three canonical segments in bounds, and what they decode to.            *)
parseCompact(t) ==
  /\ t.canonical
  /\ parseHeader(t.header)
  /\ checkJSONObject(t.payload)

(* A claim is read, ok or not, as its value; an absent one as Go's zero.   *)
stringClaim(claims, name) ==
  IF Has(claims, name)
  THEN [ok |-> Get(claims, name).is = "string", text |-> Get(claims, name).text]
  ELSE [ok |-> TRUE, text |-> ""]

Elements(claims, name) == Members(claims, At(claims, name))

audienceClaim(claims) ==
  LET type == IF Has(claims, "aud") THEN Get(claims, "aud").is ELSE "null" IN
  IF type = "array"
  THEN [ok   |-> \A q \in Elements(claims, "aud") : claims[q].is = "string",
        list |-> {claims[q].text : q \in Elements(claims, "aud")}]
  ELSE [ok   |-> type \in {"null", "string"},
        list |-> IF type = "string" THEN {Get(claims, "aud").text} ELSE {}]

Truncated(n) == n \div Scale

numericDate(claims, name) ==
  IF ~Has(claims, name) THEN [ok |-> TRUE, set |-> FALSE, at |-> 0]
  ELSE LET v == Get(claims, name)
           valid == v.is = "number" /\ v.num > 0 /\ v.num <= maxNumericDate * Scale
       IN  [ok |-> valid, set |-> valid, at |-> Truncated(v.num)]

Dates == {"exp", "iat", "nbf"}

(* Read once per token: it does not depend on the state.                   *)
decodeClaims ==
  [t \in {u \in Tokens : parseCompact(u)} |->
     [iss |-> stringClaim(t.payload, "iss"), sub |-> stringClaim(t.payload, "sub"),
      jti |-> stringClaim(t.payload, "jti"), aud |-> audienceClaim(t.payload),
      date |-> [d \in Dates |-> numericDate(t.payload, d)]]]

Decoded(c) == c.iss.ok /\ c.sub.ok /\ c.jti.ok /\ c.aud.ok /\ \A d \in Dates : c.date[d].ok

-----------------------------------------------------------------------------
(* The key, the signature, the claims.                                     *)

(* A variant with a plausible mistake: the alg a JWK pins does not count.  *)
OfItsType(k, alg) == k.type = supportedAlgorithms[alg]

usableWith(k, alg) == k.alg \in {"absent", alg} /\ k.type = supportedAlgorithms[alg]

verifySignature(k, t, alg) ==
  t.signature.over /\ t.signature.by = k.pair /\ t.signature.scheme = alg

validate(c, at) ==
  /\ c.iss.text = Issuer
  /\ c.aud.list \cap Audiences # {}
  /\ c.date["exp"].set /\ c.date["iat"].set
  /\ at < c.date["exp"].at + ClockSkew
  /\ c.date["iat"].at <= at + ClockSkew
  /\ c.date["nbf"].set => c.date["nbf"].at <= at + ClockSkew
  /\ RequireSubject => c.sub.text # ""
  /\ RequireJTI => c.jti.text # ""

allowList == IF Algorithms = {} THEN {"RS256"} ELSE Algorithms

Alg(t) == Get(t.header, "alg").text
KidOf(t) == Get(t.header, "kid").text

(* Verify, given the keys that lookup found for kid: the first of them     *)
(* that may verify the algorithm is the one tried.                         *)
Accepts(t, kid, found, at) ==
  /\ t \in DOMAIN decodeClaims
  /\ Alg(t) \in allowList
  /\ KidOf(t) = kid
  /\ \E i \in DOMAIN found :
       /\ usableWith(found[i], Alg(t))
       /\ \A j \in DOMAIN found : j < i => ~usableWith(found[j], Alg(t))
       /\ verifySignature(found[i], t, Alg(t))
  /\ Decoded(decodeClaims[t])
  /\ validate(decodeClaims[t], at)

-----------------------------------------------------------------------------
(* What a relying party may count on, said without the code's readings of  *)
(* a document: over all members of a name, in parts of a unit.             *)

(* No two parsers disagree about what the document says: as many members   *)
(* of an object as names.                                                  *)
Unambiguous(doc) ==
  \A p \in DOMAIN doc :
    doc[p].is = "object" => Cardinality({doc[q].name : q \in Members(doc, p)}) = Cardinality(Members(doc, p))

(* The moments, in parts of a unit, at which some member of that name is a *)
(* date.                                                                   *)
Said(t, name) == {t.payload[q].num : q \in {r \in Named(t.payload, name) : t.payload[r].is = "number"}}

(* The strings that some member of that name is, or is a list of.          *)
Texts(t, name) ==
  {t.payload[q].text :
     q \in {r \in Named(t.payload, name) \cup UNION {Members(t.payload, n) : n \in Named(t.payload, name)} :
              t.payload[r].is = "string"}}

(* One reading, for this service.                                          *)
Fair(t) ==
  /\ Unambiguous(t.header) /\ Unambiguous(t.payload) /\ t.canonical
  /\ Named(t.header, "crit") = {}
  /\ t.signature.over /\ t.signature.scheme \in allowList
  /\ Texts(t, "iss") = {Issuer} /\ Texts(t, "aud") \cap Audiences # {}
  /\ RequireSubject => Texts(t, "sub") \notin {{}, {""}}
  /\ RequireJTI => Texts(t, "jti") \notin {{}, {""}}
  /\ Said(t, "exp") # {} /\ Said(t, "iat") # {}

(* A document whose objects and arrays stay within the depth.              *)
Shallow(doc) ==
  doc[<<>>].is = "object" /\ \A p \in DOMAIN doc : doc[p].is \in Containers => Len(p) < maxJSONDepth

(* Every claim is of the type that RFC 7519 gives it.                      *)
WellTyped(t) ==
  /\ \A name \in {"iss", "sub", "jti"}, q \in DOMAIN t.payload :
       q \in Named(t.payload, name) => t.payload[q].is = "string"
  /\ \A q \in Named(t.payload, "aud") :
       \/ t.payload[q].is = "string"
       \/ t.payload[q].is = "array" /\ \A r \in Members(t.payload, q) : t.payload[r].is = "string"
  /\ \A name \in Dates, q \in DOMAIN t.payload :
       q \in Named(t.payload, name) =>
         /\ t.payload[q].is = "number"
         /\ 0 < t.payload[q].num /\ t.payload[q].num <= maxNumericDate * Scale

(* The header names the scheme and, being text, the key that signed.       *)
NamesItsKey(t) ==
  /\ Named(t.header, "alg") # {} /\ Named(t.header, "kid") # {}
  /\ \A q \in Named(t.header, "alg") : t.header[q].is = "string" /\ t.header[q].text = t.signature.scheme
  /\ \A q \in Named(t.header, "kid") : t.header[q].is = "string" /\ t.header[q].text # ""
  /\ \A q \in Named(t.header, "typ") : t.header[q].is \in {"string", "null"}

(* Said once per token, for it does not depend on the state.               *)
Statement ==
  [t \in Tokens |->
     [fair |-> Fair(t),
      plain |-> Shallow(t.header) /\ Shallow(t.payload) /\ WellTyped(t) /\ NamesItsKey(t),
      kids |-> {t.header[q].text : q \in Named(t.header, "kid")},
      exp |-> Said(t, "exp"), begin |-> Said(t, "iat") \cup Said(t, "nbf")]]

(* exp to the part, and iat and nbf to the unit.                           *)
InTime(t, at) ==
  /\ \A n \in Statement[t].exp : at * Scale < n + ClockSkew * Scale
  /\ \A n \in Statement[t].begin : n < (at + ClockSkew + 1) * Scale

MaySign(k, t) == k.type = supportedAlgorithms[t.signature.scheme] /\ k.alg \in {"absent", t.signature.scheme}

(* Signed by one of the keys as its JWK allows, for this service, and in   *)
(* time.                                                                   *)
Trustworthy(t, found, at) ==
  /\ Statement[t].fair
  /\ \E k \in Range(found) : k.pair = t.signature.by /\ MaySign(k, t)
  /\ InTime(t, at)

(* An issuer's token as it should be, at a time no rounding matters for,   *)
(* made with the first of the keys of its kid that could have made it.     *)
Faultless(t, kid, found, at) ==
  /\ Statement[t].plain /\ kid \in Statement[t].kids
  /\ InTime(t, at + 1)
  /\ \E i \in DOMAIN found :
       /\ found[i].pair = t.signature.by /\ MaySign(found[i], t)
       /\ \A j \in DOMAIN found : j < i => ~MaySign(found[j], t)
  /\ Trustworthy(t, found, at)

(* Verify accepts only tokens an issuer's key of this set signed for this  *)
(* service and whose time has come and not passed, by the clock of the     *)
(* moment it answers, whatever document it is handed; and it does accept   *)
(* what the issuer signs, whichever later keys share the kid.              *)
TokensVerified ==
  \A p \in Proc : call[p].pc = "answered" /\ call[p].answer = "keys" =>
    LET found == OfKid[call[p].found][call[p].kid] IN
    \A t \in Tokens :
      /\ Accepts(t, call[p].kid, found, now) => Trustworthy(t, found, now)
      /\ Faultless(t, call[p].kid, found, now) => Accepts(t, call[p].kid, found, now)
=============================================================================
