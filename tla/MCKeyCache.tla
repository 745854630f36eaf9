---------------------------- MODULE MCKeyCache ----------------------------
(* KeyCache, and the tokens its callers verify, on a small instance.       *)
EXTENDS TokenVerification

(* One unit is 15 s, and the longer spans are cut short in their order:    *)
(* FetchTimeout < MinRefreshInterval < MinKeySetTTL < MaxStale; a TTL may  *)
(* be longer than MaxStale.                                                *)
Key(kid, pair, type, alg) ==
  [kid |-> kid, pair |-> pair, use |-> "sig", key_ops |-> "absent", type |-> type, alg |-> alg, sound |-> TRUE]

(* Four keys of one kid, of which one may not verify: the issuer withdraws *)
(* them together.                                                          *)
Shared == <<[Key("k1", "e", "RSA", "absent") EXCEPT !.use = "enc"], Key("k1", "a", "RSA", "RS256"),
            Key("k1", "b", "RSA", "absent"), Key("k1", "c", "P-256", "ES256")>>
Others == <<Key("k2", "a", "RSA", "absent"), [Key("k1", "w", "RSA", "absent") EXCEPT !.sound = FALSE]>>
TwoSets == [shared |-> Shared, others |-> Others]

Directive(name, secs) == [name |-> name, secs |-> secs]
ShortAndLong == {<<Directive("max-age", 9), Directive("no-store", 0)>>,
                 <<Directive("max-age", 1), Directive("max-age", 9)>>}

Leaf(type, text, num) == [p \in {<<>>} |-> [name |-> "", is |-> type, text |-> text, num |-> num]]
Text(s) == Leaf("string", s, 0)
Number(n) == Leaf("number", "", n)
Null == Leaf("null", "", 0)
Member(name, doc) == [doc EXCEPT ![<<>>].name = name]
Nest(type, members) ==
  [p \in {<<>>} \cup UNION {{<<i>> \o q : q \in DOMAIN members[i]} : i \in DOMAIN members} |->
     IF p = <<>> THEN Leaf(type, "", 0)[p] ELSE members[Head(p)][Tail(p)]]
Obj(members) == Nest("object", members)
Array(docs) == Nest("array", docs)
Str(name, s) == Member(name, Text(s))
Date(name, n) == Member(name, Number(n))

RS256 == <<Str("alg", "RS256"), Str("kid", "k1")>>
PS256 == <<Str("alg", "PS256"), Str("kid", "k1")>>
ES256 == <<Str("alg", "ES256"), Str("kid", "k1")>>
ES384 == <<Str("alg", "ES384"), Str("kid", "k1")>>
By(pair, scheme) == [by |-> pair, scheme |-> scheme, over |-> TRUE]

Who == <<Str("iss", "us"), Str("aud", "svc"), Str("sub", "job")>>
Untimed == Who \o <<Date("iat", 2)>>
When(exp) == Untimed \o <<Date("exp", exp)>>

Tok(header, claims, signature) ==
  [canonical |-> TRUE, header |-> Obj(header), payload |-> Obj(claims), signature |-> signature]

Act(members) == Member("act", Array(<<Obj(members)>>))

Good == When(8)
KeyTokens ==
  {Tok(RS256, Good, By("a", "RS256")), Tok(RS256, Good, By("b", "RS256")),
   Tok(PS256, Good, By("a", "PS256")), Tok(PS256, Good, By("b", "PS256")),
   Tok(ES256, Good, By("c", "ES256")), Tok(ES256, Good, By("c", "DER")),
   Tok(ES384, Good, By("c", "ES384")), Tok(PS256, Good, By("b", "RS256")),
   Tok(RS256, Good, [By("a", "RS256") EXCEPT !.over = FALSE])}
HeaderTokens ==
  {Tok(RS256 \o <<Str("crit", "b64")>>, Good, By("a", "RS256")),
   Tok(RS256 \o <<Str("alg", "PS256")>>, Good, By("a", "RS256")),
   Tok(<<Str("alg", "RS256"), Member("kid", Null)>>, Good, By("a", "RS256")),
   Tok(RS256 \o <<Member("typ", Null)>>, Good, By("a", "RS256")),
   [Tok(RS256, Good, By("a", "RS256")) EXCEPT !.canonical = FALSE]}
TimeTokens ==
  {Tok(RS256, Untimed \o m, By("a", "RS256")) :
     m \in {<<Date("exp", e)>> : e \in {3, 5, 6}}
           \cup {<<Date("exp", 10), Date("nbf", n)>> : n \in {9, 10}}}
  \cup {Tok(RS256, Who \o m, By("a", "RS256")) :
     m \in {<<Date("iat", 2), Date("exp", 0)>>, <<Date("iat", 2), Date("exp", 99)>>,
            <<Date("iat", 2), Str("exp", "8")>>, <<Date("exp", 8)>>,
            <<Date("iat", 2), Date("exp", 8), Date("exp", 4)>>}}
ClaimTokens ==
  {Tok(RS256, m \o <<Date("iat", 2), Date("exp", 8)>>, By("a", "RS256")) :
     m \in {<<Str("iss", "them"), Str("aud", "svc"), Str("sub", "job")>>,
            <<Str("iss", "us"), Str("aud", "other"), Str("sub", "job")>>,
            <<Str("iss", "us"), Str("aud", "svc"), Str("sub", "")>>,
            <<Str("iss", "us"), Str("sub", "job"), Member("aud", Array(<<Text("other"), Text("svc")>>))>>,
            Who \o <<Act(<<Str("x", "1"), Str("y", "1")>>)>>,
            Who \o <<Member("act", Array(<<Array(<<Obj(<<>>)>>)>>))>>,
            Who \o <<Act(<<Str("x", "1"), Str("x", "2")>>)>>,
            Who \o <<Member("act", Array(<<Array(<<Array(<<Obj(<<>>)>>)>>)>>))>>,
            <<Str("iss", "us"), Member("aud", Null), Str("sub", "job")>>,
            <<Str("iss", "us"), Str("sub", "job"), Member("aud", Array(<<Text("svc"), Number(1)>>))>>}}
AllTokens == KeyTokens \cup HeaderTokens \cup TimeTokens \cup ClaimTokens
===========================================================================
