-------------------------- MODULE MagicLinksProofs --------------------------
(***************************************************************************)
(* What MagicLinks guarantees for every set of goroutines, addresses and   *)
(* tokens, every lifetime of a link and any number of failures, over each  *)
(* kind of repository.                                                     *)
(***************************************************************************)
EXTENDS MagicLinks, TLAPS

-----------------------------------------------------------------------------
(* The inductive invariant.                                                *)

Issuing == {"invalidate", "issue", "commit", "save"}

(* A link under issue is not stored yet, one presented is; rows that an    *)
(* UPDATE found are in the table.                                          *)
FrameOK(c) ==
  /\ c.pc \in Issuing => c.token \in drawn \ stored
  /\ c.pc \in {"check", "mark"} => c.token \in stored
  /\ c.rows \subseteq stored
  /\ c.pc = "commit" => kind = "readCommitted"
  /\ c.pc \in {"invalidate", "save"} => kind = "plain"

(* No token is drawn twice.                                                *)
PendingApart ==
  \A p, q \in Proc :
    p # q /\ call[p].pc \in Issuing /\ call[q].pc \in Issuing => call[p].token # call[q].token

TypeInv ==
  /\ TypeOK
  /\ \A p \in Proc : FrameOK(call[p])
  /\ PendingApart

(* Consume succeeded for links that are consumed, and once.                *)
RedeemedOK == \A t \in Token : redeemed[t] <= 1 /\ (redeemed[t] > 0 => t \in consumed)

(* Every link that is consumed has its reason.                             *)
ReasonsOK == kind # "plain" => \A t \in consumed : redeemed[t] > 0 \/ t \in replaced \cup unsure

Inv == TypeInv /\ RedeemedOK /\ OnlyNewestRedeemableSerial /\ ReasonsOK

LEMMA InvInit == Init => Inv
<1> SUFFICES ASSUME Init PROVE Inv
  OBVIOUS
<1>1. TypeInv
  BY ConstantsAssumption DEF Init, TypeInv, TypeOK, FrameOK, PendingApart, Issuing, drawn, Idle, Frame
<1>2. RedeemedOK /\ OnlyNewestRedeemableSerial /\ ReasonsOK
  BY DEF Init, RedeemedOK, OnlyNewestRedeemableSerial, OnlyNewestRedeemable, live, ReasonsOK
<1> QED
  BY <1>1, <1>2 DEF Inv

-----------------------------------------------------------------------------
(* The frames after a step of p that leaves the frame fr and stores at     *)
(* most the link p was issuing.                                            *)
LEMMA FramesInv ==
  ASSUME TypeInv, NEW p \in Proc, NEW fr \in Frame, call' = [call EXCEPT ![p] = fr],
         kind' = kind, drawn \subseteq drawn', stored \subseteq stored',
         \A t \in stored' \ stored : call[p].pc \in Issuing /\ t = call[p].token,
         FrameOK(fr)',
         fr.pc \in Issuing => \/ fr.token \notin drawn
                              \/ call[p].pc \in Issuing /\ fr.token = call[p].token
  PROVE  /\ call' \in [Proc -> Frame]
         /\ \A q \in Proc : FrameOK(call[q])'
         /\ PendingApart'
<1>1. call' \in [Proc -> Frame] /\ call'[p] = fr /\ \A q \in Proc \ {p} : call'[q] = call[q]
  BY DEF TypeInv, TypeOK
<1>2. ASSUME NEW q \in Proc \ {p} PROVE FrameOK(call[q])'
  <2>1. PICK c \in Frame : c = call[q] /\ c = call'[q]
    BY <1>1 DEF TypeInv, TypeOK
  <2>2. FrameOK(c)
    BY <2>1 DEF TypeInv
  <2>3. c.pc \in Issuing => c.token \notin stored'
    BY <2>1, <2>2 DEF TypeInv, PendingApart, FrameOK
  <2>4. FrameOK(c)'
    BY <2>2, <2>3 DEF FrameOK
  <2> QED
    BY <2>1, <2>4
<1>3. FrameOK(call[p])'
  BY <1>1
<1>4. PendingApart'
  <2>1. \A q \in Proc \ {p} : call[q].pc \in Issuing /\ fr.pc \in Issuing => call[q].token # fr.token
    BY DEF TypeInv, FrameOK, PendingApart
  <2> QED
    BY <1>1, <2>1 DEF TypeInv, PendingApart
<1> QED
  BY <1>1, <1>2, <1>3, <1>4

(* The links that exist are looked at only.                                *)
LEMMA QuietInv ==
  ASSUME Inv, NEW p \in Proc, NEW fr \in Frame, call' = [call EXCEPT ![p] = fr],
         UNCHANGED <<kind, now, link, table, handed, redeemed, replaced>>,
         faults' \in 0..MaxFaults, unsure \subseteq unsure', unsure' \subseteq stored,
         FrameOK(fr), fr.pc \in Issuing => call[p].pc \in Issuing /\ fr.token = call[p].token
  PROVE  Inv'
<1>1. drawn' = drawn /\ stored' = stored /\ consumed' = consumed /\ FrameOK(fr)'
  BY DEF drawn, table, FrameOK
<1>2. call' \in [Proc -> Frame] /\ (\A q \in Proc : FrameOK(call[q])') /\ PendingApart'
  BY <1>1, FramesInv DEF Inv
<1>3. TypeInv'
  BY <1>1, <1>2 DEF drawn, Inv, TypeInv, TypeOK
<1>4. RedeemedOK' /\ OnlyNewestRedeemableSerial' /\ ReasonsOK'
  BY <1>1 DEF Inv, RedeemedOK, OnlyNewestRedeemableSerial, OnlyNewestRedeemable, live, ReasonsOK
<1> QED
  BY <1>3, <1>4 DEF Inv

LEMMA NewLinkInv == ASSUME Inv, NEW p \in Proc, NEW a \in Address, NewLink(p, a) PROVE Inv'
<1> DEFINE new == [address |-> a, expiresAt |-> now + TTL]
<1>0. PICK pc \in {"issue", "invalidate"} :
        /\ pc = IF kind = "plain" THEN "invalidate" ELSE "issue"
        /\ pc = "invalidate" => kind = "plain"
  OBVIOUS
<1>1. PICK t \in Token \ drawn :
        /\ link' = Put(link, t, new)
        /\ call' = [call EXCEPT ![p] = [Idle EXCEPT !.op = "Issue", !.token = t, !.pc = pc]]
  BY <1>0 DEF NewLink, Begin
<1>2. UNCHANGED <<kind, now, table, faults, handed, redeemed, unsure, replaced>>
  BY DEF NewLink
<1> DEFINE fr == [Idle EXCEPT !.op = "Issue", !.token = t, !.pc = pc]
<1>3. fr \in Frame /\ fr.pc = pc /\ fr.token = t /\ fr.rows = {}
  BY DEF Idle, Frame
<1>4. /\ drawn' = drawn \cup {t} /\ link'[t] = new /\ \A x \in drawn : link'[x] = link[x]
      /\ link' \in [drawn' -> [address : Address, expiresAt : Nat]]
  BY <1>1, ConstantsAssumption DEF Put, drawn, Inv, TypeInv, TypeOK
<1>5. stored' = stored /\ consumed' = consumed /\ t \notin stored
  BY <1>2 DEF table, Inv, TypeInv, TypeOK
<1>6. FrameOK(fr)'
  BY <1>0, <1>2, <1>3, <1>4, <1>5 DEF FrameOK, Issuing
<1>7. call' \in [Proc -> Frame] /\ (\A q \in Proc : FrameOK(call[q])') /\ PendingApart'
  BY <1>1, <1>2, <1>3, <1>4, <1>5, <1>6, FramesInv DEF Inv
<1>8. TypeInv'
  BY <1>2, <1>4, <1>5, <1>7 DEF Inv, TypeInv, TypeOK
<1>9. RedeemedOK' /\ ReasonsOK'
  BY <1>2, <1>5 DEF Inv, RedeemedOK, ReasonsOK
<1>10. OnlyNewestRedeemableSerial'
  BY <1>2, <1>4, <1>5 DEF Inv, TypeInv, TypeOK, OnlyNewestRedeemableSerial, OnlyNewestRedeemable, live
<1> QED
  BY <1>8, <1>9, <1>10 DEF Inv

(* Fewer links are live.                                                   *)
LEMMA FewerLive ==
  ASSUME OnlyNewestRedeemableSerial, kind' = kind, link' = link,
         stored' = stored, consumed \subseteq consumed'
  PROVE  OnlyNewestRedeemableSerial'
  BY DEF OnlyNewestRedeemableSerial, OnlyNewestRedeemable, live

(* The end of IssueAtomically, with the rows S that its UPDATE sets.       *)
LEMMA CommitInv ==
  ASSUME Inv, NEW p \in Proc, NEW t, NEW S, Commit(p, t, S),
         call[p].pc \in Issuing, t = call[p].token, S \subseteq stored \ consumed,
         kind = "serial" => S = Outstanding(link[t].address)
  PROVE  Inv'
<1>1. /\ UNCHANGED <<kind, now, link, redeemed>> /\ call' = [call EXCEPT ![p] = Idle]
      /\ \/ /\ stored' = stored \cup {t} /\ consumed' = consumed \cup S
            /\ \/ Done /\ Hand(t, S)
               \/ Lost /\ Forget(S)
         \/ Lost /\ UNCHANGED table /\ UNCHANGED <<handed, unsure, replaced>>
  BY DEF Commit, Return, Failed
<1>2. t \in drawn \ stored /\ t \in Token /\ t \notin consumed
  BY DEF Inv, TypeInv, TypeOK, FrameOK
<1>3. Idle \in Frame /\ FrameOK(Idle) /\ FrameOK(Idle)' /\ Idle.pc \notin Issuing
  BY DEF Idle, Frame, FrameOK, Issuing
<1>4. faults' \in 0..MaxFaults
  BY <1>1, ConstantsAssumption DEF Done, Lost, Inv, TypeInv, TypeOK
<1>5. CASE /\ stored' = stored \cup {t} /\ consumed' = consumed \cup S
           /\ \/ Done /\ Hand(t, S)
              \/ Lost /\ Forget(S)
  <2>1. /\ handed \subseteq handed' /\ handed' \subseteq handed \cup {t}
        /\ replaced \subseteq replaced' /\ replaced' \subseteq replaced \cup S
        /\ unsure \subseteq unsure' /\ unsure' \subseteq unsure \cup S
        /\ S \subseteq replaced' \cup unsure'
    BY <1>5 DEF Hand, Forget
  <2>2. call' \in [Proc -> Frame] /\ (\A q \in Proc : FrameOK(call[q])') /\ PendingApart'
    BY <1>1, <1>3, <1>5, FramesInv DEF Inv, drawn
  <2>3. TypeInv'
    BY <1>1, <1>2, <1>4, <1>5, <2>1, <2>2 DEF drawn, Inv, TypeInv, TypeOK
  <2>4. RedeemedOK' /\ ReasonsOK'
    BY <1>1, <1>5, <2>1 DEF Inv, RedeemedOK, ReasonsOK
  <2>5. OnlyNewestRedeemableSerial'
    <3> SUFFICES ASSUME kind = "serial", NEW x \in live', NEW y \in live', link[x].address = link[y].address
                 PROVE  x = y
      BY <1>1 DEF OnlyNewestRedeemableSerial, OnlyNewestRedeemable
    <3>1. \A z \in live' : z = t \/ (z \in live /\ z \notin S)
      BY <1>5 DEF live
    <3>2. \A z \in live \ S : link[z].address # link[t].address
      BY DEF Outstanding
    <3> QED
      BY <3>1, <3>2 DEF Inv, OnlyNewestRedeemableSerial, OnlyNewestRedeemable
  <2> QED
    BY <2>3, <2>4, <2>5 DEF Inv
<1>6. CASE UNCHANGED table /\ UNCHANGED <<handed, unsure, replaced>>
  BY <1>1, <1>3, <1>4, <1>6, QuietInv DEF Inv, TypeInv, TypeOK
<1> QED
  BY <1>1, <1>5, <1>6

LEMMA IssueInv == ASSUME Inv, NEW p \in Proc, IssueAtomically(p) \/ IssueCommits(p) PROVE Inv'
<1>1. CASE IssueAtomically(p)
  <2>1. PICK t, S : t = call[p].token /\ S = Outstanding(link[t].address)
    OBVIOUS
  <2>2. Commit(p, t, S) /\ call[p].pc \in Issuing
    BY <1>1, <2>1 DEF IssueAtomically, Issuing
  <2>3. S \subseteq stored \ consumed
    BY <2>1 DEF Outstanding, live
  <2> QED
    BY <2>1, <2>2, <2>3, CommitInv
<1>2. CASE IssueCommits(p)
  <2>1. PICK t, S : t = call[p].token /\ S = call[p].rows \ consumed
    OBVIOUS
  <2>2. Commit(p, t, S) /\ call[p].pc \in Issuing /\ kind = "readCommitted"
    BY <1>2, <2>1 DEF IssueCommits, Issuing, Inv, TypeInv, FrameOK
  <2>3. S \subseteq stored \ consumed
    BY <2>1 DEF Inv, TypeInv, FrameOK
  <2> QED
    BY <2>1, <2>2, <2>3, CommitInv
<1> QED
  BY <1>1, <1>2
LEMMA IssueSelectsInv == ASSUME Inv, NEW p \in Proc, IssueSelects(p) PROVE Inv'
<1>1. PICK c \in Frame : c = call[p]
  BY DEF Inv, TypeInv, TypeOK
<1>2. PICK S : S = Outstanding(link[c.token].address)
  OBVIOUS
<1>3. S \subseteq stored /\ S \subseteq Token
  BY <1>2 DEF Outstanding, live, Inv, TypeInv, TypeOK
<1>4. /\ c.pc = "issue" /\ kind = "readCommitted" /\ FrameOK(c)
      /\ call' = [call EXCEPT ![p] = [c EXCEPT !.pc = "commit", !.rows = S]]
      /\ UNCHANGED <<kind, now, link, table, faults, handed, redeemed, unsure, replaced>>
  BY <1>1, <1>2 DEF IssueSelects, Inv, TypeInv, TypeOK
<1> DEFINE fr == [c EXCEPT !.pc = "commit", !.rows = S]
<1>5. fr \in Frame /\ fr.pc = "commit" /\ fr.token = c.token /\ fr.rows = S
  BY <1>3 DEF Frame
<1>6. FrameOK(fr)
  BY <1>3, <1>4, <1>5 DEF FrameOK, Issuing
<1>7. call[p].pc \in Issuing /\ fr.token = call[p].token
  BY <1>1, <1>4, <1>5 DEF Issuing
<1> QED
  BY <1>4, <1>5, <1>6, <1>7, QuietInv DEF Inv, TypeInv, TypeOK

LEMMA InvalidateInv == ASSUME Inv, NEW p \in Proc, InvalidateOutstanding(p) PROVE Inv'
<1>1. PICK c \in Frame : c = call[p] /\ FrameOK(c)
  BY DEF Inv, TypeInv, TypeOK
<1>2. PICK S : S = Outstanding(link[c.token].address)
  OBVIOUS
<1>3. S \subseteq stored /\ S \subseteq Token
  BY <1>2 DEF Outstanding, live, Inv, TypeInv, TypeOK
<1>4. /\ c.pc = "invalidate" /\ kind = "plain"
      /\ UNCHANGED <<kind, now, link, handed, redeemed, replaced>>
      /\ \/ /\ consumed' = consumed \cup S /\ stored' = stored
            /\ \/ Done /\ call' = [call EXCEPT ![p] = [c EXCEPT !.pc = "save", !.rows = S]] /\ UNCHANGED unsure
               \/ Lost /\ call' = [call EXCEPT ![p] = Idle] /\ unsure' = unsure \cup S
         \/ Lost /\ UNCHANGED table /\ call' = [call EXCEPT ![p] = Idle] /\ UNCHANGED unsure
  BY <1>1, <1>2 DEF InvalidateOutstanding, Return, Failed, FrameOK, Inv, TypeInv, TypeOK
<1>5. faults' \in 0..MaxFaults
  BY <1>4, ConstantsAssumption DEF Done, Lost, Inv, TypeInv, TypeOK
<1>6. PICK fr \in Frame :
        /\ call' = [call EXCEPT ![p] = fr]
        /\ FrameOK(fr)
        /\ fr.pc \in Issuing => c.pc \in Issuing /\ fr.token = c.token
  <2>1. /\ Idle \in Frame /\ FrameOK(Idle) /\ Idle.pc \notin Issuing
        /\ [c EXCEPT !.pc = "save", !.rows = S] \in Frame
        /\ FrameOK([c EXCEPT !.pc = "save", !.rows = S])
        /\ c.pc \in Issuing /\ [c EXCEPT !.pc = "save", !.rows = S].token = c.token
    BY <1>1, <1>3, <1>4 DEF Idle, Frame, FrameOK, Issuing
  <2> QED
    BY <1>4, <2>1
<1>7. /\ stored' = stored /\ consumed \subseteq consumed' /\ consumed' \subseteq stored
      /\ unsure' \subseteq stored /\ drawn' = drawn
  BY <1>3, <1>4 DEF table, drawn, Inv, TypeInv, TypeOK
<1>8. call' \in [Proc -> Frame] /\ (\A q \in Proc : FrameOK(call[q])') /\ PendingApart'
  <2>1. FrameOK(fr)'
    BY <1>4, <1>6, <1>7 DEF FrameOK
  <2> QED
    BY <1>1, <1>4, <1>6, <1>7, <2>1, FramesInv DEF Inv
<1>9. TypeInv'
  BY <1>4, <1>5, <1>7, <1>8 DEF drawn, Inv, TypeInv, TypeOK
<1>10. RedeemedOK' /\ ReasonsOK' /\ OnlyNewestRedeemableSerial'
  BY <1>4, <1>7 DEF Inv, RedeemedOK, ReasonsOK, OnlyNewestRedeemableSerial
<1> QED
  BY <1>9, <1>10 DEF Inv

LEMMA SaveInv == ASSUME Inv, NEW p \in Proc, Save(p) PROVE Inv'
<1>1. PICK c \in Frame : c = call[p] /\ FrameOK(c)
  BY DEF Inv, TypeInv, TypeOK
<1>2. PICK t : t = c.token
  OBVIOUS
<1>3. /\ c.pc = "save" /\ kind = "plain" /\ call' = [call EXCEPT ![p] = Idle]
      /\ t \in drawn \ stored /\ t \in Token /\ c.rows \subseteq stored
      /\ UNCHANGED <<kind, now, link, redeemed>>
  BY <1>1, <1>2 DEF Save, Return, FrameOK, Issuing, Inv, TypeInv, TypeOK
<1>4. /\ \/ stored' = stored \cup {t} /\ consumed' = consumed
         \/ UNCHANGED table /\ handed' = handed
      /\ handed \subseteq handed' /\ handed' \subseteq handed \cup {t}
      /\ replaced' \subseteq replaced \cup c.rows /\ unsure' \subseteq unsure \cup c.rows
      /\ Done \/ Lost
  BY <1>1, <1>2 DEF Save, Insert, Hand, Forget, Failed
<1>5. faults' \in 0..MaxFaults
  BY <1>4, ConstantsAssumption DEF Done, Lost, Inv, TypeInv, TypeOK
<1>6. Idle \in Frame /\ FrameOK(Idle)' /\ Idle.pc \notin Issuing
  BY DEF Idle, Frame, FrameOK, Issuing
<1>7. /\ stored \subseteq stored' /\ stored' \subseteq stored \cup {t} /\ consumed' = consumed
      /\ handed' \subseteq stored'
  BY <1>4 DEF table, Inv, TypeInv, TypeOK
<1>8. call' \in [Proc -> Frame] /\ (\A q \in Proc : FrameOK(call[q])') /\ PendingApart'
  BY <1>1, <1>2, <1>3, <1>6, <1>7, FramesInv DEF Inv, drawn, Issuing
<1>9. TypeInv'
  BY <1>3, <1>4, <1>5, <1>7, <1>8 DEF drawn, Inv, TypeInv, TypeOK
<1>10. RedeemedOK' /\ ReasonsOK' /\ OnlyNewestRedeemableSerial'
  BY <1>3, <1>7 DEF Inv, RedeemedOK, ReasonsOK, OnlyNewestRedeemableSerial
<1> QED
  BY <1>9, <1>10 DEF Inv

LEMMA FindByHashInv ==
  ASSUME Inv, NEW p \in Proc, NEW op \in {"Peek", "Consume"}, NEW t \in handed, FindByHash(p, op, t)
  PROVE  Inv'
<1>1. PICK seen \in BOOLEAN : seen = (t \in consumed)
  <2>1. CASE t \in consumed
    <3>1. (t \in consumed) = TRUE
      BY <2>1
    <3> QED
      BY <3>1
  <2>2. CASE t \notin consumed
    <3>1. (t \in consumed) = FALSE
      BY <2>2
    <3> QED
      BY <3>1
  <2> QED
    BY <2>1, <2>2
<1>2. t \in stored /\ t \in Token
  BY DEF Inv, TypeInv, TypeOK
<1>3. call' = [call EXCEPT ![p] = [Idle EXCEPT !.pc = "check", !.op = op, !.token = t, !.seen = seen]]
  BY <1>1 DEF FindByHash, Begin
<1> DEFINE fr == [Idle EXCEPT !.pc = "check", !.op = op, !.token = t, !.seen = seen]
<1>4. fr \in Frame /\ fr.pc = "check" /\ fr.token = t /\ fr.rows = {}
  BY <1>2 DEF Idle, Frame
<1>5. FrameOK(fr) /\ fr.pc \notin Issuing
  BY <1>2, <1>4 DEF FrameOK, Issuing
<1> QED
  BY <1>3, <1>4, <1>5, QuietInv DEF FindByHash, Inv, TypeInv, TypeOK

LEMMA CheckLinkInv == ASSUME Inv, NEW p \in Proc, CheckLink(p) PROVE Inv'
<1>1. PICK c \in Frame : c = call[p] /\ FrameOK(c)
  BY DEF Inv, TypeInv, TypeOK
<1>2. /\ c.pc = "check"
      /\ \/ call' = [call EXCEPT ![p] = [c EXCEPT !.pc = "mark"]]
         \/ call' = [call EXCEPT ![p] = Idle]
  BY <1>1 DEF CheckLink, Goto, Return, Inv, TypeInv, TypeOK
<1>3. PICK fr \in Frame : call' = [call EXCEPT ![p] = fr] /\ FrameOK(fr) /\ fr.pc \notin Issuing
  <2>1. /\ Idle \in Frame /\ FrameOK(Idle) /\ Idle.pc \notin Issuing
        /\ [c EXCEPT !.pc = "mark"] \in Frame
        /\ FrameOK([c EXCEPT !.pc = "mark"]) /\ [c EXCEPT !.pc = "mark"].pc \notin Issuing
    BY <1>1, <1>2 DEF Idle, Frame, FrameOK, Issuing
  <2> QED
    BY <1>2, <2>1
<1> QED
  BY <1>3, QuietInv DEF CheckLink, Inv, TypeInv, TypeOK

LEMMA MarkConsumedInv == ASSUME Inv, NEW p \in Proc, MarkConsumed(p) PROVE Inv'
<1>1. PICK t : t = call[p].token
  OBVIOUS
<1>2. /\ call' = [call EXCEPT ![p] = Idle] /\ t \in stored /\ t \in Token
      /\ UNCHANGED <<kind, now, link, handed, replaced>>
      /\ \/ /\ Flippable(t) /\ consumed' = consumed \cup {t} /\ stored' = stored
            /\ \/ Done /\ redeemed' = [redeemed EXCEPT ![t] = @ + 1] /\ UNCHANGED unsure
               \/ Lost /\ unsure' = unsure \cup {t} /\ UNCHANGED redeemed
         \/ (Done \/ Lost) /\ UNCHANGED table /\ UNCHANGED <<redeemed, unsure>>
  BY <1>1 DEF MarkConsumed, Return, Failed, table, Inv, TypeInv, TypeOK, FrameOK
<1>3. faults' \in 0..MaxFaults
  BY <1>2, ConstantsAssumption DEF Done, Lost, Inv, TypeInv, TypeOK
<1>4. Idle \in Frame /\ FrameOK(Idle) /\ FrameOK(Idle)' /\ Idle.pc \notin Issuing
  BY DEF Idle, Frame, FrameOK, Issuing
<1>5. CASE UNCHANGED table /\ UNCHANGED <<redeemed, unsure>>
  BY <1>2, <1>3, <1>4, <1>5, QuietInv DEF Inv, TypeInv, TypeOK
<1>6. CASE /\ Flippable(t) /\ consumed' = consumed \cup {t} /\ stored' = stored
           /\ \/ redeemed' = [redeemed EXCEPT ![t] = @ + 1] /\ UNCHANGED unsure
              \/ unsure' = unsure \cup {t} /\ UNCHANGED redeemed
  <2>1. t \in stored \ consumed /\ redeemed[t] = 0 /\ redeemed \in [Token -> Nat]
    BY <1>2, <1>6 DEF Flippable, live, Inv, TypeInv, TypeOK, RedeemedOK
  <2>2. /\ redeemed' \in [Token -> Nat]
        /\ \A x \in Token \ {t} : redeemed'[x] = redeemed[x]
        /\ redeemed'[t] <= 1 /\ (redeemed'[t] > 0 \/ t \in unsure')
        /\ unsure \subseteq unsure' /\ unsure' \subseteq unsure \cup {t}
    BY <1>2, <1>6, <2>1
  <2>3. call' \in [Proc -> Frame] /\ (\A q \in Proc : FrameOK(call[q])') /\ PendingApart'
    BY <1>2, <1>4, <1>6, FramesInv DEF Inv, drawn
  <2>4. TypeInv'
    BY <1>2, <1>3, <1>6, <2>1, <2>2, <2>3 DEF drawn, Inv, TypeInv, TypeOK
  <2>5. RedeemedOK'
    BY <1>6, <2>2 DEF Inv, RedeemedOK
  <2>6. ReasonsOK'
    BY <1>2, <1>6, <2>2 DEF Inv, TypeInv, TypeOK, ReasonsOK
  <2>7. OnlyNewestRedeemableSerial'
    BY <1>2, <1>6, FewerLive DEF Inv
  <2> QED
    BY <2>4, <2>5, <2>6, <2>7 DEF Inv
<1> QED
  BY <1>2, <1>5, <1>6

LEMMA CrashInv == ASSUME Inv, NEW p \in Proc, Crash(p) PROVE Inv'
<1>1. Idle \in Frame /\ FrameOK(Idle) /\ Idle.pc \notin Issuing
  BY DEF Idle, Frame, FrameOK, Issuing
<1>2. unsure \subseteq unsure' /\ unsure' \subseteq stored
  BY DEF Crash, Inv, TypeInv, TypeOK, FrameOK
<1>3. faults' \in 0..MaxFaults
  BY ConstantsAssumption DEF Crash, Lost, Inv, TypeInv, TypeOK
<1> QED
  BY <1>1, <1>2, <1>3, QuietInv DEF Crash, Return

LEMMA TickInv == ASSUME Inv, Tick \/ UNCHANGED vars PROVE Inv'
<1>1. UNCHANGED <<kind, link, table, call, faults, handed, redeemed, unsure, replaced>>
  BY DEF Tick, vars
<1>2. now' \in Nat
  BY DEF Tick, vars, Inv, TypeInv, TypeOK
<1>3. TypeInv'
  BY <1>1, <1>2 DEF table, drawn, FrameOK, PendingApart, Inv, TypeInv, TypeOK
<1>4. RedeemedOK' /\ OnlyNewestRedeemableSerial' /\ ReasonsOK'
  BY <1>1 DEF table, Inv, RedeemedOK, OnlyNewestRedeemableSerial, OnlyNewestRedeemable, live, ReasonsOK
<1> QED
  BY <1>3, <1>4 DEF Inv

LEMMA InvNext == Inv /\ [Next]_vars => Inv'
<1> SUFFICES ASSUME Inv, [Next]_vars PROVE Inv'
  OBVIOUS
<1>1. ASSUME NEW p \in Proc, NEW a \in Address, NewLink(p, a) PROVE Inv'
  BY <1>1, NewLinkInv
<1>2. ASSUME NEW p \in Proc, NEW t \in handed, FindByHash(p, "Peek", t) \/ FindByHash(p, "Consume", t)
      PROVE  Inv'
  BY <1>2, FindByHashInv
<1>3. ASSUME NEW p \in Proc, IssueAtomically(p) \/ IssueSelects(p) \/ IssueCommits(p) PROVE Inv'
  BY <1>3, IssueInv, IssueSelectsInv
<1>4. ASSUME NEW p \in Proc, InvalidateOutstanding(p) \/ Save(p) PROVE Inv'
  BY <1>4, InvalidateInv, SaveInv
<1>5. ASSUME NEW p \in Proc, CheckLink(p) \/ MarkConsumed(p) \/ Crash(p) PROVE Inv'
  BY <1>5, CheckLinkInv, MarkConsumedInv, CrashInv
<1>6. CASE Tick \/ UNCHANGED vars
  BY <1>6, TickInv
<1> QED
  BY <1>1, <1>2, <1>3, <1>4, <1>5, <1>6 DEF Next

LEMMA Invariance == Spec => []Inv
  BY InvInit, InvNext, PTL DEF Spec

-----------------------------------------------------------------------------
(* Every variable keeps its type: only stored links are consumed or were   *)
(* emailed.                                                                *)
THEOREM TypeCorrect == Spec => []TypeOK
<1>1. Inv => TypeOK
  BY DEF Inv, TypeInv
<1> QED
  BY <1>1, Invariance, PTL

(* However many calls of Consume overlap, fail or lose their answer, a     *)
(* link is redeemed once.                                                  *)
THEOREM LinksWorkOnce == Spec => []RedeemedOnce
<1>1. Inv => RedeemedOnce
  BY DEF Inv, RedeemedOK, RedeemedOnce
<1> QED
  BY <1>1, Invariance, PTL

(* Where IssueAtomically is indivisible, an address never has two live     *)
(* links, however calls of Issue overlap.                                  *)
THEOREM OneLiveLink == Spec => []OnlyNewestRedeemableSerial
<1>1. Inv => OnlyNewestRedeemableSerial
  BY DEF Inv
<1> QED
  BY <1>1, Invariance, PTL

(* With IssueAtomically, indivisible or not, a link that was emailed stops *)
(* working only because it was redeemed, replaced, or the subject of a     *)
(* lost answer.                                                            *)
THEOREM NoLinkIsLost == Spec => []NoLinkLost
<1>1. Inv => NoLinkLost
  BY DEF Inv, TypeInv, TypeOK, ReasonsOK, NoLinkLost, live
<1> QED
  BY <1>1, Invariance, PTL
=============================================================================
