--------------------------- MODULE SessionsProofs ---------------------------
(***************************************************************************)
(* What Sessions guarantees for every set of goroutines, users, tenants    *)
(* and tokens, every lifetime and any number of failures; and, in the last *)
(* part, what BasicAuth guarantees in front of it.                         *)
(***************************************************************************)
EXTENDS BasicAuth, TLAPS

(* What holds of a goroutine between two steps of its call.                *)
HoldsArg == {"check", "purge", "draw", "swap", "deleteOld", "rollback"}

FrameOK(c) ==
  /\ c.pc \in HoldsArg => c.arg \in handed
  /\ c.pc = "save" /\ c.op = "Rotate" => c.arg \in handed
  /\ c.pc \in {"save", "swap"} => c.fresh \in drawn \ ever
  /\ c.pc \in {"deleteOld", "rollback"} => c.fresh \in ever

(* A session is built by one goroutine and stored at most once.            *)
FreshApart ==
  \A p, q \in Proc :
    /\ p # q
    /\ call[p].pc \in {"save", "swap"}
    /\ call[q].pc \in {"save", "swap"}
    => call[p].fresh # call[q].fresh

FramesOK == /\ \A p \in Proc : FrameOK(call[p])
            /\ FreshApart

TypeInv == TypeOK /\ FramesOK

(* The session under construction continues the one presented.             *)
Descends(c) ==
  /\ sess[c.fresh].root   = sess[c.arg].root
  /\ sess[c.fresh].user   = sess[c.arg].user
  /\ sess[c.fresh].tenant = sess[c.arg].tenant

(* A session about to be stored is the first of its lineage or descends    *)
(* from one that was stored; which steps can be next depends on the store. *)
LineageFrame(c) ==
  /\ c.pc = "draw" => c.op = "Rotate"
  /\ c.pc = "swap" => kind # "plain" /\ Descends(c)
  /\ c.pc = "save" => \/ /\ c.op = "Issue"
                         /\ sess[c.fresh].root = c.fresh
                         /\ \A t \in ever : sess[t].root # c.fresh
                      \/ c.op = "Rotate" /\ kind = "plain" /\ Descends(c)
  /\ c.pc = "deleteOld" => kind = "plain"
  /\ c.pc = "deleteRows" => kind = "readCommitted"

(* A lineage belongs to the user who logged in.                            *)
RootsOK == \A t \in drawn : /\ sess[t].root \in drawn
                            /\ sess[sess[t].root].user = sess[t].user

LineageOK == /\ \A p \in Proc : LineageFrame(call[p])
             /\ RootsOK

(* RevokeAll ends lineages that exist: no later login can be in one.       *)
KilledOK == kind = "serial" => \A r \in killed : \E t \in ever : sess[t].root = r

SafeInv == /\ RetiredStaysDead
           /\ LineageOK
           /\ OneSessionPerLogin
           /\ KilledOK
           /\ LogoutEverywhereSerial

-----------------------------------------------------------------------------
(* The inductive invariant's first half, action by action.                 *)

LEMMA TypeInit == Init => TypeInv
  BY ConstantsAssumption
  DEF Init, TypeInv, TypeOK, FramesOK, FrameOK, FreshApart, HoldsArg, Idle, Frame, drawn

LEMMA FindByTokenType ==
  ASSUME TypeInv, NEW p \in Proc, NEW op \in {"Validate", "Rotate"}, NEW t \in handed, FindByToken(p, op, t)
  PROVE  TypeInv'
<1> USE ConstantsAssumption DEF FindByToken, Begin
<1>1. TypeOK'
  BY DEF TypeInv, TypeOK, FramesOK, FrameOK, HoldsArg, Frame, Idle, drawn, Session, store
<1>2. \A q \in Proc : FrameOK(call[q])'
  BY DEF TypeInv, TypeOK, FramesOK, FrameOK, FreshApart, HoldsArg, Frame, Idle, drawn, store
<1>3. FreshApart'
  BY DEF TypeInv, TypeOK, FramesOK, FrameOK, FreshApart, Frame, Idle, drawn, store
<1> QED
  BY <1>1, <1>2, <1>3 DEF TypeInv, FramesOK

LEMMA CheckExpiryType ==
  ASSUME TypeInv, NEW p \in Proc, CheckExpiry(p)
  PROVE  TypeInv'
<1> USE ConstantsAssumption DEF CheckExpiry, Goto, Return
<1>1. TypeOK'
  BY DEF TypeInv, TypeOK, FramesOK, FrameOK, HoldsArg, Frame, Idle, drawn, Session, store
<1>2. \A q \in Proc : FrameOK(call[q])'
  BY DEF TypeInv, TypeOK, FramesOK, FrameOK, FreshApart, HoldsArg, Frame, Idle, drawn, store
<1>3. FreshApart'
  BY DEF TypeInv, TypeOK, FramesOK, FrameOK, FreshApart, Frame, Idle, drawn, store
<1> QED
  BY <1>1, <1>2, <1>3 DEF TypeInv, FramesOK

LEMMA PurgeType ==
  ASSUME TypeInv, NEW p \in Proc, Purge(p)
  PROVE  TypeInv'
<1> USE ConstantsAssumption DEF Purge, Return, DeleteRows, Done, Lost, Failed, Fault
<1>1. TypeOK'
  BY DEF TypeInv, TypeOK, FramesOK, FrameOK, HoldsArg, Frame, Idle, drawn, Session, store
<1>2. \A q \in Proc : FrameOK(call[q])'
  BY DEF TypeInv, TypeOK, FramesOK, FrameOK, FreshApart, HoldsArg, Frame, Idle, drawn, store
<1>3. FreshApart'
  BY DEF TypeInv, TypeOK, FramesOK, FrameOK, FreshApart, Frame, Idle, drawn, store
<1> QED
  BY <1>1, <1>2, <1>3 DEF TypeInv, FramesOK

LEMMA IssueType ==
  ASSUME TypeInv, NEW p \in Proc, NEW u \in User, NEW n \in Tenant, Issue(p, u, n)
  PROVE  TypeInv'
<1> USE ConstantsAssumption DEF Issue, Begin, NewSession, Put
<1>1. TypeOK'
  <2>1. PICK t \in Token \ drawn :
             /\ NewSession(t, u, n, t)
             /\ call' = [call EXCEPT ![p] = [Idle EXCEPT !.pc = "save", !.op = "Issue",
                                                       !.fresh = t]]
    OBVIOUS
  <2>2. [user |-> u, tenant |-> n, expiresAt |-> now + TTL, root |-> t] \in Session
    BY DEF TypeInv, TypeOK, Session
  <2>3. /\ drawn' = drawn \cup {t}
        /\ sess' \in [drawn' -> Session]
    BY <2>1, <2>2 DEF TypeInv, TypeOK, drawn
  <2>4. call' \in [Proc -> Frame]
    BY <2>1 DEF TypeInv, TypeOK, Frame, Idle
  <2> QED
    BY <2>1, <2>3, <2>4 DEF TypeInv, TypeOK
<1>2. \A q \in Proc : FrameOK(call[q])'
  BY DEF TypeInv, TypeOK, FramesOK, FrameOK, FreshApart, HoldsArg, Frame, Idle, drawn, store
<1>3. FreshApart'
  BY DEF TypeInv, TypeOK, FramesOK, FrameOK, FreshApart, Frame, Idle, drawn, store
<1> QED
  BY <1>1, <1>2, <1>3 DEF TypeInv, FramesOK

LEMMA RotateDrawsType ==
  ASSUME TypeInv, NEW p \in Proc, RotateDraws(p)
  PROVE  TypeInv'
<1> USE ConstantsAssumption DEF RotateDraws, NewSession, Put
<1>1. TypeOK'
  BY DEF TypeInv, TypeOK, FramesOK, FrameOK, HoldsArg, Frame, Idle, drawn, Session, store
<1>2. \A q \in Proc : FrameOK(call[q])'
  BY DEF TypeInv, TypeOK, FramesOK, FrameOK, FreshApart, HoldsArg, Frame, Idle, drawn, store
<1>3. FreshApart'
  BY DEF TypeInv, TypeOK, FramesOK, FrameOK, FreshApart, Frame, Idle, drawn, store
<1> QED
  BY <1>1, <1>2, <1>3 DEF TypeInv, FramesOK

LEMMA RotateDrawsNothingType ==
  ASSUME TypeInv, NEW p \in Proc, RotateDrawsNothing(p)
  PROVE  TypeInv'
<1> USE ConstantsAssumption DEF RotateDrawsNothing, Return
<1>1. TypeOK'
  BY DEF TypeInv, TypeOK, FramesOK, FrameOK, HoldsArg, Frame, Idle, drawn, Session, store
<1>2. \A q \in Proc : FrameOK(call[q])'
  BY DEF TypeInv, TypeOK, FramesOK, FrameOK, FreshApart, HoldsArg, Frame, Idle, drawn, store
<1>3. FreshApart'
  BY DEF TypeInv, TypeOK, FramesOK, FrameOK, FreshApart, Frame, Idle, drawn, store
<1> QED
  BY <1>1, <1>2, <1>3 DEF TypeInv, FramesOK

LEMMA SaveType ==
  ASSUME TypeInv, NEW p \in Proc, Save(p)
  PROVE  TypeInv'
<1> USE ConstantsAssumption DEF Save, SaveRow, Goto, Return, Hand, Done, Lost, Failed, Fault
<1>1. TypeOK'
  <2>1. call' \in [Proc -> Frame]
    BY DEF TypeInv, TypeOK, Frame, Idle
  <2>2. call[p].fresh \in drawn
    BY DEF TypeInv, FramesOK, FrameOK
  <2> QED
    BY <2>1, <2>2 DEF TypeInv, TypeOK, drawn, store
<1>2. \A q \in Proc : FrameOK(call[q])'
  BY DEF TypeInv, TypeOK, FramesOK, FrameOK, FreshApart, HoldsArg, Frame, Idle, drawn, store
<1>3. FreshApart'
  BY DEF TypeInv, TypeOK, FramesOK, FrameOK, FreshApart, Frame, Idle, drawn, store
<1> QED
  BY <1>1, <1>2, <1>3 DEF TypeInv, FramesOK

LEMMA RotateAtomicallyType ==
  ASSUME TypeInv, NEW p \in Proc, RotateAtomically(p)
  PROVE  TypeInv'
<1> USE ConstantsAssumption DEF RotateAtomically, requireOneRow, SwapRows, Return, Hand, Forget, Done, Lost, Failed, Fault
<1>1. TypeOK'
  BY DEF TypeInv, TypeOK, FramesOK, FrameOK, HoldsArg, Frame, Idle, drawn, Session, store
<1>2. \A q \in Proc : FrameOK(call[q])'
  BY DEF TypeInv, TypeOK, FramesOK, FrameOK, FreshApart, HoldsArg, Frame, Idle, drawn, store
<1>3. FreshApart'
  BY DEF TypeInv, TypeOK, FramesOK, FrameOK, FreshApart, Frame, Idle, drawn, store
<1> QED
  BY <1>1, <1>2, <1>3 DEF TypeInv, FramesOK

LEMMA DeleteOldType ==
  ASSUME TypeInv, NEW p \in Proc, DeleteOld(p)
  PROVE  TypeInv'
<1> USE ConstantsAssumption DEF DeleteOld, DeleteRows, Goto, Return, Hand, Forget, Done, Lost, Failed, Fault
<1>1. TypeOK'
  BY DEF TypeInv, TypeOK, FramesOK, FrameOK, HoldsArg, Frame, Idle, drawn, Session, store
<1>2. \A q \in Proc : FrameOK(call[q])'
  BY DEF TypeInv, TypeOK, FramesOK, FrameOK, FreshApart, HoldsArg, Frame, Idle, drawn, store
<1>3. FreshApart'
  BY DEF TypeInv, TypeOK, FramesOK, FrameOK, FreshApart, Frame, Idle, drawn, store
<1> QED
  BY <1>1, <1>2, <1>3 DEF TypeInv, FramesOK

LEMMA RollbackType ==
  ASSUME TypeInv, NEW p \in Proc, Rollback(p)
  PROVE  TypeInv'
<1> USE ConstantsAssumption DEF Rollback, DeleteRows, Return, Done, Lost, Failed, Fault
<1>1. TypeOK'
  BY DEF TypeInv, TypeOK, FramesOK, FrameOK, HoldsArg, Frame, Idle, drawn, Session, store
<1>2. \A q \in Proc : FrameOK(call[q])'
  BY DEF TypeInv, TypeOK, FramesOK, FrameOK, FreshApart, HoldsArg, Frame, Idle, drawn, store
<1>3. FreshApart'
  BY DEF TypeInv, TypeOK, FramesOK, FrameOK, FreshApart, Frame, Idle, drawn, store
<1> QED
  BY <1>1, <1>2, <1>3 DEF TypeInv, FramesOK

LEMMA RevokeType ==
  ASSUME TypeInv, NEW p \in Proc, NEW t \in handed, Revoke(p, t)
  PROVE  TypeInv'
<1> USE ConstantsAssumption DEF Revoke, Begin, DeleteRows, RootsOf, Done, Lost, Fault
<1>1. TypeOK'
  BY DEF TypeInv, TypeOK, FramesOK, FrameOK, HoldsArg, Frame, Idle, drawn, Session, store
<1>2. \A q \in Proc : FrameOK(call[q])'
  BY DEF TypeInv, TypeOK, FramesOK, FrameOK, FreshApart, HoldsArg, Frame, Idle, drawn, store
<1>3. FreshApart'
  BY DEF TypeInv, TypeOK, FramesOK, FrameOK, FreshApart, Frame, Idle, drawn, store
<1> QED
  BY <1>1, <1>2, <1>3 DEF TypeInv, FramesOK

LEMMA DeleteByUserType ==
  ASSUME TypeInv, NEW p \in Proc, NEW u \in User, DeleteByUser(p, u)
  PROVE  TypeInv'
<1> USE ConstantsAssumption DEF DeleteByUser, Begin, EndRevokeAll, DeleteRows, RowsOf, KnownOf, RootsOf, Done, Lost, Fault
<1>1. TypeOK'
  BY DEF TypeInv, TypeOK, FramesOK, FrameOK, HoldsArg, Frame, Idle, drawn, Session, store
<1>2. \A q \in Proc : FrameOK(call[q])'
  BY DEF TypeInv, TypeOK, FramesOK, FrameOK, FreshApart, HoldsArg, Frame, Idle, drawn, store
<1>3. FreshApart'
  BY DEF TypeInv, TypeOK, FramesOK, FrameOK, FreshApart, Frame, Idle, drawn, store
<1> QED
  BY <1>1, <1>2, <1>3 DEF TypeInv, FramesOK

LEMMA SelectByUserType ==
  ASSUME TypeInv, NEW p \in Proc, NEW u \in User, SelectByUser(p, u)
  PROVE  TypeInv'
<1> USE ConstantsAssumption DEF SelectByUser, Begin, RowsOf, KnownOf, RootsOf
<1>1. TypeOK'
  <2>1. /\ RowsOf(u) \subseteq Token
        /\ KnownOf(u) \subseteq Token
    BY DEF TypeInv, TypeOK, Session, drawn
  <2>2. call' \in [Proc -> Frame]
    BY <2>1 DEF TypeInv, TypeOK, Frame, Idle
  <2> QED
    BY <2>2 DEF TypeInv, TypeOK, drawn, store
<1>2. \A q \in Proc : FrameOK(call[q])'
  BY DEF TypeInv, TypeOK, FramesOK, FrameOK, FreshApart, HoldsArg, Frame, Idle, drawn, store
<1>3. FreshApart'
  BY DEF TypeInv, TypeOK, FramesOK, FrameOK, FreshApart, Frame, Idle, drawn, store
<1> QED
  BY <1>1, <1>2, <1>3 DEF TypeInv, FramesOK

LEMMA DeleteSelectedType ==
  ASSUME TypeInv, NEW p \in Proc, DeleteSelected(p)
  PROVE  TypeInv'
<1> USE ConstantsAssumption DEF DeleteSelected, Return, EndRevokeAll, DeleteRows, RootsOf, Done, Lost, Fault
<1>1. TypeOK'
  BY DEF TypeInv, TypeOK, FramesOK, FrameOK, HoldsArg, Frame, Idle, drawn, Session, store
<1>2. \A q \in Proc : FrameOK(call[q])'
  BY DEF TypeInv, TypeOK, FramesOK, FrameOK, FreshApart, HoldsArg, Frame, Idle, drawn, store
<1>3. FreshApart'
  BY DEF TypeInv, TypeOK, FramesOK, FrameOK, FreshApart, Frame, Idle, drawn, store
<1> QED
  BY <1>1, <1>2, <1>3 DEF TypeInv, FramesOK

LEMMA CrashType ==
  ASSUME TypeInv, NEW p \in Proc, Crash(p)
  PROVE  TypeInv'
<1> USE ConstantsAssumption DEF Crash, Return, Fault
<1>1. TypeOK'
  BY DEF TypeInv, TypeOK, FramesOK, FrameOK, HoldsArg, Frame, Idle, drawn, Session, store
<1>2. \A q \in Proc : FrameOK(call[q])'
  BY DEF TypeInv, TypeOK, FramesOK, FrameOK, FreshApart, HoldsArg, Frame, Idle, drawn, store
<1>3. FreshApart'
  BY DEF TypeInv, TypeOK, FramesOK, FrameOK, FreshApart, Frame, Idle, drawn, store
<1> QED
  BY <1>1, <1>2, <1>3 DEF TypeInv, FramesOK

LEMMA TickType == ASSUME TypeInv, Tick PROVE TypeInv'
  BY DEF Tick, store, TypeInv, TypeOK, FramesOK, FrameOK, FreshApart, HoldsArg, Frame, drawn

LEMMA StutterType == ASSUME TypeInv, UNCHANGED vars PROVE TypeInv'
  BY DEF vars, store, TypeInv, TypeOK, FramesOK, FrameOK, FreshApart, HoldsArg, Frame, drawn

LEMMA TypeNext == TypeInv /\ [Next]_vars => TypeInv'
<1> SUFFICES ASSUME TypeInv, [Next]_vars PROVE TypeInv'
  OBVIOUS
<1>1. ASSUME NEW p \in Proc, NEW u \in User, NEW n \in Tenant, Issue(p, u, n)
      PROVE  TypeInv'
  BY <1>1, IssueType
<1>2. ASSUME NEW p \in Proc, NEW t \in handed,
             \/ FindByToken(p, "Validate", t)
             \/ FindByToken(p, "Rotate", t)
             \/ Revoke(p, t)
      PROVE  TypeInv'
  BY <1>2, FindByTokenType, RevokeType
<1>3. ASSUME NEW p \in Proc, NEW u \in User, DeleteByUser(p, u) \/ SelectByUser(p, u)
      PROVE  TypeInv'
  BY <1>3, DeleteByUserType, SelectByUserType
<1>4. ASSUME NEW p \in Proc, CheckExpiry(p) \/ Purge(p)
      PROVE  TypeInv'
  BY <1>4, CheckExpiryType, PurgeType
<1>5. ASSUME NEW p \in Proc,
             \/ RotateDraws(p) \/ RotateDrawsNothing(p)
             \/ Save(p) \/ RotateAtomically(p) \/ DeleteOld(p) \/ Rollback(p)
      PROVE  TypeInv'
  BY <1>5, RotateDrawsType, RotateDrawsNothingType, SaveType, RotateAtomicallyType,
     DeleteOldType, RollbackType
<1>6. ASSUME NEW p \in Proc, DeleteSelected(p) \/ Crash(p)
      PROVE  TypeInv'
  BY <1>6, DeleteSelectedType, CrashType
<1>7. CASE Tick
  BY <1>7, TickType
<1>8. CASE UNCHANGED vars
  BY <1>8, StutterType
<1> QED
  BY <1>1, <1>2, <1>3, <1>4, <1>5, <1>6, <1>7, <1>8 DEF Next

(* Every variable keeps its type: a session in the store was built once,   *)
(* only stored tokens are handed out, only handed ones retired.            *)
THEOREM TypeCorrect == Spec => []TypeOK
<1>1. TypeInv => TypeOK
  BY DEF TypeInv
<1> QED
  BY <1>1, TypeInit, TypeNext, PTL DEF Spec

LEMMA FindByTokenSafe ==
  ASSUME TypeInv, SafeInv, NEW p \in Proc, NEW op \in {"Validate", "Rotate"}, NEW t \in handed, FindByToken(p, op, t)
  PROVE  SafeInv'
<1> USE ConstantsAssumption DEF FindByToken, Begin
<1>1. RetiredStaysDead'
  BY DEF SafeInv, RetiredStaysDead, TypeInv, TypeOK, FramesOK, FrameOK, HoldsArg, drawn, store
<1>2. \A q \in Proc : LineageFrame(call[q])'
  BY DEF SafeInv, LineageOK, LineageFrame, Descends, RootsOK,
         TypeInv, TypeOK, FramesOK, FrameOK, FreshApart, HoldsArg, Frame, Idle, Session,
         drawn, store
<1>3. RootsOK'
  BY DEF SafeInv, LineageOK, RootsOK, TypeInv, TypeOK, FramesOK, FrameOK, HoldsArg, Session,
         drawn, store
<1>4. OneSessionPerLogin'
  BY DEF SafeInv, OneSessionPerLogin, LineageOK, LineageFrame, Descends,
         TypeInv, TypeOK, FramesOK, FrameOK, drawn, store
<1>5. KilledOK' /\ LogoutEverywhereSerial'
  BY DEF SafeInv, KilledOK, LogoutEverywhereSerial, LogoutEverywhere, LineageOK, LineageFrame,
         Descends, RootsOK, TypeInv, TypeOK, FramesOK, FrameOK, drawn, store
<1> QED
  BY <1>1, <1>2, <1>3, <1>4, <1>5 DEF SafeInv, LineageOK

LEMMA CheckExpirySafe ==
  ASSUME TypeInv, SafeInv, NEW p \in Proc, CheckExpiry(p)
  PROVE  SafeInv'
<1> USE ConstantsAssumption DEF CheckExpiry, Goto, Return
<1>1. RetiredStaysDead'
  BY DEF SafeInv, RetiredStaysDead, TypeInv, TypeOK, FramesOK, FrameOK, HoldsArg, drawn, store
<1>2. ASSUME NEW q \in Proc
      PROVE  LineageFrame(call[q])'
  <2>1. CASE q = p
    <3>1. /\ call[p].pc = "check"
          /\ call'[p].pc \in {"purge", "draw", "idle"}
          /\ call'[p].pc = "draw" => call'[p].op = "Rotate"
      BY DEF TypeInv, TypeOK, Frame, Idle
    <3> QED
      BY <2>1, <3>1 DEF LineageFrame
  <2>2. CASE q # p
    <3>1. call'[q] = call[q]
      BY <2>2 DEF TypeInv, TypeOK
    <3> QED
      BY <3>1 DEF SafeInv, LineageOK, LineageFrame, Descends, store
  <2> QED
    BY <2>1, <2>2
<1>3. RootsOK'
  BY DEF SafeInv, LineageOK, RootsOK, TypeInv, TypeOK, FramesOK, FrameOK, HoldsArg, Session,
         drawn, store
<1>4. OneSessionPerLogin'
  BY DEF SafeInv, OneSessionPerLogin, LineageOK, LineageFrame, Descends,
         TypeInv, TypeOK, FramesOK, FrameOK, drawn, store
<1>5. KilledOK' /\ LogoutEverywhereSerial'
  BY DEF SafeInv, KilledOK, LogoutEverywhereSerial, LogoutEverywhere, LineageOK, LineageFrame,
         Descends, RootsOK, TypeInv, TypeOK, FramesOK, FrameOK, drawn, store
<1> QED
  BY <1>1, <1>2, <1>3, <1>4, <1>5 DEF SafeInv, LineageOK

LEMMA PurgeSafe ==
  ASSUME TypeInv, SafeInv, NEW p \in Proc, Purge(p)
  PROVE  SafeInv'
<1> USE ConstantsAssumption DEF Purge, Return, DeleteRows, Done, Lost, Failed, Fault
<1>1. RetiredStaysDead'
  BY DEF SafeInv, RetiredStaysDead, TypeInv, TypeOK, FramesOK, FrameOK, HoldsArg, drawn, store
<1>2. \A q \in Proc : LineageFrame(call[q])'
  BY DEF SafeInv, LineageOK, LineageFrame, Descends, RootsOK,
         TypeInv, TypeOK, FramesOK, FrameOK, FreshApart, HoldsArg, Frame, Idle, Session,
         drawn, store
<1>3. RootsOK'
  BY DEF SafeInv, LineageOK, RootsOK, TypeInv, TypeOK, FramesOK, FrameOK, HoldsArg, Session,
         drawn, store
<1>4. OneSessionPerLogin'
  BY DEF SafeInv, OneSessionPerLogin, LineageOK, LineageFrame, Descends,
         TypeInv, TypeOK, FramesOK, FrameOK, drawn, store
<1>5. KilledOK' /\ LogoutEverywhereSerial'
  BY DEF SafeInv, KilledOK, LogoutEverywhereSerial, LogoutEverywhere, LineageOK, LineageFrame,
         Descends, RootsOK, TypeInv, TypeOK, FramesOK, FrameOK, drawn, store
<1> QED
  BY <1>1, <1>2, <1>3, <1>4, <1>5 DEF SafeInv, LineageOK

LEMMA IssueSafe ==
  ASSUME TypeInv, SafeInv, NEW p \in Proc, NEW u \in User, NEW n \in Tenant, Issue(p, u, n)
  PROVE  SafeInv'
<1> USE ConstantsAssumption DEF Issue, Begin, NewSession, Put
<1>1. RetiredStaysDead'
  BY DEF SafeInv, RetiredStaysDead, TypeInv, TypeOK, FramesOK, FrameOK, HoldsArg, drawn, store
<1>2. \A q \in Proc : LineageFrame(call[q])'
  BY DEF SafeInv, LineageOK, LineageFrame, Descends, RootsOK,
         TypeInv, TypeOK, FramesOK, FrameOK, FreshApart, HoldsArg, Frame, Idle, Session,
         drawn, store
<1>3. RootsOK'
  BY DEF SafeInv, LineageOK, RootsOK, TypeInv, TypeOK, FramesOK, FrameOK, HoldsArg, Session,
         drawn, store
<1>4. OneSessionPerLogin'
  BY DEF SafeInv, OneSessionPerLogin, LineageOK, LineageFrame, Descends,
         TypeInv, TypeOK, FramesOK, FrameOK, drawn, store
<1>5. KilledOK' /\ LogoutEverywhereSerial'
  BY DEF SafeInv, KilledOK, LogoutEverywhereSerial, LogoutEverywhere, LineageOK, LineageFrame,
         Descends, RootsOK, TypeInv, TypeOK, FramesOK, FrameOK, drawn, store
<1> QED
  BY <1>1, <1>2, <1>3, <1>4, <1>5 DEF SafeInv, LineageOK

LEMMA RotateDrawsSafe ==
  ASSUME TypeInv, SafeInv, NEW p \in Proc, RotateDraws(p)
  PROVE  SafeInv'
<1> DEFINE old == call[p].arg
<1>p. call[p].pc = "draw"
  BY DEF RotateDraws
<1>a. PICK t \in Token \ drawn :
           /\ sess' = Put(sess, t, [user |-> sess[old].user, tenant |-> sess[old].tenant,
                                   expiresAt |-> now + TTL, root |-> sess[old].root])
           /\ call' = [call EXCEPT ![p].fresh = t,
                                   ![p].pc = IF kind = "plain" THEN "save" ELSE "swap"]
           /\ UNCHANGED <<kind, stored, ever, handed, retired, killed>>
  BY DEF RotateDraws, NewSession
<1>b. /\ old \in drawn
      /\ drawn' = drawn \cup {t}
      /\ \A u \in drawn : sess'[u] = sess[u]
      /\ sess'[t].root = sess[old].root
      /\ sess'[t].user = sess[old].user
      /\ sess'[t].tenant = sess[old].tenant
  BY <1>p, <1>a DEF Put, TypeInv, TypeOK, FramesOK, FrameOK, HoldsArg, drawn
<1>1. RetiredStaysDead'
  BY <1>a DEF SafeInv, RetiredStaysDead, TypeInv, TypeOK, FramesOK, FrameOK, HoldsArg, drawn, store
<1>2. ASSUME NEW q \in Proc
      PROVE  LineageFrame(call[q])'
  <2>1. CASE q = p
    <3>1. /\ call'[p].fresh = t
          /\ call'[p].arg = old
          /\ call'[p].op = call[p].op
          /\ call'[p].pc = IF kind = "plain" THEN "save" ELSE "swap"
      BY <1>a DEF TypeInv, TypeOK, Frame
    <3>2. call[p].op = "Rotate"
      BY <1>p DEF SafeInv, LineageOK, LineageFrame
    <3>3. Descends(call[p])'
      BY <1>b, <3>1 DEF Descends
    <3>4. CASE kind = "plain"
      <4>1. call'[p].pc = "save" /\ call'[p].op = "Rotate" /\ kind' = "plain"
        BY <1>a, <3>1, <3>2, <3>4
      <4> QED
        BY <4>1, <3>3, <2>1 DEF LineageFrame
    <3>5. CASE kind # "plain"
      <4>1. call'[p].pc = "swap" /\ kind' # "plain"
        BY <1>a, <3>1, <3>5
      <4> QED
        BY <4>1, <3>3, <2>1 DEF LineageFrame
    <3> QED
      BY <3>4, <3>5
  <2>2. CASE q # p
    <3>1. call'[q] = call[q]
      BY <1>a, <2>2 DEF TypeInv, TypeOK
    <3>2. LineageFrame(call[q])
      BY DEF SafeInv, LineageOK
    <3>3. call[q].pc \in {"save", "swap"} => call[q].fresh \in drawn
      BY DEF TypeInv, FramesOK, FrameOK
    <3>4. call[q].pc = "swap" \/ (call[q].pc = "save" /\ call[q].op = "Rotate")
            => call[q].arg \in drawn
      BY DEF TypeInv, TypeOK, FramesOK, FrameOK, HoldsArg
    <3>5. \A u \in ever : u \in drawn
      BY DEF TypeInv, TypeOK
    <3>6. call[q].pc = "swap" \/ (call[q].pc = "save" /\ call[q].op = "Rotate")
            => Descends(call[q])'
      BY <1>b, <3>1, <3>2, <3>3, <3>4 DEF LineageFrame, Descends
    <3>7. call[q].pc = "save" /\ call[q].op = "Issue"
            => sess'[call[q].fresh].root = sess[call[q].fresh].root
      BY <1>b, <3>3
    <3>8. \A u \in ever : sess'[u].root = sess[u].root
      BY <1>b, <3>5
    <3> QED
      BY <1>a, <3>1, <3>2, <3>6, <3>7, <3>8 DEF LineageFrame
  <2> QED
    BY <2>1, <2>2
<1>3. RootsOK'
  BY <1>b DEF SafeInv, LineageOK, RootsOK, drawn
<1>4. OneSessionPerLogin'
  <2>1. \A u \in stored : u \in drawn /\ sess'[u] = sess[u]
    BY <1>b DEF TypeInv, TypeOK
  <2>2. UNCHANGED <<kind, stored>>
    BY <1>a
  <2> QED
    BY <2>1, <2>2 DEF SafeInv, OneSessionPerLogin
<1>5. KilledOK' /\ LogoutEverywhereSerial'
  <2>1. \A u \in ever : u \in drawn /\ sess'[u] = sess[u]
    BY <1>b DEF TypeInv, TypeOK
  <2>2. stored \subseteq ever
    BY DEF TypeInv, TypeOK
  <2> QED
    BY <1>a, <2>1, <2>2 DEF SafeInv, KilledOK, LogoutEverywhereSerial, LogoutEverywhere
<1> QED
  BY <1>1, <1>2, <1>3, <1>4, <1>5 DEF SafeInv, LineageOK

LEMMA RotateDrawsNothingSafe ==
  ASSUME TypeInv, SafeInv, NEW p \in Proc, RotateDrawsNothing(p)
  PROVE  SafeInv'
<1> USE ConstantsAssumption DEF RotateDrawsNothing, Return
<1>1. RetiredStaysDead'
  BY DEF SafeInv, RetiredStaysDead, TypeInv, TypeOK, FramesOK, FrameOK, HoldsArg, drawn, store
<1>2. \A q \in Proc : LineageFrame(call[q])'
  BY DEF SafeInv, LineageOK, LineageFrame, Descends, RootsOK,
         TypeInv, TypeOK, FramesOK, FrameOK, FreshApart, HoldsArg, Frame, Idle, Session,
         drawn, store
<1>3. RootsOK'
  BY DEF SafeInv, LineageOK, RootsOK, TypeInv, TypeOK, FramesOK, FrameOK, HoldsArg, Session,
         drawn, store
<1>4. OneSessionPerLogin'
  BY DEF SafeInv, OneSessionPerLogin, LineageOK, LineageFrame, Descends,
         TypeInv, TypeOK, FramesOK, FrameOK, drawn, store
<1>5. KilledOK' /\ LogoutEverywhereSerial'
  BY DEF SafeInv, KilledOK, LogoutEverywhereSerial, LogoutEverywhere, LineageOK, LineageFrame,
         Descends, RootsOK, TypeInv, TypeOK, FramesOK, FrameOK, drawn, store
<1> QED
  BY <1>1, <1>2, <1>3, <1>4, <1>5 DEF SafeInv, LineageOK

LEMMA SaveSafe ==
  ASSUME TypeInv, SafeInv, NEW p \in Proc, Save(p)
  PROVE  SafeInv'
<1> USE ConstantsAssumption DEF Save, SaveRow, Goto, Return, Hand, Done, Lost, Failed, Fault
<1>1. RetiredStaysDead'
  BY DEF SafeInv, RetiredStaysDead, TypeInv, TypeOK, FramesOK, FrameOK, HoldsArg, drawn, store
<1>2. ASSUME NEW q \in Proc
      PROVE  LineageFrame(call[q])'
  <2> DEFINE t == call[p].fresh
  <2>1. /\ ever' \subseteq ever \cup {t}
        /\ UNCHANGED <<kind, sess>>
    BY DEF store
  <2>2. CASE q = p
    <3>1. \/ call'[p] = Idle
          \/ /\ call'[p] = [call[p] EXCEPT !.pc = "deleteOld"]
             /\ call[p].op = "Rotate"
      BY DEF TypeInv, TypeOK
    <3>2. call[p].op = "Rotate" => kind = "plain"
      BY DEF SafeInv, LineageOK, LineageFrame
    <3> QED
      BY <2>1, <2>2, <3>1, <3>2 DEF LineageFrame, Idle, TypeInv, TypeOK, Frame
  <2>3. CASE q # p
    <3>1. call'[q] = call[q]
      BY <2>3 DEF TypeInv, TypeOK
    <3>2. LineageFrame(call[q])
      BY DEF SafeInv, LineageOK
    <3>3. call[q].pc = "save" /\ call[q].op = "Issue" => sess[t].root # call[q].fresh
      <4> SUFFICES ASSUME call[q].pc = "save", call[q].op = "Issue"
                   PROVE  sess[t].root # call[q].fresh
        OBVIOUS
      <4>1. call[q].fresh # t
        BY <2>3 DEF TypeInv, FramesOK, FreshApart
      <4>2. CASE call[p].op = "Issue"
        BY <4>1, <4>2 DEF SafeInv, LineageOK, LineageFrame
      <4>3. CASE call[p].op = "Rotate"
        <5>1. /\ sess[t].root = sess[call[p].arg].root
              /\ call[p].arg \in ever
          BY <4>3 DEF SafeInv, LineageOK, LineageFrame, Descends,
                      TypeInv, TypeOK, FramesOK, FrameOK
        <5> QED
          BY <5>1, <3>2 DEF LineageFrame
      <4> QED
        BY <4>2, <4>3 DEF SafeInv, LineageOK, LineageFrame
    <3> QED
      BY <2>1, <3>1, <3>2, <3>3 DEF LineageFrame, Descends
  <2> QED
    BY <2>2, <2>3
<1>3. RootsOK'
  BY DEF SafeInv, LineageOK, RootsOK, TypeInv, TypeOK, FramesOK, FrameOK, HoldsArg, Session,
         drawn, store
<1>4. OneSessionPerLogin'
  BY DEF SafeInv, OneSessionPerLogin, LineageOK, LineageFrame, Descends,
         TypeInv, TypeOK, FramesOK, FrameOK, drawn, store
<1>5. KilledOK' /\ LogoutEverywhereSerial'
  BY DEF SafeInv, KilledOK, LogoutEverywhereSerial, LogoutEverywhere, LineageOK, LineageFrame,
         Descends, RootsOK, TypeInv, TypeOK, FramesOK, FrameOK, drawn, store
<1> QED
  BY <1>1, <1>2, <1>3, <1>4, <1>5 DEF SafeInv, LineageOK

LEMMA RotateAtomicallySafe ==
  ASSUME TypeInv, SafeInv, NEW p \in Proc, RotateAtomically(p)
  PROVE  SafeInv'
<1> USE ConstantsAssumption DEF RotateAtomically, requireOneRow, SwapRows, Return, Hand, Forget, Done, Lost, Failed, Fault
<1>1. RetiredStaysDead'
  BY DEF SafeInv, RetiredStaysDead, TypeInv, TypeOK, FramesOK, FrameOK, HoldsArg, drawn, store
<1>2. \A q \in Proc : LineageFrame(call[q])'
  BY DEF SafeInv, LineageOK, LineageFrame, Descends, RootsOK,
         TypeInv, TypeOK, FramesOK, FrameOK, FreshApart, HoldsArg, Frame, Idle, Session,
         drawn, store
<1>3. RootsOK'
  BY DEF SafeInv, LineageOK, RootsOK, TypeInv, TypeOK, FramesOK, FrameOK, HoldsArg, Session,
         drawn, store
<1>4. OneSessionPerLogin'
  BY DEF SafeInv, OneSessionPerLogin, LineageOK, LineageFrame, Descends,
         TypeInv, TypeOK, FramesOK, FrameOK, drawn, store
<1>5. KilledOK' /\ LogoutEverywhereSerial'
  <2>1. UNCHANGED <<kind, sess, killed>>
    BY DEF store
  <2>2. ever \subseteq ever' /\ (\A t \in stored' : \E u \in stored : sess[t].root = sess[u].root)
    <3>1. sess[call[p].fresh].root = sess[call[p].arg].root
      BY DEF SafeInv, LineageOK, LineageFrame, Descends
    <3> QED
      BY <3>1 DEF store
  <2> QED
    BY <2>1, <2>2 DEF SafeInv, KilledOK, LogoutEverywhereSerial, LogoutEverywhere
<1> QED
  BY <1>1, <1>2, <1>3, <1>4, <1>5 DEF SafeInv, LineageOK

LEMMA DeleteOldSafe ==
  ASSUME TypeInv, SafeInv, NEW p \in Proc, DeleteOld(p)
  PROVE  SafeInv'
<1> USE ConstantsAssumption DEF DeleteOld, DeleteRows, Goto, Return, Hand, Forget, Done, Lost, Failed, Fault
<1>1. RetiredStaysDead'
  BY DEF SafeInv, RetiredStaysDead, TypeInv, TypeOK, FramesOK, FrameOK, HoldsArg, drawn, store
<1>2. ASSUME NEW q \in Proc
      PROVE  LineageFrame(call[q])'
  <2>1. UNCHANGED <<kind, sess, ever>>
    BY DEF store
  <2>2. LineageFrame(call[q])
    BY DEF SafeInv, LineageOK
  <2>3. call'[q] = call[q] \/ call'[q] = Idle \/ call'[q].pc = "rollback"
    BY DEF TypeInv, TypeOK, Frame
  <2> QED
    BY <2>1, <2>2, <2>3 DEF LineageFrame, Descends, Idle
<1>3. RootsOK'
  BY DEF SafeInv, LineageOK, RootsOK, TypeInv, TypeOK, FramesOK, FrameOK, HoldsArg, Session,
         drawn, store
<1>4. OneSessionPerLogin'
  BY DEF SafeInv, OneSessionPerLogin, LineageOK, LineageFrame, Descends,
         TypeInv, TypeOK, FramesOK, FrameOK, drawn, store
<1>5. KilledOK' /\ LogoutEverywhereSerial'
  BY DEF SafeInv, KilledOK, LogoutEverywhereSerial, LogoutEverywhere, LineageOK, LineageFrame,
         Descends, RootsOK, TypeInv, TypeOK, FramesOK, FrameOK, drawn, store
<1> QED
  BY <1>1, <1>2, <1>3, <1>4, <1>5 DEF SafeInv, LineageOK

LEMMA RollbackSafe ==
  ASSUME TypeInv, SafeInv, NEW p \in Proc, Rollback(p)
  PROVE  SafeInv'
<1> USE ConstantsAssumption DEF Rollback, DeleteRows, Return, Done, Lost, Failed, Fault
<1>1. RetiredStaysDead'
  BY DEF SafeInv, RetiredStaysDead, TypeInv, TypeOK, FramesOK, FrameOK, HoldsArg, drawn, store
<1>2. \A q \in Proc : LineageFrame(call[q])'
  BY DEF SafeInv, LineageOK, LineageFrame, Descends, RootsOK,
         TypeInv, TypeOK, FramesOK, FrameOK, FreshApart, HoldsArg, Frame, Idle, Session,
         drawn, store
<1>3. RootsOK'
  BY DEF SafeInv, LineageOK, RootsOK, TypeInv, TypeOK, FramesOK, FrameOK, HoldsArg, Session,
         drawn, store
<1>4. OneSessionPerLogin'
  BY DEF SafeInv, OneSessionPerLogin, LineageOK, LineageFrame, Descends,
         TypeInv, TypeOK, FramesOK, FrameOK, drawn, store
<1>5. KilledOK' /\ LogoutEverywhereSerial'
  BY DEF SafeInv, KilledOK, LogoutEverywhereSerial, LogoutEverywhere, LineageOK, LineageFrame,
         Descends, RootsOK, TypeInv, TypeOK, FramesOK, FrameOK, drawn, store
<1> QED
  BY <1>1, <1>2, <1>3, <1>4, <1>5 DEF SafeInv, LineageOK

LEMMA RevokeSafe ==
  ASSUME TypeInv, SafeInv, NEW p \in Proc, NEW t \in handed, Revoke(p, t)
  PROVE  SafeInv'
<1> USE ConstantsAssumption DEF Revoke, Begin, DeleteRows, RootsOf, Done, Lost, Fault
<1>1. RetiredStaysDead'
  BY DEF SafeInv, RetiredStaysDead, TypeInv, TypeOK, FramesOK, FrameOK, HoldsArg, drawn, store
<1>2. \A q \in Proc : LineageFrame(call[q])'
  BY DEF SafeInv, LineageOK, LineageFrame, Descends, RootsOK,
         TypeInv, TypeOK, FramesOK, FrameOK, FreshApart, HoldsArg, Frame, Idle, Session,
         drawn, store
<1>3. RootsOK'
  BY DEF SafeInv, LineageOK, RootsOK, TypeInv, TypeOK, FramesOK, FrameOK, HoldsArg, Session,
         drawn, store
<1>4. OneSessionPerLogin'
  BY DEF SafeInv, OneSessionPerLogin, LineageOK, LineageFrame, Descends,
         TypeInv, TypeOK, FramesOK, FrameOK, drawn, store
<1>5. KilledOK' /\ LogoutEverywhereSerial'
  BY DEF SafeInv, KilledOK, LogoutEverywhereSerial, LogoutEverywhere, LineageOK, LineageFrame,
         Descends, RootsOK, TypeInv, TypeOK, FramesOK, FrameOK, drawn, store
<1> QED
  BY <1>1, <1>2, <1>3, <1>4, <1>5 DEF SafeInv, LineageOK

LEMMA DeleteByUserSafe ==
  ASSUME TypeInv, SafeInv, NEW p \in Proc, NEW u \in User, DeleteByUser(p, u)
  PROVE  SafeInv'
<1> USE ConstantsAssumption DEF DeleteByUser, Begin, EndRevokeAll, DeleteRows, RowsOf, KnownOf, RootsOf, Done, Lost, Fault
<1>1. RetiredStaysDead'
  BY DEF SafeInv, RetiredStaysDead, TypeInv, TypeOK, FramesOK, FrameOK, HoldsArg, drawn, store
<1>2. \A q \in Proc : LineageFrame(call[q])'
  BY DEF SafeInv, LineageOK, LineageFrame, Descends, RootsOK,
         TypeInv, TypeOK, FramesOK, FrameOK, FreshApart, HoldsArg, Frame, Idle, Session,
         drawn, store
<1>3. RootsOK'
  BY DEF SafeInv, LineageOK, RootsOK, TypeInv, TypeOK, FramesOK, FrameOK, HoldsArg, Session,
         drawn, store
<1>4. OneSessionPerLogin'
  BY DEF SafeInv, OneSessionPerLogin, LineageOK, LineageFrame, Descends,
         TypeInv, TypeOK, FramesOK, FrameOK, drawn, store
<1>5. KilledOK' /\ LogoutEverywhereSerial'
  BY DEF SafeInv, KilledOK, LogoutEverywhereSerial, LogoutEverywhere, LineageOK, LineageFrame,
         Descends, RootsOK, TypeInv, TypeOK, FramesOK, FrameOK, drawn, store
<1> QED
  BY <1>1, <1>2, <1>3, <1>4, <1>5 DEF SafeInv, LineageOK

LEMMA SelectByUserSafe ==
  ASSUME TypeInv, SafeInv, NEW p \in Proc, NEW u \in User, SelectByUser(p, u)
  PROVE  SafeInv'
<1> USE ConstantsAssumption DEF SelectByUser, Begin
<1>1. RetiredStaysDead'
  BY DEF SafeInv, RetiredStaysDead, TypeInv, TypeOK, FramesOK, FrameOK, HoldsArg, drawn, store
<1>2. \A q \in Proc : LineageFrame(call[q])'
  BY DEF SafeInv, LineageOK, LineageFrame, Descends, RootsOK,
         TypeInv, TypeOK, FramesOK, FrameOK, FreshApart, HoldsArg, Frame, Idle, Session,
         drawn, store
<1>3. RootsOK'
  BY DEF SafeInv, LineageOK, RootsOK, TypeInv, TypeOK, FramesOK, FrameOK, HoldsArg, Session,
         drawn, store
<1>4. OneSessionPerLogin'
  BY DEF SafeInv, OneSessionPerLogin, LineageOK, LineageFrame, Descends,
         TypeInv, TypeOK, FramesOK, FrameOK, drawn, store
<1>5. KilledOK' /\ LogoutEverywhereSerial'
  BY DEF SafeInv, KilledOK, LogoutEverywhereSerial, LogoutEverywhere, LineageOK, LineageFrame,
         Descends, RootsOK, TypeInv, TypeOK, FramesOK, FrameOK, drawn, store
<1> QED
  BY <1>1, <1>2, <1>3, <1>4, <1>5 DEF SafeInv, LineageOK

LEMMA DeleteSelectedSafe ==
  ASSUME TypeInv, SafeInv, NEW p \in Proc, DeleteSelected(p)
  PROVE  SafeInv'
<1> USE ConstantsAssumption DEF DeleteSelected, Return, EndRevokeAll, DeleteRows, RootsOf, Done, Lost, Fault
<1>1. RetiredStaysDead'
  BY DEF SafeInv, RetiredStaysDead, TypeInv, TypeOK, FramesOK, FrameOK, HoldsArg, drawn, store
<1>2. \A q \in Proc : LineageFrame(call[q])'
  BY DEF SafeInv, LineageOK, LineageFrame, Descends, RootsOK,
         TypeInv, TypeOK, FramesOK, FrameOK, FreshApart, HoldsArg, Frame, Idle, Session,
         drawn, store
<1>3. RootsOK'
  BY DEF SafeInv, LineageOK, RootsOK, TypeInv, TypeOK, FramesOK, FrameOK, HoldsArg, Session,
         drawn, store
<1>4. OneSessionPerLogin'
  BY DEF SafeInv, OneSessionPerLogin, LineageOK, LineageFrame, Descends,
         TypeInv, TypeOK, FramesOK, FrameOK, drawn, store
<1>5. KilledOK' /\ LogoutEverywhereSerial'
  BY DEF SafeInv, KilledOK, LogoutEverywhereSerial, LogoutEverywhere, LineageOK, LineageFrame,
         Descends, RootsOK, TypeInv, TypeOK, FramesOK, FrameOK, drawn, store
<1> QED
  BY <1>1, <1>2, <1>3, <1>4, <1>5 DEF SafeInv, LineageOK

LEMMA CrashSafe ==
  ASSUME TypeInv, SafeInv, NEW p \in Proc, Crash(p)
  PROVE  SafeInv'
<1> USE ConstantsAssumption DEF Crash, Return, Fault
<1>1. RetiredStaysDead'
  BY DEF SafeInv, RetiredStaysDead, TypeInv, TypeOK, FramesOK, FrameOK, HoldsArg, drawn, store
<1>2. \A q \in Proc : LineageFrame(call[q])'
  BY DEF SafeInv, LineageOK, LineageFrame, Descends, RootsOK,
         TypeInv, TypeOK, FramesOK, FrameOK, FreshApart, HoldsArg, Frame, Idle, Session,
         drawn, store
<1>3. RootsOK'
  BY DEF SafeInv, LineageOK, RootsOK, TypeInv, TypeOK, FramesOK, FrameOK, HoldsArg, Session,
         drawn, store
<1>4. OneSessionPerLogin'
  BY DEF SafeInv, OneSessionPerLogin, LineageOK, LineageFrame, Descends,
         TypeInv, TypeOK, FramesOK, FrameOK, drawn, store
<1>5. KilledOK' /\ LogoutEverywhereSerial'
  BY DEF SafeInv, KilledOK, LogoutEverywhereSerial, LogoutEverywhere, LineageOK, LineageFrame,
         Descends, RootsOK, TypeInv, TypeOK, FramesOK, FrameOK, drawn, store
<1> QED
  BY <1>1, <1>2, <1>3, <1>4, <1>5 DEF SafeInv, LineageOK

LEMMA TickSafe == ASSUME SafeInv, Tick PROVE SafeInv'
  BY DEF Tick, store, SafeInv, RetiredStaysDead, LineageOK, LineageFrame, Descends, RootsOK,
         OneSessionPerLogin, KilledOK, LogoutEverywhereSerial, LogoutEverywhere, drawn

LEMMA StutterSafe == ASSUME SafeInv, UNCHANGED vars PROVE SafeInv'
  BY DEF vars, store, SafeInv, RetiredStaysDead, LineageOK, LineageFrame, Descends, RootsOK,
         OneSessionPerLogin, KilledOK, LogoutEverywhereSerial, LogoutEverywhere, drawn

LEMMA SafeInit == Init => SafeInv
  BY DEF Init, Idle, SafeInv, RetiredStaysDead, LineageOK, LineageFrame, RootsOK,
         OneSessionPerLogin, KilledOK, LogoutEverywhereSerial, LogoutEverywhere, drawn

LEMMA SafeNext == TypeInv /\ SafeInv /\ [Next]_vars => SafeInv'
<1> SUFFICES ASSUME TypeInv, SafeInv, [Next]_vars PROVE SafeInv'
  OBVIOUS
<1>1. ASSUME NEW p \in Proc, NEW u \in User, NEW n \in Tenant, Issue(p, u, n)
      PROVE  SafeInv'
  BY <1>1, IssueSafe
<1>2. ASSUME NEW p \in Proc, NEW t \in handed,
             \/ FindByToken(p, "Validate", t)
             \/ FindByToken(p, "Rotate", t)
             \/ Revoke(p, t)
      PROVE  SafeInv'
  BY <1>2, FindByTokenSafe, RevokeSafe
<1>3. ASSUME NEW p \in Proc, NEW u \in User, DeleteByUser(p, u) \/ SelectByUser(p, u)
      PROVE  SafeInv'
  BY <1>3, DeleteByUserSafe, SelectByUserSafe
<1>4. ASSUME NEW p \in Proc, CheckExpiry(p) \/ Purge(p)
      PROVE  SafeInv'
  BY <1>4, CheckExpirySafe, PurgeSafe
<1>5. ASSUME NEW p \in Proc,
             \/ RotateDraws(p) \/ RotateDrawsNothing(p)
             \/ Save(p) \/ RotateAtomically(p) \/ DeleteOld(p) \/ Rollback(p)
      PROVE  SafeInv'
  BY <1>5, RotateDrawsSafe, RotateDrawsNothingSafe, SaveSafe, RotateAtomicallySafe,
     DeleteOldSafe, RollbackSafe
<1>6. ASSUME NEW p \in Proc, DeleteSelected(p) \/ Crash(p)
      PROVE  SafeInv'
  BY <1>6, DeleteSelectedSafe, CrashSafe
<1>7. CASE Tick
  BY <1>7, TickSafe
<1>8. CASE UNCHANGED vars
  BY <1>8, StutterSafe
<1> QED
  BY <1>1, <1>2, <1>3, <1>4, <1>5, <1>6, <1>7, <1>8 DEF Next

LEMMA Invariance == Spec => [](TypeInv /\ SafeInv)
  BY TypeInit, TypeNext, SafeInit, SafeNext, PTL DEF Spec

(* On every kind of store: what a successful Rotate replaced or a          *)
(* successful Revoke deleted never comes back.                             *)
THEOREM RetiredTokensAreDead == Spec => []RetiredStaysDead
<1>1. SafeInv => RetiredStaysDead
  BY DEF SafeInv
<1> QED
  BY <1>1, Invariance, PTL

(* With RotateAtomically a login has at most one session in the store,     *)
(* however rotations race, fail, crash or lose their answers.              *)
THEOREM RotationNeverForks == Spec => []OneSessionPerLogin
<1>1. SafeInv => OneSessionPerLogin
  BY DEF SafeInv
<1> QED
  BY <1>1, Invariance, PTL

(* With an indivisible DeleteByUser and RotateAtomically, RevokeAll ends   *)
(* every login known when it began, rotations under way included.          *)
THEOREM RevokeAllIsFinal == Spec => []LogoutEverywhereSerial
<1>1. SafeInv => LogoutEverywhereSerial
  BY DEF SafeInv
<1> QED
  BY <1>1, Invariance, PTL

-----------------------------------------------------------------------------
(* A DELETE under way saw rows of one user only.                           *)
RowsOK ==
  \A p \in Proc : call[p].pc = "deleteRows" =>
    \A t \in call[p].rows : t \in drawn /\ sess[t].user = call[p].user

LEMMA RowsNext == TypeInv /\ RowsOK /\ [Next]_vars => RowsOK'
<1> SUFFICES ASSUME TypeInv, RowsOK, [Next]_vars PROVE RowsOK'
  OBVIOUS
<1> DEFINE OldSessions == \A t \in drawn : t \in drawn' /\ sess'[t] = sess[t]
<1>1. ASSUME OldSessions, NEW p \in Proc, \A q \in Proc \ {p} : call'[q] = call[q],
             call'[p].pc = "deleteRows" => call'[p] = call[p]
      PROVE  RowsOK'
  BY <1>1 DEF RowsOK, TypeInv, TypeOK
<1>2. ASSUME NEW p \in Proc, NEW t \in Token, NEW u \in User, NEW n \in Tenant, NEW r \in Token, NewSession(t, u, n, r)
      PROVE  OldSessions
  BY <1>2 DEF NewSession, Put, drawn
<1>3. ASSUME NEW p \in Proc, NEW u \in User, NEW n \in Tenant, Issue(p, u, n)
      PROVE  RowsOK'
  BY <1>1, <1>2, <1>3 DEF Issue, Begin, Idle, TypeInv, TypeOK
<1>4. ASSUME NEW p \in Proc, NEW u \in User, SelectByUser(p, u)
      PROVE  RowsOK'
  BY <1>4 DEF SelectByUser, Begin, Idle, RowsOf, RowsOK, store, drawn, TypeInv, TypeOK
<1>5. ASSUME NEW p \in Proc, RotateDraws(p)
      PROVE  RowsOK'
  BY <1>5 DEF RotateDraws, NewSession, Put, drawn, RowsOK, TypeInv, TypeOK, Frame
<1>6. ASSUME NEW p \in Proc, NEW t \in handed, NEW op \in {"Validate", "Rotate"}, FindByToken(p, op, t)
      PROVE  RowsOK'
  BY <1>6, <1>1 DEF FindByToken, Begin, Idle, store, drawn, TypeInv, TypeOK
<1>7. ASSUME NEW p \in Proc, \E t \in handed : Revoke(p, t)
      PROVE  RowsOK'
  BY <1>7, <1>1 DEF Revoke, Begin, Idle, DeleteRows, drawn, TypeInv, TypeOK
<1>8. ASSUME NEW p \in Proc, \E u \in User : DeleteByUser(p, u)
      PROVE  RowsOK'
  BY <1>8, <1>1 DEF DeleteByUser, EndRevokeAll, Begin, Idle, DeleteRows, drawn, TypeInv, TypeOK
<1>9. ASSUME NEW p \in Proc, CheckExpiry(p) \/ Purge(p) \/ RotateDrawsNothing(p)
      PROVE  RowsOK'
  BY <1>9, <1>1
  DEF CheckExpiry, Purge, RotateDrawsNothing, DeleteRows, Failed, Goto, Return, Idle, store, drawn, TypeInv, TypeOK, Frame
<1>10. ASSUME NEW p \in Proc, Save(p) \/ RotateAtomically(p)
      PROVE  RowsOK'
  BY <1>10, <1>1
  DEF Save, SaveRow, RotateAtomically, SwapRows, Failed, Goto, Return, Idle, store, drawn, TypeInv, TypeOK, Frame
<1>11. ASSUME NEW p \in Proc, DeleteOld(p) \/ Rollback(p) \/ DeleteSelected(p) \/ Crash(p)
      PROVE  RowsOK'
  BY <1>11, <1>1
  DEF DeleteOld, Rollback, DeleteSelected, EndRevokeAll, Crash, DeleteRows, Failed, Goto, Return, Idle, store, drawn,
      TypeInv, TypeOK, Frame
<1>12. CASE Tick \/ UNCHANGED vars
  BY <1>12 DEF Tick, vars, store, RowsOK, drawn
<1> QED
  BY <1>3, <1>4, <1>5, <1>6, <1>7, <1>8, <1>9, <1>10, <1>11, <1>12 DEF Next

-----------------------------------------------------------------------------
(* The refinement of CredentialLedger.                                     *)

LEMMA LedgerSame ==
  ASSUME UNCHANGED <<kind, stored, ever>>, \A t \in ever : sess'[t] = sess[t]
  PROVE  UNCHANGED Ledger!lvars
  BY DEF Ledger!lvars

LEMMA LedgerDrop ==
  ASSUME TypeInv, UNCHANGED <<kind, sess, ever>>, stored' \subseteq stored,
         \A t, u \in stored \ stored' : sess[t].user = sess[u].user
  PROVE  Ledger!Drop
  BY DEF Ledger!Drop, TypeInv, TypeOK

LEMMA LedgerEnter ==
  ASSUME TypeInv, NEW t \in drawn \ ever, UNCHANGED <<kind, sess>>, ever' = ever \cup {t}
  PROVE  Ledger!Enter(t)
  BY DEF Ledger!Enter, Ledger!Credential, TypeInv, TypeOK, drawn, Session

LEMMA LedgerNext == TypeInv /\ SafeInv /\ RowsOK /\ [Next]_vars => [Ledger!Next]_(Ledger!lvars)
<1> SUFFICES ASSUME TypeInv, SafeInv, RowsOK, [Next]_vars
             PROVE  Ledger!Next \/ UNCHANGED Ledger!lvars
  OBVIOUS
<1>1. ASSUME NEW p \in Proc, NEW u \in User, NEW n \in Tenant, Issue(p, u, n)
      PROVE  UNCHANGED Ledger!lvars
  BY <1>1, LedgerSame DEF Issue, NewSession, Put, TypeInv, TypeOK, drawn
<1>2. ASSUME NEW p \in Proc, NEW t \in handed, NEW op \in {"Validate", "Rotate"}, FindByToken(p, op, t)
      PROVE  UNCHANGED Ledger!lvars
  BY <1>2, LedgerSame DEF FindByToken, store
<1>3. ASSUME NEW p \in Proc, NEW t \in handed, Revoke(p, t)
      PROVE  Ledger!Drop
  BY <1>3, LedgerDrop DEF Revoke, DeleteRows
<1>4. ASSUME NEW p \in Proc, NEW u \in User, DeleteByUser(p, u)
      PROVE  Ledger!Drop
  BY <1>4, LedgerDrop DEF DeleteByUser, EndRevokeAll, DeleteRows, RowsOf
<1>5. ASSUME NEW p \in Proc, (\E u \in User : SelectByUser(p, u)) \/ CheckExpiry(p) \/ RotateDrawsNothing(p) \/ Crash(p)
      PROVE  UNCHANGED Ledger!lvars
  BY <1>5, LedgerSame DEF SelectByUser, CheckExpiry, RotateDrawsNothing, Crash, store
<1>6. ASSUME NEW p \in Proc, Purge(p) \/ DeleteOld(p) \/ Rollback(p)
      PROVE  Ledger!Drop \/ UNCHANGED Ledger!lvars
  <2>1. CASE UNCHANGED store
    BY <1>6, <2>1, LedgerSame DEF Purge, DeleteOld, Rollback, store
  <2>2. CASE \E t \in Token \cup {None} : DeleteRows({t})
    BY <1>6, <2>2, LedgerDrop DEF Purge, DeleteOld, Rollback, DeleteRows
  <2> QED
    BY <1>6, <2>1, <2>2 DEF Purge, DeleteOld, Rollback, Failed, TypeInv, TypeOK, Frame
<1>7. ASSUME NEW p \in Proc, RotateDraws(p)
      PROVE  UNCHANGED Ledger!lvars
  BY <1>7, LedgerSame DEF RotateDraws, NewSession, Put, TypeInv, TypeOK, drawn
<1>8. ASSUME NEW p \in Proc, Save(p)
      PROVE  Ledger!Next \/ UNCHANGED Ledger!lvars
  <2>1. call[p].fresh \in drawn \ ever /\ drawn \subseteq Token
    BY <1>8 DEF Save, TypeInv, TypeOK, FramesOK, FrameOK
  <2>2. PICK new \in Token, old \in Token \cup {None} : new = call[p].fresh /\ old = call[p].arg
    BY <2>1 DEF TypeInv, TypeOK, Frame
  <2>3. new \in drawn \ ever
    BY <2>1, <2>2
  <2>4. CASE UNCHANGED store
    BY <1>8, <2>4, LedgerSame DEF Save, store
  <2>5. CASE SaveRow(new)
    <3>2. Ledger!Enter(new)
      <4>1. UNCHANGED <<kind, sess>> /\ ever' = ever \cup {new}
        BY <1>8, <2>5 DEF Save, SaveRow
      <4> QED
        BY <2>3, <4>1, LedgerEnter
    <3>3. CASE call[p].op = "Issue"
      <4>1. sess[new].root = new
        BY <1>8, <2>2, <3>3 DEF Save, SafeInv, LineageOK, LineageFrame
      <4>2. Ledger!Admit(new)
        BY <2>5, <2>3, <3>2, <4>1 DEF Ledger!Admit, SaveRow
      <4> QED
        BY <2>3, <4>2 DEF Ledger!Next
    <3>4. CASE call[p].op = "Rotate"
      <4>1. old \in ever /\ kind = "plain" /\ Descends(call[p])
        BY <1>8, <2>2, <3>4 DEF Save, TypeInv, TypeOK, FramesOK, FrameOK, SafeInv, LineageOK, LineageFrame
      <4>2. Ledger!Continue(old, new)
        BY <2>2, <2>5, <2>3, <3>2, <4>1 DEF Ledger!Continue, SaveRow, Descends
      <4>3. Ledger!Fork(old, new)
        BY <2>5, <4>1, <4>2 DEF Ledger!Fork, SaveRow
      <4> QED
        BY <2>3, <4>1, <4>3 DEF Ledger!Next, TypeInv, TypeOK
    <3> QED
      BY <1>8, <3>3, <3>4 DEF Save, SafeInv, LineageOK, LineageFrame
  <2> QED
    BY <1>8, <2>2, <2>4, <2>5 DEF Save, Failed
<1>9. ASSUME NEW p \in Proc, RotateAtomically(p)
      PROVE  Ledger!Next \/ UNCHANGED Ledger!lvars
  <2>1. call[p].fresh \in drawn \ ever /\ drawn \subseteq Token
    BY <1>9 DEF RotateAtomically, TypeInv, TypeOK, FramesOK, FrameOK
  <2>2. PICK new \in Token, old \in Token \cup {None} : new = call[p].fresh /\ old = call[p].arg
    BY <2>1 DEF TypeInv, TypeOK, Frame
  <2>3. new \in drawn \ ever
    BY <2>1, <2>2
  <2>4. CASE UNCHANGED store
    BY <1>9, <2>4, LedgerSame DEF RotateAtomically, store
  <2>5. CASE requireOneRow(old) /\ SwapRows(old, new)
    <3>2. Ledger!Enter(new)
      <4>1. UNCHANGED <<kind, sess>> /\ ever' = ever \cup {new}
        BY <1>9, <2>5 DEF RotateAtomically, SwapRows
      <4> QED
        BY <2>3, <4>1, LedgerEnter
    <3>3. old \in stored /\ old \in ever /\ kind # "plain" /\ Descends(call[p])
      BY <1>9, <2>2, <2>5 DEF RotateAtomically, requireOneRow, TypeInv, TypeOK, SafeInv, LineageOK, LineageFrame
    <3>4. Ledger!Continue(old, new)
      BY <2>2, <2>5, <2>3, <3>2, <3>3 DEF Ledger!Continue, SwapRows, Descends
    <3>5. Ledger!Swap(old, new)
      BY <2>5, <3>3, <3>4 DEF Ledger!Swap, SwapRows
    <3> QED
      BY <2>3, <3>3, <3>5 DEF Ledger!Next, TypeInv, TypeOK
  <2> QED
    BY <1>9, <2>2, <2>4, <2>5 DEF RotateAtomically, Failed
<1>10. ASSUME NEW p \in Proc, DeleteSelected(p)
      PROVE  Ledger!Drop
  BY <1>10, LedgerDrop DEF DeleteSelected, EndRevokeAll, DeleteRows, RowsOK
<1>11. CASE Tick \/ UNCHANGED vars
  BY <1>11, LedgerSame DEF Tick, vars, store
<1> QED
  BY <1>1, <1>2, <1>3, <1>4, <1>5, <1>6, <1>7, <1>8, <1>9, <1>10, <1>11 DEF Next, Ledger!Next

(* Every behaviour of the service over its repository is one of the        *)
(* abstract ledger: no step of any call changes a row, revives a token,    *)
(* gives a rotation another user or tenant, or deletes rows of two users.  *)
THEOREM SessionsImplementLedger == Spec => LedgerSpec
<1>1. Init => Ledger!Init
  BY DEF Init, Ledger!Init
<1>2. Init => RowsOK
  BY DEF Init, RowsOK, Idle
<1> QED
  BY <1>1, <1>2, TypeInit, TypeNext, SafeInit, SafeNext, RowsNext, LedgerNext, PTL DEF Spec, LedgerSpec, Ledger!Spec

-----------------------------------------------------------------------------
(* No user is logged out by the service alone.                             *)

(* What NeverStranded needs of a call under way: only an expired session   *)
(* is purged; a session the fallback has stored is nobody's yet, and is    *)
(* there until its lineage was revoked or broken.                          *)
PendingFrame(c) ==
  /\ c.pc = "purge" => Expired(c.arg)
  /\ c.pc \in {"deleteOld", "rollback"} => c.fresh \notin handed
  /\ c.pc = "deleteOld" => /\ Descends(c)
                           /\ c.fresh \in stored \/ sess[c.fresh].root \in revoked \cup broken

PendingApart ==
  \A p, q \in Proc :
    /\ p # q
    /\ call[p].pc \in {"deleteOld", "rollback"}
    /\ call[q].pc \in {"deleteOld", "rollback"}
    => call[p].fresh # call[q].fresh

PendingOK == /\ \A p \in Proc : PendingFrame(call[p])
             /\ PendingApart

(* The frame of the steps that hand nothing out and begin nothing pending. *)
LEMMA PendingKept ==
  ASSUME TypeInv, PendingOK, now' \in Nat, now' >= now, handed' = handed,
         \A t \in drawn : sess'[t] = sess[t],
         revoked \subseteq revoked', broken \subseteq broken',
         \A t \in stored \ stored' : t \in handed \/ sess[t].root \in revoked' \cup broken',
         \A q \in Proc : call'[q].pc \in {"purge", "deleteOld", "rollback"} => call'[q] = call[q]
  PROVE  PendingOK'
<1>1. ASSUME NEW q \in Proc
      PROVE  PendingFrame(call[q])'
  <2> SUFFICES ASSUME call'[q] = call[q], call[q].pc \in {"purge", "deleteOld", "rollback"}
               PROVE  PendingFrame(call[q])'
    BY <1>1 DEF PendingFrame
  <2>1. /\ call[q].arg \in drawn
        /\ call[q].pc # "purge" => call[q].fresh \in drawn
    BY DEF TypeInv, TypeOK, FramesOK, FrameOK, HoldsArg
  <2>2. sess[call[q].arg].expiresAt \in Nat /\ now \in Nat
    BY <2>1 DEF TypeInv, TypeOK, Session
  <2> QED
    BY <2>1, <2>2 DEF PendingOK, PendingFrame, Expired, Descends
<1>2. PendingApart'
  BY DEF PendingOK, PendingApart
<1> QED
  BY <1>1, <1>2 DEF PendingOK

LEMMA DrawsKeep ==
  ASSUME TypeInv, NEW t, NEW u, NEW n, NEW r, NewSession(t, u, n, r)
  PROVE  /\ \A s \in drawn : sess'[s] = sess[s]
         /\ UNCHANGED <<now, stored, handed, retired, revoked, broken>>
  BY DEF NewSession, Put, drawn

LEMMA PendingNext == TypeInv /\ SafeInv /\ RowsOK /\ PendingOK /\ [Next]_vars => PendingOK'
<1> SUFFICES ASSUME TypeInv, SafeInv, RowsOK, PendingOK, [Next]_vars PROVE PendingOK'
  OBVIOUS
<1>0. now \in Nat /\ now >= now
  BY DEF TypeInv, TypeOK
<1>1. ASSUME NEW p \in Proc, NEW u \in User, NEW n \in Tenant, Issue(p, u, n)
      PROVE  PendingOK'
  BY <1>0, <1>1, DrawsKeep, PendingKept DEF Issue, Begin, Idle, TypeInv, TypeOK
<1>2. ASSUME NEW p \in Proc, RotateDraws(p)
      PROVE  PendingOK'
  <2>1. \A s \in drawn : sess'[s] = sess[s]
    BY <1>2 DEF RotateDraws, NewSession, Put, drawn
  <2>2. \A q \in Proc : call'[q].pc \in {"purge", "deleteOld", "rollback"} => call'[q] = call[q]
    BY <1>2 DEF RotateDraws, TypeInv, TypeOK, Frame
  <2> QED
    BY <1>0, <1>2, <2>1, <2>2, PendingKept DEF RotateDraws, NewSession
<1>3. ASSUME NEW p \in Proc, NEW t \in handed, NEW op \in {"Validate", "Rotate"},
             FindByToken(p, op, t) \/ Revoke(p, t)
      PROVE  PendingOK'
  <2>1. \A q \in Proc : call'[q].pc \in {"purge", "deleteOld", "rollback"} => call'[q] = call[q]
    <3>1. /\ call'[p].pc \in {"idle", "check"}
          /\ \A q \in Proc \ {p} : call'[q] = call[q]
      <4>1. CASE FindByToken(p, op, t)
        BY <4>1 DEF FindByToken, Begin, Idle, TypeInv, TypeOK
      <4>2. CASE Revoke(p, t)
        BY <4>2 DEF Revoke, Begin, Idle, TypeInv, TypeOK
      <4> QED
        BY <1>3, <4>1, <4>2
    <3> QED
      BY <3>1
  <2>2. UNCHANGED <<now, sess, handed, broken>> /\ revoked \subseteq revoked' /\ stored \ stored' \subseteq {t}
    BY <1>3 DEF FindByToken, Revoke, DeleteRows, store
  <2> QED
    BY <1>0, <2>1, <2>2, PendingKept
<1>4. ASSUME NEW p \in Proc, NEW u \in User, DeleteByUser(p, u) \/ SelectByUser(p, u)
      PROVE  PendingOK'
  <2>1. \A q \in Proc : call'[q].pc \in {"purge", "deleteOld", "rollback"} => call'[q] = call[q]
    <3>1. /\ call'[p].pc \in {"idle", "deleteRows"}
          /\ \A q \in Proc \ {p} : call'[q] = call[q]
      <4>1. CASE DeleteByUser(p, u)
        BY <4>1 DEF DeleteByUser, Begin, Idle, TypeInv, TypeOK
      <4>2. CASE SelectByUser(p, u)
        BY <4>2 DEF SelectByUser, Begin, Idle, TypeInv, TypeOK
      <4> QED
        BY <1>4, <4>1, <4>2
    <3> QED
      BY <3>1
  <2>2. UNCHANGED <<now, sess, handed, broken>> /\ revoked \subseteq revoked'
    BY <1>4 DEF DeleteByUser, SelectByUser, EndRevokeAll, DeleteRows, store
  <2>3. \A t \in stored \ stored' : sess[t].root \in revoked'
    BY <1>4 DEF DeleteByUser, SelectByUser, EndRevokeAll, DeleteRows, RowsOf, RootsOf, store
  <2> QED
    BY <1>0, <2>1, <2>2, <2>3, PendingKept
<1>5. ASSUME NEW p \in Proc, DeleteSelected(p)
      PROVE  PendingOK'
  BY <1>0, <1>5, PendingKept DEF DeleteSelected, EndRevokeAll, Return, Idle, DeleteRows, RootsOf, RowsOK, TypeInv, TypeOK
<1>6. ASSUME NEW p \in Proc, Purge(p)
      PROVE  PendingOK'
  <2>1. call[p].arg \in handed
    BY <1>6 DEF Purge, TypeInv, FramesOK, FrameOK, HoldsArg
  <2> QED
    BY <1>0, <1>6, <2>1, PendingKept DEF Purge, Return, Idle, DeleteRows, Failed, store, TypeInv, TypeOK
<1>7. ASSUME NEW p \in Proc, RotateDrawsNothing(p) \/ Crash(p)
      PROVE  PendingOK'
  BY <1>0, <1>7, PendingKept DEF RotateDrawsNothing, Crash, Return, Idle, store, TypeInv, TypeOK
<1>8. ASSUME NEW p \in Proc, CheckExpiry(p)
      PROVE  PendingOK'
  BY <1>8 DEF CheckExpiry, Goto, Return, Idle, store, PendingOK, PendingFrame, PendingApart, Expired, Descends,
              TypeInv, TypeOK, Frame
<1>9. ASSUME NEW p \in Proc, Save(p)
      PROVE  PendingOK'
  <2> DEFINE t == call[p].fresh
  <2>1. /\ t \in drawn \ ever
        /\ stored \subseteq stored' /\ UNCHANGED <<now, sess, revoked, broken>>
        /\ handed' \subseteq handed \cup {t}
        /\ \A q \in Proc \ {p} : call'[q] = call[q]
    BY <1>9 DEF Save, SaveRow, Goto, Return, Hand, Failed, store, TypeInv, TypeOK, FramesOK, FrameOK
  <2>2. \A q \in Proc \ {p} : call[q].pc \in {"deleteOld", "rollback"} => call[q].fresh # t
    BY <2>1 DEF TypeInv, FramesOK, FrameOK
  <2>3. \/ call'[p] = Idle
        \/ /\ call[p].op = "Rotate" /\ handed' = handed /\ t \in stored'
           /\ call'[p] = [call[p] EXCEPT !.pc = "deleteOld"]
    BY <1>9 DEF Save, SaveRow, Goto, Return, TypeInv, TypeOK
  <2>4. \A q \in Proc \ {p} : PendingFrame(call[q])'
    BY <2>1, <2>2 DEF PendingOK, PendingFrame, Expired, Descends
  <2>5. PendingFrame(call[p])'
    <3>1. call[p].op = "Rotate" => Descends(call[p])
      BY <1>9 DEF Save, SafeInv, LineageOK, LineageFrame
    <3>2. t \notin handed
      BY <2>1 DEF TypeInv, TypeOK
    <3> QED
      BY <2>1, <2>3, <3>1, <3>2 DEF PendingFrame, Descends, Idle, TypeInv, TypeOK, Frame
  <2>6. PendingApart'
    BY <2>1, <2>2, <2>3 DEF PendingOK, PendingApart, Idle, TypeInv, TypeOK, Frame
  <2> QED
    BY <2>4, <2>5, <2>6 DEF PendingOK
<1>10. ASSUME NEW p \in Proc, RotateAtomically(p)
      PROVE  PendingOK'
  <2> DEFINE t == call[p].fresh
  <2>1. /\ t \in drawn \ ever
        /\ call[p].arg \in handed
        /\ call' = [call EXCEPT ![p] = Idle]
        /\ handed' \subseteq handed \cup {t}
        /\ stored \subseteq stored' \cup {call[p].arg} /\ UNCHANGED <<now, sess, revoked>> /\ broken \subseteq broken'
    BY <1>10 DEF RotateAtomically, SwapRows, Return, Hand, Forget, Failed, store, TypeInv, TypeOK, FramesOK, FrameOK, HoldsArg
  <2>2. \A q \in Proc \ {p} : call[q].pc \in {"deleteOld", "rollback"} => call[q].fresh # t
    BY <2>1 DEF TypeInv, FramesOK, FrameOK
  <2> QED
    BY <2>1, <2>2 DEF PendingOK, PendingFrame, PendingApart, Expired, Descends, Idle, TypeInv, TypeOK
<1>11. ASSUME NEW p \in Proc, DeleteOld(p)
      PROVE  PendingOK'
  <2> DEFINE t == call[p].fresh
  <2>1. /\ call[p].arg \in handed
        /\ t \notin handed
        /\ \A q \in Proc \ {p} : call'[q] = call[q]
        /\ stored \subseteq stored' \cup {call[p].arg} /\ UNCHANGED <<now, sess, revoked>> /\ broken \subseteq broken'
        /\ \/ call'[p] = Idle /\ handed' = handed \cup {t}
           \/ call'[p] = [call[p] EXCEPT !.pc = "rollback"] /\ handed' = handed
    BY <1>11 DEF DeleteOld, DeleteRows, Return, Goto, Hand, Forget, Failed, store, TypeInv, TypeOK, FramesOK, FrameOK, HoldsArg,
                 PendingOK, PendingFrame
  <2>2. \A q \in Proc \ {p} : call[q].pc \in {"deleteOld", "rollback"} => call[q].fresh # t
    BY <1>11 DEF DeleteOld, PendingOK, PendingApart
  <2>3. \A q \in Proc \ {p} : PendingFrame(call[q])'
    BY <2>1, <2>2 DEF PendingOK, PendingFrame, Expired, Descends
  <2>4. PendingFrame(call[p])'
    BY <2>1 DEF PendingFrame, Idle, TypeInv, TypeOK, Frame
  <2>5. PendingApart'
    BY <1>11, <2>1, <2>2 DEF DeleteOld, PendingOK, PendingApart, Idle, TypeInv, TypeOK, Frame
  <2> QED
    BY <2>3, <2>4, <2>5 DEF PendingOK
<1>12. ASSUME NEW p \in Proc, Rollback(p)
      PROVE  PendingOK'
  <2>1. /\ call' = [call EXCEPT ![p] = Idle]
        /\ stored \subseteq stored' \cup {call[p].fresh} /\ UNCHANGED <<now, sess, handed, revoked, broken>>
        /\ \A q \in Proc \ {p} : call[q].pc \in {"deleteOld", "rollback"} => call[q].fresh # call[p].fresh
    BY <1>12 DEF Rollback, DeleteRows, Return, Failed, store, PendingOK, PendingApart
  <2> QED
    BY <2>1 DEF PendingOK, PendingFrame, PendingApart, Expired, Descends, Idle, TypeInv, TypeOK
<1>13. CASE Tick
  BY <1>0, <1>13, PendingKept DEF Tick, store
<1>14. CASE UNCHANGED vars
  BY <1>0, <1>14, PendingKept DEF vars, store
<1> QED
  BY <1>1, <1>2, <1>3, <1>4, <1>5, <1>6, <1>7, <1>8, <1>9, <1>10, <1>11, <1>12, <1>13, <1>14 DEF Next

(* The frame of the steps that hand nothing out: what they take from a     *)
(* lineage has expired or they say so.                                     *)
LEMMA StrandedKept ==
  ASSUME TypeInv, NeverStranded, now' \in Nat, now' >= now, handed' = handed,
         \A t \in drawn : sess'[t] = sess[t],
         revoked \subseteq revoked', broken \subseteq broken',
         \A s \in handed \ retired :
           \/ s \notin retired' /\ (s \in stored => s \in stored' \/ Expired(s))
           \/ sess[s].root \in revoked' \cup broken'
  PROVE  NeverStranded'
<1> SUFFICES ASSUME NEW t \in handed, sess[t].root \notin revoked' \cup broken'
             PROVE  \E s \in handed' \ retired' : /\ sess'[s].root = sess'[t].root
                                                   /\ (s \in stored' \/ now' >= sess'[s].expiresAt)
  BY DEF NeverStranded, TypeInv, TypeOK
<1>1. PICK s \in handed \ retired : sess[s].root = sess[t].root /\ (s \in stored \/ Expired(s))
  BY DEF NeverStranded, Expired
<1>2. s \in drawn /\ t \in drawn /\ now \in Nat /\ sess[s].expiresAt \in Nat
  BY DEF TypeInv, TypeOK, Session
<1> QED
  BY <1>1, <1>2 DEF Expired

(* The frame of the steps that hand out a token that is in the store.      *)
LEMMA StrandedHands ==
  ASSUME TypeInv, NeverStranded, NEW new \in drawn \ handed,
         handed' = handed \cup {new}, new \in stored' \/ sess[new].root \in revoked' \cup broken',
         UNCHANGED <<now, sess>>, revoked \subseteq revoked', broken \subseteq broken',
         new \notin retired',
         \A s \in handed \ retired :
           \/ s \notin retired' /\ (s \in stored => s \in stored')
           \/ sess[s].root = sess[new].root
  PROVE  NeverStranded'
<1> SUFFICES ASSUME NEW t \in handed', sess[t].root \notin revoked' \cup broken'
             PROVE  \E s \in handed' \ retired' : /\ sess[s].root = sess[t].root
                                                   /\ (s \in stored' \/ now >= sess[s].expiresAt)
  BY DEF NeverStranded
<1>1. CASE sess[t].root = sess[new].root
  BY <1>1
<1>2. CASE sess[t].root # sess[new].root
  <2>1. PICK s \in handed \ retired : sess[s].root = sess[t].root /\ (s \in stored \/ Expired(s))
    BY <1>2 DEF NeverStranded, Expired
  <2> QED
    BY <1>2, <2>1 DEF Expired
<1> QED
  BY <1>1, <1>2

LEMMA StrandedNext == TypeInv /\ SafeInv /\ RowsOK /\ PendingOK /\ NeverStranded /\ [Next]_vars => NeverStranded'
<1> SUFFICES ASSUME TypeInv, SafeInv, RowsOK, PendingOK, NeverStranded, [Next]_vars PROVE NeverStranded'
  OBVIOUS
<1>0. now \in Nat /\ now >= now
  BY DEF TypeInv, TypeOK
<1>1. ASSUME NEW p \in Proc, NEW u \in User, NEW n \in Tenant, Issue(p, u, n)
      PROVE  NeverStranded'
  BY <1>0, <1>1, StrandedKept DEF Issue, NewSession, Put, drawn
<1>2. ASSUME NEW p \in Proc, RotateDraws(p)
      PROVE  NeverStranded'
  BY <1>0, <1>2, StrandedKept DEF RotateDraws, NewSession, Put, drawn
<1>3. ASSUME NEW p \in Proc, NEW t \in handed, Revoke(p, t)
      PROVE  NeverStranded'
  BY <1>0, <1>3, StrandedKept DEF Revoke, DeleteRows, RootsOf
<1>4. ASSUME NEW p \in Proc, NEW u \in User, DeleteByUser(p, u)
      PROVE  NeverStranded'
  BY <1>0, <1>4, StrandedKept DEF DeleteByUser, EndRevokeAll, DeleteRows, RowsOf, RootsOf
<1>5. ASSUME NEW p \in Proc, DeleteSelected(p)
      PROVE  NeverStranded'
  BY <1>0, <1>5, StrandedKept DEF DeleteSelected, EndRevokeAll, DeleteRows, RootsOf, RowsOK
<1>6. ASSUME NEW p \in Proc, Purge(p)
      PROVE  NeverStranded'
  <2>1. Expired(call[p].arg)
    BY <1>6 DEF Purge, PendingOK, PendingFrame
  <2> QED
    BY <1>0, <1>6, <2>1, StrandedKept DEF Purge, DeleteRows, Failed, store
<1>7. ASSUME NEW p \in Proc,
             \/ (\E t \in handed : FindByToken(p, "Validate", t) \/ FindByToken(p, "Rotate", t))
             \/ (\E u \in User : SelectByUser(p, u))
             \/ CheckExpiry(p) \/ RotateDrawsNothing(p) \/ Crash(p)
      PROVE  NeverStranded'
  BY <1>0, <1>7, StrandedKept DEF FindByToken, SelectByUser, CheckExpiry, RotateDrawsNothing, Crash, store
<1>8. ASSUME NEW p \in Proc, Save(p)
      PROVE  NeverStranded'
  <2>1. CASE handed' = handed
    BY <1>0, <1>8, <2>1, StrandedKept DEF Save, SaveRow, Failed, store
  <2>2. CASE SaveRow(call[p].fresh) /\ Hand(call[p].fresh)
    <3>1. call[p].fresh \in drawn \ ever /\ handed \subseteq ever /\ retired \subseteq handed
      BY <1>8 DEF Save, TypeInv, TypeOK, FramesOK, FrameOK
    <3> QED
      BY <1>8, <2>2, <3>1, StrandedHands DEF Save, SaveRow, Hand
  <2> QED
    BY <1>8, <2>1, <2>2 DEF Save
<1>9. ASSUME NEW p \in Proc, RotateAtomically(p)
      PROVE  NeverStranded'
  <2> DEFINE old == call[p].arg   new == call[p].fresh
  <2>1. /\ new \in drawn \ ever /\ handed \subseteq ever /\ retired \subseteq handed
        /\ sess[new].root = sess[old].root
        /\ old \in handed
    BY <1>9 DEF RotateAtomically, TypeInv, TypeOK, FramesOK, FrameOK, HoldsArg, SafeInv, LineageOK, LineageFrame, Descends
  <2>2. CASE UNCHANGED store
    BY <1>0, <1>9, <2>1, <2>2, StrandedKept DEF RotateAtomically, SwapRows, requireOneRow, store
  <2>3. CASE SwapRows(old, new) /\ Forget(new) /\ UNCHANGED <<handed, retired>>
    BY <1>0, <1>9, <2>1, <2>3, StrandedKept DEF RotateAtomically, SwapRows, Forget
  <2>4. CASE SwapRows(old, new) /\ Hand(new) /\ retired' = retired \cup {old} /\ UNCHANGED broken
    <3>1. UNCHANGED <<now, sess, revoked>>
      BY <1>9, <2>4 DEF RotateAtomically, SwapRows
    <3> HIDE DEF old, new
    <3> QED
      BY <2>1, <2>4, <3>1, StrandedHands DEF SwapRows, Hand
  <2> QED
    BY <1>9, <2>2, <2>3, <2>4 DEF RotateAtomically, Failed
<1>10. ASSUME NEW p \in Proc, DeleteOld(p)
      PROVE  NeverStranded'
  <2> DEFINE old == call[p].arg   new == call[p].fresh
  <2>1. /\ new \in drawn \ handed /\ retired \subseteq handed
        /\ sess[new].root = sess[old].root
        /\ new \in stored \/ sess[new].root \in revoked \cup broken
        /\ old \in handed
    BY <1>10 DEF DeleteOld, TypeInv, TypeOK, FramesOK, FrameOK, HoldsArg, PendingOK, PendingFrame, Descends
  <2>2. CASE UNCHANGED <<store, handed, retired, broken>>
    BY <1>0, <1>10, <2>2, StrandedKept DEF DeleteOld, store
  <2>3. CASE DeleteRows({old}) /\ Forget(new) /\ UNCHANGED <<handed, retired>>
    BY <1>0, <1>10, <2>1, <2>3, StrandedKept DEF DeleteOld, DeleteRows, Forget
  <2>4. CASE DeleteRows({old}) /\ Hand(new) /\ retired' = retired \cup {old} /\ UNCHANGED broken
    <3>1. UNCHANGED <<now, sess, revoked>>
      BY <1>10, <2>4 DEF DeleteOld, DeleteRows
    <3> HIDE DEF old, new
    <3> QED
      BY <2>1, <2>4, <3>1, StrandedHands DEF DeleteRows, Hand
  <2> QED
    BY <1>10, <2>2, <2>3, <2>4 DEF DeleteOld, Failed
<1>11. ASSUME NEW p \in Proc, Rollback(p)
      PROVE  NeverStranded'
  <2>1. call[p].fresh \notin handed
    BY <1>11 DEF Rollback, PendingOK, PendingFrame
  <2> QED
    BY <1>0, <1>11, <2>1, StrandedKept DEF Rollback, DeleteRows, Failed, store
<1>12. CASE Tick \/ UNCHANGED vars
  BY <1>0, <1>12, StrandedKept DEF Tick, vars, store
<1> QED
  BY <1>1, <1>2, <1>3, <1>4, <1>5, <1>6, <1>7, <1>8, <1>9, <1>10, <1>11, <1>12 DEF Next

(* On every kind of store, through races, faults, crashes and expiry: the  *)
(* service alone never logs a user out.                                    *)
THEOREM NobodyIsStranded == Spec => []NeverStranded
<1>1. Init => RowsOK /\ PendingOK /\ NeverStranded
  BY DEF Init, RowsOK, PendingOK, PendingFrame, PendingApart, NeverStranded, Idle
<1> QED
  BY <1>1, TypeInit, TypeNext, SafeInit, SafeNext, RowsNext, PendingNext, StrandedNext, PTL DEF Spec

-----------------------------------------------------------------------------
(* Behind the basic-auth middleware: the module BasicAuth over the same    *)
(* service.  A step of a request is a step of Sessions, or none of it, or  *)
(* one that Sessions does not count: a repository call that fails before   *)
(* it begins a call, or a reader that is lost.                             *)

Loss(p) ==
  /\ Fault
  /\ Return(p) \/ UNCHANGED call
  /\ UNCHANGED <<kind, now, store, handed, retired, revoked, killed, broken>>

(* The inductive invariant of the service.                                 *)
ServiceInv == TypeInv /\ SafeInv /\ RowsOK /\ PendingOK /\ NeverStranded

LEMMA ServiceInit == Init => ServiceInv
<1>1. Init => RowsOK /\ PendingOK /\ NeverStranded
  BY DEF Init, RowsOK, PendingOK, PendingFrame, PendingApart, NeverStranded, Idle
<1> QED
  BY <1>1, TypeInit, SafeInit DEF ServiceInv

LEMMA ServiceNext == ServiceInv /\ [Next]_vars => ServiceInv'
  BY TypeNext, SafeNext, RowsNext, PendingNext, StrandedNext DEF ServiceInv

LEMMA LossKeeps ==
  ASSUME ServiceInv, NEW p \in Proc, Loss(p)
  PROVE  ServiceInv'
<1>0. /\ TypeInv /\ SafeInv /\ RowsOK /\ PendingOK /\ NeverStranded
      /\ UNCHANGED <<kind, now, sess, stored, ever, handed, retired, revoked, killed, broken>>
      /\ faults' \in 0..MaxFaults
      /\ call' \in [Proc -> Frame]
      /\ \A q \in Proc : call'[q] = call[q] \/ call'[q] = Idle
  <2>1. Idle \in Frame
    BY DEF Idle, Frame
  <2> QED
    BY <2>1, ConstantsAssumption DEF ServiceInv, Loss, store, Fault, Return, TypeInv, TypeOK
<1>1. TypeInv'
  <2>1. TypeOK'
    BY <1>0 DEF TypeInv, TypeOK, drawn
  <2>2. \A q \in Proc : FrameOK(call[q])'
    BY <1>0 DEF TypeInv, FramesOK, FrameOK, HoldsArg, Idle, drawn
  <2>3. FreshApart'
    BY <1>0 DEF TypeInv, FramesOK, FreshApart, Idle
  <2> QED
    BY <2>1, <2>2, <2>3 DEF TypeInv, FramesOK
<1>2. SafeInv'
  <2>1. \A q \in Proc : LineageFrame(call[q])'
    BY <1>0 DEF SafeInv, LineageOK, LineageFrame, Descends, Idle
  <2> QED
    BY <1>0, <2>1
    DEF SafeInv, LineageOK, RootsOK, RetiredStaysDead, OneSessionPerLogin, KilledOK, LogoutEverywhereSerial,
        LogoutEverywhere, drawn
<1>3. RowsOK'
  BY <1>0 DEF RowsOK, Idle, drawn
<1>4. PendingOK'
  <2>1. \A q \in Proc : PendingFrame(call[q])'
    BY <1>0 DEF PendingOK, PendingFrame, Descends, Expired, Idle
  <2>2. PendingApart'
    BY <1>0 DEF PendingOK, PendingApart, Idle
  <2> QED
    BY <2>1, <2>2 DEF PendingOK
<1>5. NeverStranded'
  BY <1>0 DEF NeverStranded
<1> QED
  BY <1>1, <1>2, <1>3, <1>4, <1>5 DEF ServiceInv

(* The service call that a request is in.                                  *)
CallOK(r, c) ==
  /\ r.pc = "validate" => /\ c.pc \in {"check", "purge"} /\ c.op = "Validate" /\ c.arg = r.cookie
                          /\ c.pc = "purge" => Expired(r.cookie)
  /\ r.pc = "issue" => c.pc = "save" /\ c.op = "Issue" /\ c.fresh = r.fresh
  /\ r.pc \notin {"validate", "issue"} => c.pc = "idle"

(* The request's answer replaces the browser's cookie, or will.            *)
Replaces(r) == \/ r.pc \in {"handshake", "issue", "setCookie"}
               \/ r.pc = "answered" /\ (r.fresh # None \/ r.answer = "cleared")

(* Whoever replaces a cookie without a fault has found it dead.            *)
RequestOK(r) ==
  /\ r.cookie # None => r.cookie \in handed
  /\ r.pc \in {"idle", "sent", "validate", "handshake"} => r.fresh = None
  /\ r.pc # "answered" => r.answer = "none"
  /\ r.answer = "cleared" => r.fresh = None
  /\ r.pc = "setCookie" => r.fresh \in handed
  /\ r.pc = "answered" /\ r.fresh # None =>
       /\ r.fresh \in handed
       /\ sess[r.fresh].expiresAt < now + r.maxAge * Second + Second
  /\ Replaces(r) /\ ~r.hurt /\ r.cookie # None => r.cookie \notin stored \/ Expired(r.cookie)

RequestsOK == \A p \in Proc : CallOK(request[p], call[p]) /\ RequestOK(request[p])

(* The cookie lapses less than a second before its session.                *)
JarOK == jar.token # None => /\ jar.token \in handed
                             /\ sess[jar.token].expiresAt < jar.until + Second

(* Where the session of a row in the table is.                             *)
Accounted(t) == \/ t = jar.token
                \/ \E p \in Proc : request[p].fresh = t
                \/ t \in orphaned
                \/ sess[t].expiresAt < now + Second

BrowserOK ==
  /\ jar \in Cookie
  /\ request \in [Proc -> Request]
  /\ sent \in 0..MaxRequests
  /\ orphaned \subseteq Token

MiddlewareInv == /\ ServiceInv
                 /\ BrowserOK
                 /\ RequestsOK
                 /\ JarOK
                 /\ \A t \in stored : Accounted(t)

(* The steps of the middleware, as the service sees them.                  *)
LEMMA MiddlewareCalls ==
  ASSUME MiddlewareInv, MiddlewareNext
  PROVE  [Next]_vars \/ \E p \in Proc : Loss(p)
<1>1. ASSUME NEW p \in Proc, RepositoryFails
      PROVE  Loss(p)
  BY <1>1 DEF RepositoryFails, Failed, Loss
<1>2. ASSUME NEW p \in Proc, \E op \in {"Middleware", "Logout"}, u \in User \cup {None} : Send(p, op, u)
      PROVE  UNCHANGED vars
  BY <1>2 DEF Send
<1>3. ASSUME NEW p \in Proc, FindSession(p)
      PROVE  Next \/ UNCHANGED vars \/ Loss(p)
  <2>1. CASE FindByToken(p, "Validate", request[p].cookie)
    <3>1. request[p].cookie \in handed
      BY <2>1, ConstantsAssumption
      DEF FindByToken, MiddlewareInv, ServiceInv, TypeInv, TypeOK, RequestsOK, RequestOK
    <3> QED
      BY <2>1, <3>1 DEF Next
  <2> QED
    BY <1>1, <1>3, <2>1 DEF FindSession
<1>4. ASSUME NEW p \in Proc, RideThrough(p) \/ SessionExpired(p)
      PROVE  Next
  BY <1>4 DEF RideThrough, SessionExpired, Next
<1>5. ASSUME NEW p \in Proc, Challenge(p) \/ BootstrapFails(p) \/ SetCookie(p) \/ Deliver(p)
      PROVE  UNCHANGED vars \/ Loss(p)
  BY <1>1, <1>5 DEF Challenge, BootstrapFails, SetCookie, Deliver
<1>6. ASSUME NEW p \in Proc, Bootstrap(p)
      PROVE  Next
  BY <1>6 DEF Bootstrap, Next, MiddlewareInv, BrowserOK, Request
<1>7. ASSUME NEW p \in Proc, SaveSession(p)
      PROVE  Next
  BY <1>7 DEF SaveSession, Next
<1>8. ASSUME NEW p \in Proc, Logout(p)
      PROVE  Next \/ UNCHANGED vars \/ Loss(p)
  BY <1>1, <1>8 DEF Logout, RevokeCookie, Next, MiddlewareInv, RequestsOK, RequestOK
<1>9. ASSUME NEW p \in Proc, RequestLost(p)
      PROVE  Loss(p)
  BY <1>9 DEF RequestLost, Loss, store
<1>10. ASSUME NEW p \in Proc, NEW u \in User, RevokeAllElsewhere(p, u)
      PROVE  Next
  BY <1>10 DEF RevokeAllElsewhere, Next
<1>11. CASE ClockTick
  BY <1>11 DEF ClockTick, Next
<1> QED
  BY <1>1, <1>2, <1>3, <1>4, <1>5, <1>6, <1>7, <1>8, <1>9, <1>10, <1>11 DEF MiddlewareNext

(* What holds of every step of the service: no session built changes, and  *)
(* none that left the table comes back.                                    *)
Onward ==
  /\ now' \in Nat /\ now' >= now
  /\ handed \subseteq handed'
  /\ \A t \in drawn : t \in drawn' /\ sess'[t] = sess[t]
  /\ stored' \cap ever \subseteq stored

LEMMA ServiceOnward ==
  ASSUME TypeInv, [Next]_vars \/ \E p \in Proc : Loss(p)
  PROVE  Onward
<1>0. now \in Nat /\ now >= now
  BY DEF TypeInv, TypeOK
<1>1. ASSUME UNCHANGED <<now, sess, handed>>, stored' \subseteq stored
      PROVE  Onward
  BY <1>0, <1>1 DEF Onward, drawn
<1>2. ASSUME UNCHANGED <<now, sess>>, handed \subseteq handed',
             NEW t \in drawn \ ever, stored' \subseteq stored \cup {t}
      PROVE  Onward
  BY <1>0, <1>2 DEF Onward, drawn
<1>3. ASSUME NEW t \in Token, NEW u, NEW n, NEW r, NewSession(t, u, n, r)
      PROVE  Onward
  BY <1>0, <1>3 DEF Onward, NewSession, Put, drawn
<1>4. ASSUME NEW p \in Proc, \E u \in User, n \in Tenant : Issue(p, u, n)
      PROVE  Onward
  BY <1>3, <1>4 DEF Issue
<1>5. ASSUME NEW p \in Proc, RotateDraws(p)
      PROVE  Onward
  BY <1>3, <1>5 DEF RotateDraws
<1>6. ASSUME NEW p \in Proc, Save(p) \/ RotateAtomically(p)
      PROVE  Onward
  <2>1. call[p].fresh \in drawn \ ever
    BY <1>6 DEF Save, RotateAtomically, TypeInv, FramesOK, FrameOK
  <2> QED
    BY <1>2, <1>6, <2>1 DEF Save, RotateAtomically, SaveRow, SwapRows, Failed, Hand, store
<1>7. ASSUME NEW p \in Proc, DeleteOld(p)
      PROVE  Onward
  <2>1. /\ UNCHANGED <<now, sess>> /\ stored' \subseteq stored /\ handed \subseteq handed'
    BY <1>7 DEF DeleteOld, DeleteRows, Failed, Hand, store
  <2> QED
    BY <1>0, <2>1 DEF Onward, drawn
<1>8. ASSUME NEW p \in Proc,
             \/ \E t \in handed : FindByToken(p, "Validate", t) \/ FindByToken(p, "Rotate", t) \/ Revoke(p, t)
             \/ CheckExpiry(p) \/ Purge(p) \/ RotateDrawsNothing(p) \/ Rollback(p) \/ Crash(p) \/ Loss(p)
      PROVE  Onward
  BY <1>1, <1>8
  DEF FindByToken, Revoke, CheckExpiry, Purge, RotateDrawsNothing, Rollback, Crash, Loss, DeleteRows, Failed,
      store
<1>9. ASSUME NEW p \in Proc, DeleteSelected(p) \/ \E u \in User : DeleteByUser(p, u) \/ SelectByUser(p, u)
      PROVE  Onward
  BY <1>1, <1>9 DEF DeleteByUser, SelectByUser, DeleteSelected, EndRevokeAll, DeleteRows, store
<1>10. CASE Tick
  BY <1>0, <1>10 DEF Tick, Onward, store, drawn
<1>11. CASE UNCHANGED vars
  BY <1>1, <1>11 DEF vars, store
<1> QED
  BY <1>4, <1>5, <1>6, <1>7, <1>8, <1>9, <1>10, <1>11 DEF Next

(* Steps of others leave a request as it is.                               *)
LEMMA RequestKept ==
  ASSUME TypeInv, BrowserOK, Onward, NEW q \in Proc,
         CallOK(request[q], call[q]), RequestOK(request[q]),
         request'[q] = request[q], call'[q] = call[q]
  PROVE  CallOK(request[q], call[q])' /\ RequestOK(request[q])'
<1> DEFINE r == request[q]
<1>1. /\ now \in Nat /\ now' \in Nat /\ now <= now'
      /\ \A t \in handed : /\ t \in ever /\ t \in handed'
                           /\ sess[t].expiresAt \in Nat /\ sess'[t] = sess[t]
      /\ \A t \in ever : t \in stored' => t \in stored
  BY DEF Onward, TypeInv, TypeOK, Session
<1>2. r.maxAge * Second \in Nat /\ Second \in Nat
  BY MiddlewareAssumption DEF BrowserOK, Request
<1>3. CallOK(request[q], call[q])'
  <2>1. call[q].pc = "purge" => call[q].arg \in handed
    BY DEF TypeInv, FramesOK, FrameOK, HoldsArg
  <2> QED
    BY <1>1, <2>1 DEF CallOK, Expired
<1>4. RequestOK(request[q])'
  BY <1>1, <1>2 DEF RequestOK, Replaces, Expired
<1> QED
  BY <1>3, <1>4

(* A step of one request that leaves the browser alone.                    *)
LEMMA RequestSteps ==
  ASSUME MiddlewareInv, ServiceInv', Onward, NEW p \in Proc, NEW r \in Request,
         request' = [request EXCEPT ![p] = r],
         \A q \in Proc \ {p} : call'[q] = call[q],
         CallOK(r, call[p])', RequestOK(r)',
         UNCHANGED jar, sent' \in 0..MaxRequests,
         orphaned \subseteq orphaned', orphaned' \subseteq Token,
         request[p].fresh = None \/ request[p].fresh = r.fresh \/ request[p].fresh \in orphaned',
         \A t \in stored' \ stored : t = r.fresh \/ t \in orphaned'
  PROVE  MiddlewareInv'
<1> USE DEF MiddlewareInv
<1>1. BrowserOK'
  BY DEF BrowserOK
<1>2. request'[p] = r /\ \A q \in Proc \ {p} : request'[q] = request[q]
  BY DEF BrowserOK
<1>3. RequestsOK'
  <2> SUFFICES ASSUME NEW q \in Proc PROVE CallOK(request[q], call[q])' /\ RequestOK(request[q])'
    BY DEF RequestsOK
  <2>1. CASE q = p
    BY <1>2, <2>1
  <2>2. CASE q # p
    BY <1>2, <2>2, RequestKept DEF RequestsOK, ServiceInv
  <2> QED
    BY <2>1, <2>2
<1>4. JarOK'
  BY DEF JarOK, Onward, ServiceInv, TypeInv, TypeOK
<1>5. ASSUME NEW t \in stored' PROVE Accounted(t)'
  <2>1. CASE t \notin stored
    BY <1>2, <2>1 DEF Accounted
  <2>2. CASE t \in stored
    <3>1. /\ sess'[t] = sess[t] /\ sess[t].expiresAt \in Nat /\ t # None
          /\ now \in Nat /\ now' \in Nat /\ now <= now' /\ Second \in Nat
      BY <2>2, ConstantsAssumption, MiddlewareAssumption DEF Onward, ServiceInv, TypeInv, TypeOK, Session
    <3>2. sess[t].expiresAt < now + Second => sess[t].expiresAt < now' + Second
      BY <3>1
    <3> QED
      BY <1>2, <2>2, <3>1, <3>2 DEF Accounted
  <2> QED
    BY <2>1, <2>2
<1> QED
  BY <1>1, <1>3, <1>4, <1>5

(* Each action keeps the invariant, given that the service keeps its own.  *)
LEMMA SendKeeps ==
  ASSUME MiddlewareInv, ServiceInv', Onward, NEW p \in Proc,
         NEW op \in {"Middleware", "Logout"}, NEW u \in User \cup {None}, Send(p, op, u)
  PROVE  MiddlewareInv'
<1>1. /\ sent' \in 0..MaxRequests /\ orphaned \subseteq Token
      /\ UNCHANGED <<call, stored, now, sess, handed, jar, orphaned>>
      /\ request[p].pc = "idle" /\ call[p].pc = "idle" /\ request[p].fresh = None
  BY MiddlewareAssumption DEF Send, vars, MiddlewareInv, BrowserOK, RequestsOK, RequestOK, store
<1>2. held \in Token \cup {None} /\ (held # None => held \in handed)
  BY DEF held, MiddlewareInv, BrowserOK, Cookie, JarOK
<1>3. PICK r \in Request :
        /\ request' = [request EXCEPT ![p] = r]
        /\ r.pc = "handshake" => held = None
        /\ r.pc \in {"sent", "handshake"} /\ r.cookie = held /\ r.fresh = None /\ r.answer = "none"
  <2> DEFINE r == [NoRequest EXCEPT !.pc = IF op = "Middleware" /\ held = None THEN "handshake" ELSE "sent",
                                 !.op = op, !.cookie = held, !.user = u]
  <2>1. r \in Request /\ r.cookie = held /\ r.fresh = None /\ r.answer = "none"
    BY <1>2 DEF NoRequest, Request
  <2>2. r.pc \in {"sent", "handshake"} /\ (r.pc = "handshake" => held = None)
    BY DEF NoRequest
  <2>3. request' = [request EXCEPT ![p] = r]
    BY DEF Send
  <2> HIDE DEF r
  <2> QED
    BY <2>1, <2>2, <2>3
<1>4. CallOK(r, call[p])'
  BY <1>1, <1>3 DEF CallOK
<1>5. RequestOK(r)'
  BY <1>1, <1>2, <1>3 DEF RequestOK, Replaces
<1> QED
  BY <1>1, <1>3, <1>4, <1>5, RequestSteps

LEMMA FindSessionKeeps ==
  ASSUME MiddlewareInv, ServiceInv', Onward, NEW p \in Proc, FindSession(p)
  PROVE  MiddlewareInv'
<1> DEFINE Is(pc, h) == [request[p] EXCEPT !.pc = pc, !.hurt = h]
<1>0. /\ request \in [Proc -> Request] /\ CallOK(request[p], call[p]) /\ RequestOK(request[p])
      /\ request[p].pc = "sent" /\ call \in [Proc -> Frame]
      /\ sent \in 0..MaxRequests /\ orphaned \subseteq Token
  BY DEF FindSession, MiddlewareInv, BrowserOK, RequestsOK, ServiceInv, TypeInv, TypeOK
<1>1. PICK pc \in {"validate", "handshake"}, h \in BOOLEAN :
        /\ request' = [request EXCEPT ![p] = Is(pc, h)]
        /\ UNCHANGED <<stored, jar, sent, orphaned, handed, now, sess>>
        /\ \A q \in Proc \ {p} : call'[q] = call[q]
        /\ pc = "validate" => /\ call'[p].pc = "check" /\ call'[p].op = "Validate"
                              /\ call'[p].arg = request[p].cookie
        /\ pc = "handshake" => call'[p].pc = "idle" /\ (h \/ request[p].cookie \notin stored)
  <2>1. request[p].hurt \in BOOLEAN /\ request[p] = [request[p] EXCEPT !.hurt = request[p].hurt]
    BY <1>0 DEF Request
  <2>2. CASE FindByToken(p, "Validate", request[p].cookie) /\ Proceed(p, "validate")
    <3>1. Is("validate", request[p].hurt) = [request[p] EXCEPT !.pc = "validate"]
      BY <1>0 DEF Request
    <3> QED
      BY <1>0, <2>1, <2>2, <3>1 DEF FindSession, FindByToken, Begin, Idle, store, Proceed, Become
  <2>3. CASE /\ request[p].cookie \notin stored
             /\ Become(p, Missed(p)) /\ UNCHANGED vars
    <3>1. Is("handshake", request[p].hurt) = Missed(p)
      BY <1>0 DEF Request, Missed
    <3> QED
      BY <1>0, <2>1, <2>3, <3>1 DEF FindSession, Become, vars, CallOK, store
  <2>4. CASE RepositoryFails /\ Hurt(p, "handshake")
    BY <1>0, <2>4 DEF FindSession, RepositoryFails, Failed, store, Hurt, Become, CallOK
  <2> QED
    BY <2>2, <2>3, <2>4 DEF FindSession
<1>2. PICK r \in Request : r = Is(pc, h)
  BY <1>0 DEF Request
<1>3. CallOK(r, call[p])'
  BY <1>0, <1>1, <1>2 DEF CallOK, Request
<1>4. RequestOK(r)'
  BY <1>0, <1>1, <1>2 DEF RequestOK, Replaces, Expired, Request
<1>5. request[p].fresh = r.fresh
  BY <1>0, <1>2 DEF Request
<1> QED
  BY <1>0, <1>1, <1>2, <1>3, <1>4, <1>5, RequestSteps

(* What a request becomes is a request.                                    *)
LEMMA RequestType ==
  ASSUME NEW x \in Request
  PROVE  /\ \A a \in {"401", "500", "cleared"}, h \in BOOLEAN :
              [x EXCEPT !.pc = "answered", !.answer = a, !.hurt = h] \in Request
         /\ \A t \in Token : [x EXCEPT !.pc = "issue", !.fresh = t] \in Request
<1>1. ASSUME NEW a \in {"401", "500", "cleared"}, NEW h \in BOOLEAN
      PROVE  [x EXCEPT !.pc = "answered", !.answer = a, !.hurt = h] \in Request
  BY <1>1 DEF Request
<1>2. ASSUME NEW t \in Token
      PROVE [x EXCEPT !.pc = "issue", !.fresh = t] \in Request
  BY <1>2 DEF Request
<1> QED
  BY <1>1, <1>2

LEMMA ValidateKeeps ==
  ASSUME MiddlewareInv, ServiceInv', Onward, NEW p \in Proc,
         RideThrough(p) \/ SessionExpired(p)
  PROVE  MiddlewareInv'
<1>0. /\ request \in [Proc -> Request] /\ CallOK(request[p], call[p]) /\ RequestOK(request[p])
      /\ request[p].pc = "validate" /\ call \in [Proc -> Frame]
      /\ sent \in 0..MaxRequests /\ orphaned \subseteq Token
  BY DEF RideThrough, SessionExpired, MiddlewareInv, BrowserOK, RequestsOK, ServiceInv, TypeInv, TypeOK
<1>1. CASE RideThrough(p)
  <2>1. PICK r \in Request : r = [request[p] EXCEPT !.pc = "answered", !.answer = "served"]
    BY <1>0 DEF Request
  <2>2. /\ request' = [request EXCEPT ![p] = r] /\ UNCHANGED <<jar, sent, orphaned>>
        /\ UNCHANGED <<stored, handed, now, sess>>
        /\ call' = [call EXCEPT ![p] = Idle]
    BY <1>0, <1>1, <2>1 DEF RideThrough, CheckExpiry, Return, store, AnswerWith, Become, CallOK
  <2>3. CallOK(r, call[p])'
    BY <1>0, <2>1, <2>2 DEF CallOK, Request, Idle
  <2>4. RequestOK(r)'
    BY <1>0, <2>1, <2>2 DEF RequestOK, Replaces, Request
  <2> QED
    BY <1>0, <2>1, <2>2, <2>3, <2>4, RequestSteps DEF RequestOK
<1>2. CASE CheckExpiry(p) /\ Expired(call[p].arg) /\ UNCHANGED <<request, jar, sent, orphaned>>
  <2>1. PICK r \in Request : r = request[p]
    BY <1>0
  <2>2. /\ request' = [request EXCEPT ![p] = r]
        /\ UNCHANGED <<stored, handed, now, sess>>
        /\ call' = [call EXCEPT ![p].pc = "purge"]
    BY <1>0, <1>2, <2>1 DEF CheckExpiry, Goto, store
  <2>3. CallOK(r, call[p])'
    BY <1>0, <1>2, <2>1, <2>2 DEF CallOK, Expired, Frame
  <2>4. RequestOK(r)'
    BY <1>0, <2>1, <2>2 DEF RequestOK, Replaces, Expired
  <2> QED
    BY <1>0, <1>2, <2>1, <2>2, <2>3, <2>4, RequestSteps
<1>3. CASE Purge(p) /\ Become(p, Missed(p)) /\ UNCHANGED orphaned
  <2>1. PICK r \in Request : r = [request[p] EXCEPT !.pc = "handshake"]
    BY <1>0 DEF Request
  <2>2. /\ request' = [request EXCEPT ![p] = r] /\ UNCHANGED <<jar, sent, orphaned>>
        /\ UNCHANGED <<handed, now, sess>> /\ stored' \subseteq stored
        /\ call' = [call EXCEPT ![p] = Idle]
        /\ Expired(request[p].cookie)
    BY <1>0, <1>3, <2>1 DEF Purge, DeleteRows, Failed, Return, store, Missed, Become, CallOK
  <2>3. CallOK(r, call[p])'
    BY <1>0, <2>1, <2>2 DEF CallOK, Request, Idle
  <2>4. RequestOK(r)'
    BY <1>0, <2>1, <2>2 DEF RequestOK, Replaces, Request, Expired
  <2> QED
    BY <1>0, <2>1, <2>2, <2>3, <2>4, RequestSteps DEF RequestOK
<1> QED
  BY <1>1, <1>2, <1>3 DEF SessionExpired

LEMMA HandshakeKeeps ==
  ASSUME MiddlewareInv, ServiceInv', Onward, NEW p \in Proc,
         Challenge(p) \/ BootstrapFails(p) \/ Bootstrap(p)
  PROVE  MiddlewareInv'
<1>0. /\ request \in [Proc -> Request] /\ CallOK(request[p], call[p]) /\ RequestOK(request[p])
      /\ request[p].pc = "handshake" /\ request[p].fresh = None /\ call \in [Proc -> Frame]
      /\ sent \in 0..MaxRequests /\ orphaned \subseteq Token
  BY DEF Challenge, BootstrapFails, Bootstrap, MiddlewareInv, BrowserOK, RequestsOK, RequestOK, ServiceInv,
         TypeInv, TypeOK
<1>1. CASE Challenge(p) \/ BootstrapFails(p)
  <2>1. PICK a \in {"401", "500"}, h \in BOOLEAN :
          /\ request' = [request EXCEPT ![p] = [request[p] EXCEPT !.pc = "answered", !.answer = a, !.hurt = h]]
          /\ UNCHANGED <<jar, sent, orphaned, stored, handed, now, sess, call>>
    <3>1. /\ request[p].hurt \in BOOLEAN
          /\ \A a \in {"401", "500"} :
               [request[p] EXCEPT !.pc = "answered", !.answer = a]
                 = [request[p] EXCEPT !.pc = "answered", !.answer = a, !.hurt = request[p].hurt]
      BY <1>0 DEF Request
    <3> QED
      BY <1>1, <3>1 DEF Challenge, BootstrapFails, AnswerWith, Become, RepositoryFails, Failed, store, vars
  <2>2. PICK r \in Request : r = [request[p] EXCEPT !.pc = "answered", !.answer = a, !.hurt = h]
    BY <1>0, <2>1, RequestType
  <2>3. CallOK(r, call[p])'
    BY <1>0, <2>1, <2>2 DEF CallOK, Request
  <2>4. RequestOK(r)'
    BY <1>0, <2>1, <2>2 DEF RequestOK, Replaces, Request
  <2> QED
    BY <1>0, <2>1, <2>2, <2>3, <2>4, RequestSteps
<1>2. CASE Bootstrap(p)
  <2>1. PICK t \in Token :
          /\ UNCHANGED <<stored, handed, now, jar, sent, orphaned>>
          /\ call' = [call EXCEPT ![p] = [Idle EXCEPT !.pc = "save", !.op = "Issue", !.fresh = t]]
          /\ request' = [request EXCEPT ![p] = [request[p] EXCEPT !.pc = "issue", !.fresh = call'[p].fresh]]
    BY <1>2 DEF Bootstrap, Issue, NewSession, Begin, Become
  <2>2. /\ call'[p].pc = "save" /\ call'[p].op = "Issue" /\ call'[p].fresh = t
        /\ \A q \in Proc \ {p} : call'[q] = call[q]
    BY <1>0, <2>1 DEF Idle
  <2>3. PICK r \in Request : r = [request[p] EXCEPT !.pc = "issue", !.fresh = t]
    BY <1>0, <2>1, RequestType
  <2>4. CallOK(r, call[p])'
    BY <1>0, <2>2, <2>3 DEF CallOK, Request
  <2>5. RequestOK(r)'
    <3>1. request[p].cookie # None =>
            /\ request[p].cookie \in drawn
            /\ Expired(request[p].cookie) => Expired(request[p].cookie)'
      BY <1>0, <2>1 DEF RequestOK, Onward, Expired, MiddlewareInv, ServiceInv, TypeInv, TypeOK
    <3> QED
      BY <1>0, <2>1, <2>3, <3>1 DEF RequestOK, Replaces, Request
  <2> QED
    BY <1>0, <2>1, <2>2, <2>3, <2>4, <2>5, RequestSteps
<1> QED
  BY <1>1, <1>2

LEMMA SaveSessionKeeps ==
  ASSUME MiddlewareInv, ServiceInv', Onward, NEW p \in Proc, SaveSession(p)
  PROVE  MiddlewareInv'
<1> DEFINE t == request[p].fresh
<1>0. /\ request \in [Proc -> Request] /\ CallOK(request[p], call[p]) /\ RequestOK(request[p])
      /\ request[p].pc = "issue" /\ call[p].fresh = t /\ call \in [Proc -> Frame]
      /\ sent \in 0..MaxRequests /\ orphaned \subseteq Token
      /\ t \in drawn \ ever /\ drawn \subseteq Token
  BY DEF SaveSession, MiddlewareInv, BrowserOK, RequestsOK, CallOK, ServiceInv, TypeInv, TypeOK, FramesOK,
         FrameOK
<1>1. /\ UNCHANGED <<now, sess, jar, sent>>
      /\ stored' \subseteq stored \cup {t} /\ handed \subseteq handed'
      /\ call' = [call EXCEPT ![p] = Idle]
  BY <1>0 DEF SaveSession, Save, SaveRow, Failed, Hand, Return, Goto, store, Proceed, Become, CallOK
<1>2. t \in drawn \ stored /\ request[p].cookie # t
  BY <1>0, ConstantsAssumption DEF RequestOK, MiddlewareInv, ServiceInv, TypeInv, TypeOK
<1>3. CASE t \in handed'
  <2>1. PICK r \in Request : r = [request[p] EXCEPT !.pc = "setCookie"]
    BY <1>0 DEF Request
  <2>2. request' = [request EXCEPT ![p] = r] /\ UNCHANGED orphaned
    BY <1>3, <2>1 DEF SaveSession, Proceed, Become
  <2>3. CallOK(r, call[p])'
    BY <1>0, <1>1, <2>1 DEF CallOK, Request, Idle
  <2>4. RequestOK(r)'
    BY <1>0, <1>1, <1>2, <1>3, <2>1 DEF RequestOK, Replaces, Request, Expired
  <2>5. r.fresh = t
    BY <1>0, <2>1 DEF Request
  <2> QED
    BY <1>0, <1>1, <2>2, <2>3, <2>4, <2>5, RequestSteps
<1>4. CASE t \notin handed'
  <2>1. PICK r \in Request : r = [request[p] EXCEPT !.pc = "answered", !.answer = "500", !.fresh = None]
    BY <1>0 DEF Request
  <2>2. request' = [request EXCEPT ![p] = r] /\ orphaned' = orphaned \cup {t}
    BY <1>4, <2>1 DEF SaveSession, Become
  <2>3. CallOK(r, call[p])'
    BY <1>0, <1>1, <2>1 DEF CallOK, Request, Idle
  <2>4. RequestOK(r)'
    BY <1>0, <1>1, <2>1 DEF RequestOK, Replaces, Request
  <2> QED
    BY <1>0, <1>1, <2>2, <2>3, <2>4, RequestSteps
<1> QED
  BY <1>3, <1>4

(* Rounded down to seconds, and to one at least, the cookie's life falls   *)
(* short of the session's by less than a second.                           *)
LEMMA SecondsBound ==
  ASSUME NEW x \in Int
  PROVE  x < MoreOf(x \div Second, 1) * Second + Second
<1> DEFINE q == x \div Second
<1>1. q \in Int /\ x < q * Second + Second /\ Second \in Nat \ {0}
  BY MiddlewareAssumption
<1>2. CASE q < 1
  BY <1>1, <1>2 DEF MoreOf
<1>3. CASE q >= 1
  BY <1>1, <1>3 DEF MoreOf
<1> QED
  BY <1>1, <1>2, <1>3

LEMMA SetCookieKeeps ==
  ASSUME MiddlewareInv, ServiceInv', Onward, NEW p \in Proc, SetCookie(p)
  PROVE  MiddlewareInv'
<1> DEFINE t == request[p].fresh   left == sess[t].expiresAt - now
           age == MoreOf(left \div Second, 1)
<1>0. /\ request \in [Proc -> Request] /\ CallOK(request[p], call[p]) /\ RequestOK(request[p])
      /\ request[p].pc = "setCookie" /\ t \in handed
      /\ sent \in 0..MaxRequests /\ orphaned \subseteq Token
  BY DEF SetCookie, MiddlewareInv, BrowserOK, RequestsOK, RequestOK
<1>1. now \in Nat /\ sess[t].expiresAt \in Nat
  BY <1>0 DEF MiddlewareInv, ServiceInv, TypeInv, TypeOK, Session
<1>2. age \in Nat /\ left < age * Second + Second
  <2>1. left \in Int
    BY <1>1
  <2>2. left \div Second \in Int
    BY <2>1, MiddlewareAssumption
  <2>3. age \in Nat
    BY <2>2 DEF MoreOf
  <2> QED
    BY <2>1, <2>3, SecondsBound
<1>3. PICK r \in Request : r = [request[p] EXCEPT !.pc = "answered", !.answer = "served", !.maxAge = age]
  <2> HIDE DEF age
  <2> QED
    BY <1>0, <1>2 DEF Request
<1>4. request' = [request EXCEPT ![p] = r] /\ UNCHANGED <<now, sess, stored, handed, call, jar, sent, orphaned>>
  BY <1>3 DEF SetCookie, Seconds, Become, vars, store
<1>5. CallOK(r, call[p])'
  BY <1>0, <1>3, <1>4 DEF CallOK, Request
<1>6. /\ r.fresh = t /\ r.maxAge = age /\ r.cookie = request[p].cookie /\ r.hurt = request[p].hurt
      /\ r.pc = "answered" /\ r.answer = "served"
  BY <1>0, <1>3 DEF Request
<1>7. RequestOK(r)'
  <2>1. sess[t].expiresAt < now + age * Second + Second
    <3>1. Second \in Nat /\ age * Second \in Nat
      BY <1>2, MiddlewareAssumption
    <3> HIDE DEF age
    <3> QED
      BY <1>1, <1>2, <3>1
  <2> HIDE DEF age, left
  <2> QED
    BY <1>0, <1>4, <1>6, <2>1 DEF RequestOK, Replaces, Expired
<1> QED
  BY <1>0, <1>4, <1>5, <1>6, <1>7, RequestSteps

LEMMA LogoutKeeps ==
  ASSUME MiddlewareInv, ServiceInv', Onward, NEW p \in Proc, Logout(p)
  PROVE  MiddlewareInv'
<1> DEFINE t == request[p].cookie
<1>0. /\ request \in [Proc -> Request] /\ CallOK(request[p], call[p]) /\ RequestOK(request[p])
      /\ request[p].pc = "sent" /\ request[p].fresh = None /\ call[p].pc = "idle" /\ call \in [Proc -> Frame]
      /\ sent \in 0..MaxRequests /\ orphaned \subseteq Token /\ faults \in Nat
  BY ConstantsAssumption
  DEF Logout, MiddlewareInv, BrowserOK, RequestsOK, RequestOK, CallOK, ServiceInv, TypeInv, TypeOK
<1>1. /\ UNCHANGED <<now, sess, handed, jar, sent, orphaned>>
      /\ stored' \subseteq stored
      /\ call'[p].pc = "idle" /\ \A q \in Proc \ {p} : call'[q] = call[q]
      /\ faults' # faults \/ t = None \/ t \notin stored'
  <2>1. CASE UNCHANGED vars /\ t = None
    BY <1>0, <2>1 DEF Logout, Become, vars, store
  <2>2. CASE Revoke(p, t)
    BY <1>0, <2>2 DEF Logout, Become, Revoke, Begin, DeleteRows, Idle
  <2>3. CASE RepositoryFails
    BY <1>0, <2>3 DEF Logout, Become, RepositoryFails, Failed, Fault, store
  <2> QED
    BY <2>1, <2>2, <2>3 DEF Logout, RevokeCookie
<1>2. (faults' # faults) \in BOOLEAN
  OBVIOUS
<1>3. PICK r \in Request : r = [request[p] EXCEPT !.pc = "answered", !.answer = "cleared", !.hurt = faults' # faults]
  BY <1>0, <1>2, RequestType
<1>4. request' = [request EXCEPT ![p] = r]
  BY <1>3 DEF Logout, Become
<1>5. /\ r.pc = "answered" /\ r.fresh = None /\ r.cookie = t /\ r.answer = "cleared"
      /\ ~r.hurt => faults' = faults
  BY <1>0, <1>3 DEF Request
<1>6. CallOK(r, call[p])'
  BY <1>1, <1>5 DEF CallOK
<1>7. RequestOK(r)'
  BY <1>0, <1>1, <1>5 DEF RequestOK, Replaces
<1> QED
  BY <1>0, <1>1, <1>4, <1>6, <1>7, RequestSteps

LEMMA ElsewhereKeeps ==
  ASSUME MiddlewareInv, ServiceInv', Onward, NEW p \in Proc, NEW u \in User, RevokeAllElsewhere(p, u)
  PROVE  MiddlewareInv'
<1>0. /\ request \in [Proc -> Request] /\ CallOK(request[p], call[p]) /\ RequestOK(request[p])
      /\ request[p].pc = "idle" /\ request[p].fresh = None /\ call \in [Proc -> Frame]
      /\ sent \in 0..MaxRequests /\ orphaned \subseteq Token
  BY DEF RevokeAllElsewhere, MiddlewareInv, BrowserOK, RequestsOK, RequestOK, ServiceInv, TypeInv, TypeOK
<1>1. PICK r \in Request : r = request[p]
  BY <1>0
<1>2. /\ request' = [request EXCEPT ![p] = r] /\ UNCHANGED <<jar, sent, orphaned, now, sess, handed>>
      /\ stored' \subseteq stored /\ call' = [call EXCEPT ![p] = Idle]
  BY <1>0, <1>1 DEF RevokeAllElsewhere, DeleteByUser, EndRevokeAll, DeleteRows, Begin
<1>3. CallOK(r, call[p])'
  BY <1>0, <1>1, <1>2 DEF CallOK, Idle
<1>4. RequestOK(r)'
  BY <1>0, <1>1, <1>2 DEF RequestOK, Replaces
<1> QED
  BY <1>0, <1>1, <1>2, <1>3, <1>4, RequestSteps

LEMMA LostKeeps ==
  ASSUME MiddlewareInv, ServiceInv', Onward, NEW p \in Proc, RequestLost(p)
  PROVE  MiddlewareInv'
<1>0. /\ request \in [Proc -> Request] /\ call \in [Proc -> Frame]
      /\ sent \in 0..MaxRequests /\ orphaned \subseteq Token
  BY DEF MiddlewareInv, BrowserOK, ServiceInv, TypeInv, TypeOK
<1>1. PICK r \in Request : r = NoRequest
  BY DEF NoRequest, Request
<1>2. /\ request' = [request EXCEPT ![p] = r] /\ UNCHANGED <<jar, sent, now, sess, handed, stored>>
      /\ call' = [call EXCEPT ![p] = Idle]
      /\ orphaned' = orphaned \cup ({request[p].fresh} \ {None})
  BY <1>1 DEF RequestLost, Return, Become
<1>3. CallOK(r, call[p])'
  BY <1>0, <1>1, <1>2 DEF CallOK, Idle, NoRequest
<1>4. RequestOK(r)'
  BY <1>1 DEF RequestOK, Replaces, NoRequest
<1>5. request[p].fresh \in Token \cup {None}
  BY <1>0 DEF Request
<1> QED
  BY <1>0, <1>2, <1>3, <1>4, <1>5, RequestSteps

LEMMA DeliverKeeps ==
  ASSUME MiddlewareInv, ServiceInv', Onward, NEW p \in Proc, Deliver(p)
  PROVE  MiddlewareInv'
<1> DEFINE t == request[p].fresh
<1>0. /\ request \in [Proc -> Request] /\ CallOK(request[p], call[p]) /\ RequestOK(request[p])
      /\ call \in [Proc -> Frame] /\ jar \in Cookie
      /\ request[p].pc = "answered" /\ call[p].pc = "idle"
      /\ sent \in 0..MaxRequests /\ orphaned \subseteq Token
      /\ UNCHANGED <<kind, now, sess, stored, call, faults, ever, handed, retired, revoked, killed, broken, sent>>
  BY DEF Deliver, MiddlewareInv, BrowserOK, RequestsOK, CallOK, ServiceInv, TypeInv, TypeOK, vars, store
<1>1. PICK r \in Request : r = NoRequest
  BY DEF NoRequest, Request
<1>2. request' = [request EXCEPT ![p] = r]
  BY <1>1 DEF Deliver
<1>3. CallOK(r, call[p])' /\ RequestOK(r)' /\ r.fresh = None
  BY <1>0, <1>1 DEF CallOK, RequestOK, Replaces, NoRequest
<1>4. /\ now \in Nat /\ Second \in Nat \ {0} /\ None \notin Token
      /\ stored \subseteq Token
      /\ \A s \in stored : sess[s].expiresAt \in Nat
      /\ \A s \in handed : s \in Token
  BY ConstantsAssumption, MiddlewareAssumption DEF MiddlewareInv, ServiceInv, TypeInv, TypeOK, Session
<1>5. CASE UNCHANGED <<jar, orphaned>> /\ t = None
  BY <1>0, <1>2, <1>3, <1>5, RequestSteps
<1>6. CASE /\ Replaces(request[p])
           /\ orphaned' = orphaned \cup Replaced(p)
           /\ jar' \in Cookie
           /\ jar'.token = t
           /\ JarOK'
  <2>1. BrowserOK'
    <3>1. Replaced(p) \subseteq Token
      BY <1>0 DEF Replaced, Cookie
    <3> QED
      BY <1>0, <1>2, <1>6, <3>1 DEF BrowserOK
  <2>2. RequestsOK'
    <3> SUFFICES ASSUME NEW q \in Proc PROVE CallOK(request[q], call[q])' /\ RequestOK(request[q])'
      BY DEF RequestsOK
    <3>1. CASE q = p
      BY <1>0, <1>2, <1>3, <3>1
    <3>2. CASE q # p
      BY <1>0, <1>2, <3>2, RequestKept DEF MiddlewareInv, RequestsOK, ServiceInv
    <3> QED
      BY <3>1, <3>2
  <2>3. ASSUME NEW s \in stored PROVE Accounted(s)'
    <3>1. CASE s = jar.token
      <4>1. CASE request[p].cookie # jar.token \/ request[p].hurt
        BY <1>4, <1>6, <3>1, <4>1 DEF Accounted, Replaced
      <4>2. CASE request[p].cookie = jar.token /\ ~request[p].hurt
        <5>1. now >= sess[s].expiresAt
          BY <1>0, <1>4, <1>6, <3>1, <4>2 DEF RequestOK, Expired
        <5> QED
          BY <1>0, <1>4, <5>1 DEF Accounted
      <4> QED
        BY <4>1, <4>2
    <3>2. CASE \E q \in Proc : request[q].fresh = s
      BY <1>0, <1>2, <1>6, <3>2 DEF Accounted
    <3>3. CASE s \in orphaned \/ sess[s].expiresAt < now + Second
      BY <1>0, <1>6, <3>3 DEF Accounted
    <3> QED
      BY <3>1, <3>2, <3>3 DEF MiddlewareInv, Accounted
  <2> QED
    BY <1>0, <1>6, <2>1, <2>2, <2>3 DEF MiddlewareInv
<1>7. CASE /\ request[p].answer = "served" /\ t # None
           /\ jar' = [token |-> t, until |-> now + request[p].maxAge * Second]
           /\ orphaned' = orphaned \cup Replaced(p)
  <2>1. /\ t \in handed /\ t \in Token /\ request[p].maxAge * Second \in Nat
        /\ sess[t].expiresAt < now + request[p].maxAge * Second + Second
    BY <1>0, <1>4, <1>7 DEF RequestOK, Request
  <2>2. JarOK' /\ jar' \in Cookie
    BY <1>0, <1>4, <1>7, <2>1 DEF JarOK, Cookie
  <2> QED
    BY <1>0, <1>6, <1>7, <2>2 DEF Replaces
<1>8. CASE /\ request[p].answer = "cleared"
           /\ jar' = NoCookie
           /\ orphaned' = orphaned \cup Replaced(p)
  <2>1. t = None
    BY <1>0, <1>8 DEF RequestOK
  <2>2. JarOK' /\ jar' \in Cookie /\ jar'.token = t
    BY <1>8, <2>1 DEF JarOK, Cookie, NoCookie
  <2> QED
    BY <1>0, <1>6, <1>8, <2>2 DEF Replaces
<1> QED
  BY <1>5, <1>7, <1>8 DEF Deliver

LEMMA MiddlewareTickKeeps ==
  ASSUME MiddlewareInv, ServiceInv', Onward,
         UNCHANGED <<jar, request, sent, orphaned, stored, call>>
  PROVE  MiddlewareInv'
<1>1. BrowserOK'
  BY DEF MiddlewareInv, BrowserOK
<1>2. RequestsOK'
  BY RequestKept DEF MiddlewareInv, RequestsOK, ServiceInv
<1>3. JarOK'
  BY DEF MiddlewareInv, JarOK, Onward, ServiceInv, TypeInv, TypeOK
<1>4. ASSUME NEW t \in stored PROVE Accounted(t)'
  <2>1. /\ sess'[t] = sess[t] /\ sess[t].expiresAt \in Nat
        /\ now \in Nat /\ now' \in Nat /\ now <= now' /\ Second \in Nat
    BY MiddlewareAssumption DEF MiddlewareInv, ServiceInv, TypeInv, TypeOK, Session, Onward
  <2> QED
    BY <2>1 DEF MiddlewareInv, Accounted
<1> QED
  BY <1>1, <1>2, <1>3, <1>4 DEF MiddlewareInv

LEMMA MiddlewareStarts == ASSUME MiddlewareInit PROVE MiddlewareInv
<1>1. Init
  BY DEF MiddlewareInit, Init, Idle
<1>2. BrowserOK /\ jar.token = None
  BY MiddlewareAssumption DEF MiddlewareInit, BrowserOK, NoCookie, Cookie, NoRequest, Request
<1>3. RequestsOK
  BY <1>1 DEF MiddlewareInit, Init, Idle, RequestsOK, CallOK, RequestOK, Replaces, NoRequest
<1>4. JarOK /\ stored = {}
  BY <1>1, <1>2 DEF JarOK, Init
<1> QED
  BY <1>1, <1>2, <1>3, <1>4, ServiceInit DEF MiddlewareInv

LEMMA MiddlewareSteps ==
  MiddlewareInv /\ [MiddlewareNext]_allVars => [Next]_vars \/ \E p \in Proc : Loss(p)
<1>1. UNCHANGED allVars => UNCHANGED vars
  BY DEF allVars, vars, store
<1> QED
  BY <1>1, MiddlewareCalls

LEMMA MiddlewareGoesOn == MiddlewareInv /\ [MiddlewareNext]_allVars => MiddlewareInv'
<1> SUFFICES ASSUME MiddlewareInv, [MiddlewareNext]_allVars PROVE MiddlewareInv'
  OBVIOUS
<1>1. [Next]_vars \/ \E p \in Proc : Loss(p)
  BY MiddlewareSteps
<1>2. ServiceInv' /\ Onward
  BY <1>1, ServiceNext, LossKeeps, ServiceOnward DEF MiddlewareInv, ServiceInv
<1>3. ASSUME NEW p \in Proc, \E op \in {"Middleware", "Logout"}, u \in User \cup {None} : Send(p, op, u)
      PROVE  MiddlewareInv'
  BY <1>2, <1>3, SendKeeps
<1>4. ASSUME NEW p \in Proc,
             FindSession(p) \/ RideThrough(p) \/ SessionExpired(p)
      PROVE  MiddlewareInv'
  BY <1>2, <1>4, FindSessionKeeps, ValidateKeeps
<1>5. ASSUME NEW p \in Proc,
             Challenge(p) \/ Bootstrap(p) \/ BootstrapFails(p) \/ SaveSession(p) \/ SetCookie(p)
      PROVE  MiddlewareInv'
  BY <1>2, <1>5, HandshakeKeeps, SaveSessionKeeps, SetCookieKeeps
<1>6. ASSUME NEW p \in Proc,
             Logout(p) \/ Deliver(p) \/ RequestLost(p) \/ \E u \in User : RevokeAllElsewhere(p, u)
      PROVE  MiddlewareInv'
  BY <1>2, <1>6, LogoutKeeps, DeliverKeeps, LostKeeps, ElsewhereKeeps
<1>7. CASE ClockTick \/ UNCHANGED allVars
  <2>1. UNCHANGED <<jar, request, sent, orphaned, stored, call>>
    BY <1>7 DEF ClockTick, Tick, store, allVars, vars
  <2> QED
    BY <1>2, <2>1, MiddlewareTickKeeps
<1> QED
  BY <1>3, <1>4, <1>5, <1>6, <1>7 DEF MiddlewareNext

LEMMA MiddlewareInvariance == MiddlewareSpec => []MiddlewareInv
<1>1. MiddlewareInit => MiddlewareInv
  BY MiddlewareStarts
<1> QED
  BY <1>1, MiddlewareGoesOn, PTL DEF MiddlewareSpec

(* Every variable of the middleware keeps its type.                        *)
THEOREM MiddlewareTypeCorrect == MiddlewareSpec => []MiddlewareTypeOK
<1>1. MiddlewareInv => MiddlewareTypeOK
  <2> SUFFICES ASSUME MiddlewareInv PROVE MiddlewareTypeOK
    OBVIOUS
  <2>1. TypeOK
    BY DEF MiddlewareInv, ServiceInv, TypeInv, TypeOK, drawn, Session, Frame
  <2> QED
    BY <2>1 DEF MiddlewareInv, BrowserOK, MiddlewareTypeOK
<1> QED
  BY <1>1, MiddlewareInvariance, PTL

(* The middleware adds steps that the service alone has not: calls that    *)
(* fail at once and requests that are lost.  What Sessions guarantees      *)
(* holds of it none the less.                                              *)
THEOREM MiddlewareKeepsSessions ==
  MiddlewareSpec =>
    [](RetiredStaysDead /\ OneSessionPerLogin /\ NeverStranded /\ LogoutEverywhereSerial)
<1>1. MiddlewareInv => RetiredStaysDead /\ OneSessionPerLogin /\ NeverStranded /\ LogoutEverywhereSerial
  BY DEF MiddlewareInv, ServiceInv, SafeInv
<1> QED
  BY <1>1, MiddlewareInvariance, PTL

(* Behind the middleware, too, the store is one of credentials.            *)
THEOREM MiddlewareImplementsLedger == MiddlewareSpec => LedgerSpec
<1>1. MiddlewareInit => Ledger!Init
  BY DEF MiddlewareInit, Init, Ledger!Init
<1>2. MiddlewareInv /\ [MiddlewareNext]_allVars => [Ledger!Next]_(Ledger!lvars)
  <2>1. ASSUME NEW p \in Proc, Loss(p) PROVE UNCHANGED Ledger!lvars
    BY <2>1 DEF Loss, store, Ledger!lvars
  <2> QED
    BY <2>1, MiddlewareSteps, LedgerNext DEF MiddlewareInv, ServiceInv
<1> QED
  BY <1>1, <1>2, MiddlewareInvariance, PTL DEF MiddlewareSpec, LedgerSpec, Ledger!Spec

(* Whatever order answers arrive in and whatever is lost: a session that   *)
(* still authenticates is in the browser's cookie, on its way there, or    *)
(* lost for a reason that is no mistake of the middleware's.               *)
THEOREM NoSessionIsOrphaned == MiddlewareSpec => []NoSilentOrphan
<1>1. MiddlewareInv => NoSilentOrphan
  <2> SUFFICES ASSUME MiddlewareInv, NEW t \in live
               PROVE  \/ t = held
                      \/ \E p \in Proc : request[p].fresh = t
                      \/ t \in orphaned
                      \/ sess[t].expiresAt - now < Second
    BY DEF NoSilentOrphan
  <2>1. /\ t \in stored /\ t # None
        /\ now \in Nat /\ sess[t].expiresAt \in Nat /\ Second \in Nat /\ jar.until \in Nat
    BY ConstantsAssumption, MiddlewareAssumption
    DEF live, MiddlewareInv, ServiceInv, TypeInv, TypeOK, Session, BrowserOK, Cookie
  <2>2. sess[t].expiresAt < now + Second => sess[t].expiresAt - now < Second
    BY <2>1
  <2>3. CASE t = jar.token
    <3>1. sess[t].expiresAt < jar.until + Second
      BY <2>1, <2>3 DEF MiddlewareInv, JarOK
    <3>2. CASE now < jar.until
      BY <2>3, <3>2 DEF held
    <3>3. CASE ~(now < jar.until)
      BY <2>1, <3>1, <3>3
    <3> QED
      BY <3>2, <3>3
  <2> QED
    BY <2>1, <2>2, <2>3 DEF MiddlewareInv, Accounted
<1> QED
  BY <1>1, MiddlewareInvariance, PTL

(* Nobody is challenged but for a failing repository who sent right        *)
(* credentials, or a cookie whose session is still alive.                  *)
THEOREM ChallengesAreDue == MiddlewareSpec => NoFalseChallenge
<1> DEFINE Due == \A p \in Proc :
                    request[p].answer = "none" /\ request'[p].answer = "401" /\ ~request'[p].hurt
                      => request[p].user = None /\ request[p].cookie \notin live
<1>1. MiddlewareInv /\ [MiddlewareNext]_allVars => [Due]_allVars
  <2> SUFFICES ASSUME MiddlewareInv, MiddlewareNext, NEW p \in Proc,
                      request[p].answer = "none", request'[p].answer = "401", ~request'[p].hurt
               PROVE  request[p].user = None /\ request[p].cookie \notin live
    OBVIOUS
  <2>1. /\ request \in [Proc -> Request] /\ RequestOK(request[p])
        /\ stored \subseteq Token
    BY DEF MiddlewareInv, BrowserOK, RequestsOK, ServiceInv, TypeInv, TypeOK
  <2>2. Challenge(p)
    <3>1. ASSUME NEW q \in Proc, NEW r, request' = [request EXCEPT ![q] = r], r.answer # "401"
          PROVE  FALSE
      BY <2>1, <3>1
    <3>2. request' # request
      OBVIOUS
    <3>3. ASSUME NEW q \in Proc, Challenge(q) PROVE Challenge(p)
      <4>1. PICK r : request' = [request EXCEPT ![q] = r]
        BY <3>3 DEF Challenge, AnswerWith, Become
      <4>2. q = p
        BY <2>1, <4>1
      <4> QED
        BY <3>3, <4>2
    <3>4. ASSUME NEW q \in Proc, \E op \in {"Middleware", "Logout"}, u \in User \cup {None} : Send(q, op, u)
          PROVE  FALSE
      BY <3>1, <3>4 DEF Send, NoRequest
    <3>5. ASSUME NEW q \in Proc,
                 BootstrapFails(q) \/ RideThrough(q) \/ SetCookie(q) \/ Logout(q) \/ Deliver(q) \/ RequestLost(q)
          PROVE  FALSE
      <4>1. request[q] \in Request
        BY <2>1
      <4>2. CASE BootstrapFails(q)
        BY <3>1, <4>1, <4>2 DEF BootstrapFails, AnswerWith, Become, Request
      <4>3. CASE RideThrough(q)
        BY <3>1, <4>1, <4>3 DEF RideThrough, AnswerWith, Become, Request
      <4>4. CASE SetCookie(q)
        BY <3>1, <4>1, <4>4 DEF SetCookie, Become, Request
      <4>5. CASE Logout(q)
        BY <3>1, <4>1, <4>5 DEF Logout, Become, Request
      <4>6. CASE Deliver(q) \/ RequestLost(q)
        BY <3>1, <4>6 DEF Deliver, RequestLost, Become, NoRequest
      <4> QED
        BY <3>5, <4>2, <4>3, <4>4, <4>5, <4>6
    <3>6. ASSUME NEW q \in Proc,
                 FindSession(q) \/ SessionExpired(q) \/ Bootstrap(q) \/ SaveSession(q)
          PROVE  FALSE
      <4>1. /\ request[q] \in Request /\ request[q].answer = "none"
        BY <2>1, <3>6
        DEF FindSession, SessionExpired, Bootstrap, SaveSession, MiddlewareInv, RequestsOK, RequestOK
      <4>2. CASE FindSession(q)
        <5>1. CASE Proceed(q, "validate")
          BY <3>1, <4>1, <5>1 DEF Proceed, Become, Request
        <5>2. CASE Become(q, Missed(q))
          BY <3>1, <4>1, <5>2 DEF Missed, Become, Request
        <5>3. CASE Hurt(q, "handshake")
          BY <3>1, <4>1, <5>3 DEF Hurt, Become, Request
        <5> QED
          BY <4>2, <5>1, <5>2, <5>3 DEF FindSession
      <4>3. CASE SessionExpired(q)
        BY <3>1, <3>2, <4>1, <4>3 DEF SessionExpired, Missed, Become, Request
      <4>4. CASE Bootstrap(q)
        BY <3>1, <4>1, <4>4 DEF Bootstrap, Become, Request
      <4>5. CASE SaveSession(q)
        <5>1. CASE Proceed(q, "setCookie")
          BY <3>1, <4>1, <5>1 DEF Proceed, Become, Request
        <5>2. CASE Become(q, [request[q] EXCEPT !.pc = "answered", !.answer = "500", !.fresh = None])
          BY <3>1, <4>1, <5>2 DEF Become, Request
        <5> QED
          BY <4>5, <5>1, <5>2 DEF SaveSession
      <4> QED
        BY <3>6, <4>2, <4>3, <4>4, <4>5
    <3>7. ~ClockTick /\ ~(\E q \in Proc, u \in User : RevokeAllElsewhere(q, u))
      BY <3>2 DEF ClockTick, RevokeAllElsewhere
    <3> QED
      BY <3>3, <3>4, <3>5, <3>6, <3>7 DEF MiddlewareNext
  <2>3. request[p].user = None /\ request[p].pc = "handshake" /\ ~request[p].hurt
    <3>1. request[p] \in Request
      BY <2>1
    <3>2. CASE request[p].user = None /\ AnswerWith(p, "401")
      <4>1. request'[p].hurt = request[p].hurt
        BY <2>1, <3>1, <3>2 DEF AnswerWith, Become, Request
      <4> QED
        BY <2>2, <3>2, <4>1 DEF Challenge
    <3>3. CASE Become(p, [request[p] EXCEPT !.pc = "answered", !.answer = "401", !.hurt = TRUE])
      <4>1. request'[p].hurt
        BY <2>1, <3>1, <3>3 DEF Become, Request
      <4> QED
        BY <4>1
    <3> QED
      BY <2>2, <3>2, <3>3 DEF Challenge
  <2> QED
    BY <2>1, <2>3, ConstantsAssumption DEF RequestOK, Replaces, live, Expired
<1>2. NoFalseChallenge <=> [][Due]_allVars
  BY DEF NoFalseChallenge
<1> QED
  BY <1>1, <1>2, MiddlewareInvariance, PTL DEF MiddlewareSpec
=============================================================================
