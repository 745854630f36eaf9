------------------------- MODULE WorkloadKeysProofs -------------------------
(***************************************************************************)
(* What WorkloadKeys guarantees for every set of goroutines, workers,      *)
(* words, requests and keys, any expiry and any number of failures.        *)
(***************************************************************************)
EXTENDS WorkloadKeys, TLAPS

-----------------------------------------------------------------------------
(* Scopes.                                                                 *)

(* A scope NewScope accepted survives the trip through a column of text.   *)
LEMMA ReadBackKeeps == ASSUME NEW scope \in Scope PROVE ReadBack(scope) = scope
<1>1. ASSUME NEW seg \in Segment
      PROVE  <<seg[Len(seg)]>> = seg /\ <<Head(seg)>> = seg
  BY <1>1 DEF Segment
<1>2. ASSUME NEW e \in scope
      PROVE  [resource |-> <<e.resource[Len(e.resource)]>>, action |-> <<Head(e.action)>>] = e
  BY <1>1, <1>2 DEF Scope
<1> QED
  BY <1>2 DEF ReadBack

(* What the code's matching allows is what the words mean.                 *)
LEMMA AllowsMeaning ==
  ASSUME NEW scope \in Scope, NEW q \in Permission
  PROVE  Allows(scope, q) <=> q \in Meaning(scope)
<1>1. ASSUME NEW seg \in Segment, NEW w \in Word
      PROVE  seg \in {<<w>>, <<"*">>} <=> w \in Named(seg)
  <2>1. PICK x \in Word \cup {"*"} : seg = <<x>>
    BY <1>1 DEF Segment
  <2>2. CASE x = "*"
    BY <2>1, <2>2 DEF Named
  <2>3. CASE x # "*"
    <3>1. x \in Word /\ <<x>> # <<"*">> /\ Named(seg) = {x}
      BY <2>1, <2>3 DEF Named
    <3> QED
      BY <2>1, <3>1
  <2> QED
    BY <2>2, <2>3
<1>2. ASSUME NEW e \in scope
      PROVE  Matches(e, q) <=> q \in [resource : Named(e.resource), action : Named(e.action)]
  <2>1. /\ e.resource \in Segment /\ e.action \in Segment
        /\ q.resource \in Word /\ q.action \in Word
        /\ q = [resource |-> q.resource, action |-> q.action]
    BY <1>2 DEF Scope, Permission
  <2> QED
    BY <1>1, <2>1 DEF Matches
<1> QED
  BY <1>2 DEF Allows, Meaning

-----------------------------------------------------------------------------
(* The inductive invariant.                                                *)

HoldsOld == {"issue", "swap", "deleteOld", "rollback"}

(* What holds of a goroutine between two steps of its call.                *)
FrameOK(c) ==
  /\ c.pc \in HoldsOld => c.old \in ever
  /\ c.pc = "create" /\ c.op = "RotateKey" => c.old \in ever
  /\ c.pc = "check" => c.old \in handed
  /\ c.pc \in {"create", "swap"} => c.fresh \in drawn \ ever
  /\ c.pc \in {"deleteOld", "rollback"} => c.fresh \in ever
  /\ c.pc = "deleteEach" => c.rows \subseteq c.named /\ c.named \subseteq ever

(* A key is built by one goroutine and stored at most once.                *)
FreshApart ==
  \A p, q \in Proc :
    /\ p # q
    /\ call[p].pc \in {"create", "swap"}
    /\ call[q].pc \in {"create", "swap"}
    => call[p].fresh # call[q].fresh

(* Every key holds what one of the accepted requests asked for, and a      *)
(* lineage what was granted to its first key.                              *)
ColumnsOK ==
  \A k \in drawn :
    /\ key[k].scope \in Request
    /\ key[k].root \in drawn
    /\ key[key[k].root].workerID = key[k].workerID
    /\ key[key[k].root].scope = key[k].scope
    /\ key[key[k].root].expiresAt = key[k].expiresAt

TypeInv == /\ TypeOK
           /\ \A p \in Proc : FrameOK(call[p])
           /\ FreshApart
           /\ ColumnsOK

-----------------------------------------------------------------------------
(* Its first half, action by action.                                       *)

LEMMA TypeInit == Init => TypeInv
  BY ConstantsAssumption
  DEF Init, TypeInv, TypeOK, FrameOK, FreshApart, ColumnsOK, HoldsOld, Idle, Frame, drawn

LEMMA GetKeyType ==
  ASSUME TypeInv, NEW p \in Proc, NEW k \in stored, GetKey(p, k)
  PROVE  TypeInv'
<1> USE ConstantsAssumption DEF GetKey, Begin
<1>1. TypeOK'
  BY DEF TypeInv, TypeOK, FrameOK, HoldsOld, Frame, Idle, drawn, APIKey, table, outcomes, history
<1>2. \A q \in Proc : FrameOK(call[q])'
  BY DEF TypeInv, TypeOK, FrameOK, FreshApart, HoldsOld, Frame, Idle, drawn, table, outcomes, history
<1>3. FreshApart'
  BY DEF TypeInv, TypeOK, FrameOK, FreshApart, Frame, Idle, drawn, table, outcomes, history
<1>4. ColumnsOK'
  BY DEF TypeInv, TypeOK, ColumnsOK, drawn, table, outcomes, history
<1> QED
  BY <1>1, <1>2, <1>3, <1>4 DEF TypeInv

LEMMA GetKeyByHashType ==
  ASSUME TypeInv, NEW p \in Proc, NEW k \in stored, GetKeyByHash(p, k)
  PROVE  TypeInv'
<1> USE ConstantsAssumption DEF GetKeyByHash, Begin
<1>1. TypeOK'
  BY DEF TypeInv, TypeOK, FrameOK, HoldsOld, Frame, Idle, drawn, APIKey, table, outcomes, history
<1>2. \A q \in Proc : FrameOK(call[q])'
  BY DEF TypeInv, TypeOK, FrameOK, FreshApart, HoldsOld, Frame, Idle, drawn, table, outcomes, history
<1>3. FreshApart'
  BY DEF TypeInv, TypeOK, FrameOK, FreshApart, Frame, Idle, drawn, table, outcomes, history
<1>4. ColumnsOK'
  BY DEF TypeInv, TypeOK, ColumnsOK, drawn, table, outcomes, history
<1> QED
  BY <1>1, <1>2, <1>3, <1>4 DEF TypeInv

LEMMA RevokeKeyType ==
  ASSUME TypeInv, NEW p \in Proc, NEW k \in stored, RevokeKey(p, k)
  PROVE  TypeInv'
<1> USE ConstantsAssumption DEF RevokeKey, Begin, Delete, RootsOf, requireOneRow, Done, Lost
<1>1. TypeOK'
  BY DEF TypeInv, TypeOK, FrameOK, HoldsOld, Frame, Idle, drawn, APIKey, table, outcomes, history
<1>2. \A q \in Proc : FrameOK(call[q])'
  BY DEF TypeInv, TypeOK, FrameOK, FreshApart, HoldsOld, Frame, Idle, drawn, table, outcomes, history
<1>3. FreshApart'
  BY DEF TypeInv, TypeOK, FrameOK, FreshApart, Frame, Idle, drawn, table, outcomes, history
<1>4. ColumnsOK'
  BY DEF TypeInv, TypeOK, ColumnsOK, drawn, table, outcomes, history
<1> QED
  BY <1>1, <1>2, <1>3, <1>4 DEF TypeInv

LEMMA ListKeysType ==
  ASSUME TypeInv, NEW p \in Proc, NEW w \in Worker, ListKeys(p, w)
  PROVE  TypeInv'
<1> USE ConstantsAssumption DEF ListKeys, Begin, RootsOf
<1>1. TypeOK'
  <2> DEFINE S == {k \in stored : key[k].workerID = w}
  <2>1. S \in SUBSET Key /\ RootsOf(S) \in SUBSET Key
    BY DEF TypeInv, TypeOK, APIKey
  <2> HIDE DEF S
  <2>2. [Idle EXCEPT !.pc = "deleteEach", !.op = "RevokeAllKeys",
                     !.rows = S, !.named = S, !.known = RootsOf(S)] \in Frame /\ Idle \in Frame
    BY <2>1 DEF Idle, Frame
  <2>3. call' \in [Proc -> Frame]
    BY <2>2 DEF S, TypeInv, TypeOK
  <2>4. calm' \in [Proc -> SUBSET Key]
    BY <2>1 DEF S, TypeInv, TypeOK
  <2> QED
    BY <2>3, <2>4 DEF TypeInv, TypeOK, drawn, table, outcomes, history
<1>2. \A q \in Proc : FrameOK(call[q])'
  BY DEF TypeInv, TypeOK, FrameOK, FreshApart, HoldsOld, Frame, Idle, drawn, table, outcomes, history
<1>3. FreshApart'
  BY DEF TypeInv, TypeOK, FrameOK, FreshApart, Frame, Idle, drawn, table, outcomes, history
<1>4. ColumnsOK'
  BY DEF TypeInv, TypeOK, ColumnsOK, drawn, table, outcomes, history
<1> QED
  BY <1>1, <1>2, <1>3, <1>4 DEF TypeInv

LEMMA ScopeAccepted == ASSUME NEW s \in Request, NewScope(s) PROVE s \in Scope
  BY ConstantsAssumption DEF NewScope, validScopeSegment, Scope

(* A key is drawn, with columns in order.                                  *)
LEMMA DrawType ==
  ASSUME TypeInv, NEW k \in Key \ drawn, NEW columns \in APIKey, Draw(k, columns)
  PROVE  /\ drawn' = drawn \cup {k}
         /\ key' \in [drawn' -> APIKey]
         /\ key'[k] = columns
         /\ \A j \in drawn : key'[j] = key[j]
         /\ UNCHANGED <<atomic, now, stored, ever, faults, history>>
  BY DEF Draw, Put, drawn, TypeInv, TypeOK

LEMMA IssueKeyType ==
  ASSUME TypeInv, NEW p \in Proc, NEW w \in Worker, NEW s \in Request, NEW e \in 1..MaxExpiry,
         IssueKey(p, w, s, e)
  PROVE  TypeInv'
<1> DEFINE frame(k) == [Idle EXCEPT !.pc = "create", !.op = "IssueKey", !.fresh = k]
           columns(k) == [workerID |-> w, scope |-> s, expiresAt |-> e, root |-> k]
<1>1. PICK k \in Key \ drawn : Draw(k, columns(k)) /\ Begin(p, frame(k))
  BY DEF IssueKey, Draw
<1>2. columns(k) \in APIKey
  BY ConstantsAssumption, ScopeAccepted DEF IssueKey, APIKey
<1> HIDE DEF columns
<1>3. /\ drawn' = drawn \cup {k}
      /\ key' \in [drawn' -> APIKey]
      /\ key'[k] = columns(k)
      /\ \A j \in drawn : key'[j] = key[j]
      /\ UNCHANGED <<atomic, now, stored, ever, faults, history>>
  BY <1>1, <1>2, DrawType
<1>4. call' = [call EXCEPT ![p] = frame(k)] /\ frame(k) \in Frame
  BY <1>1 DEF Begin, Frame, Idle
<1>5. TypeOK'
  BY <1>3, <1>4 DEF TypeInv, TypeOK, outcomes, history
<1>6. \A q \in Proc : FrameOK(call[q])'
  BY <1>3, <1>4 DEF TypeInv, TypeOK, FrameOK, HoldsOld, Idle, outcomes, history
<1>7. FreshApart'
  BY <1>3, <1>4 DEF TypeInv, TypeOK, FrameOK, FreshApart, Idle
<1>8. ColumnsOK'
  BY <1>3 DEF TypeInv, TypeOK, ColumnsOK, columns
<1> QED
  BY <1>5, <1>6, <1>7, <1>8 DEF TypeInv

LEMMA InheritKeeps ==
  ASSUME TypeInv, NEW k \in drawn
  PROVE  Inherit(k) = key[k] /\ Inherit(k) \in APIKey
  BY ReadBackKeeps DEF Inherit, APIKey, TypeInv, TypeOK

LEMMA RotateIssuesType ==
  ASSUME TypeInv, NEW p \in Proc, RotateIssues(p)
  PROVE  TypeInv'
<1> DEFINE frame(k) == [call[p] EXCEPT !.fresh = k, !.pc = IF atomic THEN "swap" ELSE "create"]
<1>1. PICK old \in drawn : old = call[p].old /\ old \in ever
  BY DEF RotateIssues, TypeInv, TypeOK, FrameOK, HoldsOld
<1>0. call \in [Proc -> Frame] /\ call[p] \in Frame
  BY DEF TypeInv, TypeOK
<1>2. PICK k \in Key \ drawn : Draw(k, Inherit(old)) /\ call' = [call EXCEPT ![p] = frame(k)]
  <2>1. PICK k \in Key \ drawn :
             /\ Draw(k, Inherit(old))
             /\ call' = [call EXCEPT ![p].fresh = k, ![p].pc = IF atomic THEN "swap" ELSE "create"]
    BY <1>1 DEF RotateIssues, Draw
  <2>2. call' = [call EXCEPT ![p] = frame(k)]
    BY <1>0, <2>1
  <2> QED
    BY <2>1, <2>2
<1>3. /\ drawn' = drawn \cup {k}
      /\ key' \in [drawn' -> APIKey]
      /\ key'[k] = key[old]
      /\ \A j \in drawn : key'[j] = key[j]
      /\ UNCHANGED <<atomic, now, stored, ever, faults, history>>
  BY <1>1, <1>2, DrawType, InheritKeeps
<1>4. frame(k) \in Frame
  BY <1>0 DEF Frame
<1>5. TypeOK'
  BY <1>2, <1>3, <1>4 DEF TypeInv, TypeOK, outcomes, history
<1>6. \A q \in Proc : FrameOK(call[q])'
  BY <1>1, <1>2, <1>3 DEF TypeInv, TypeOK, FrameOK, HoldsOld, Frame, outcomes, history
<1>7. FreshApart'
  BY <1>2, <1>3 DEF TypeInv, TypeOK, FrameOK, FreshApart, Frame
<1>8. ColumnsOK'
  BY <1>1, <1>3 DEF TypeInv, TypeOK, ColumnsOK
<1> QED
  BY <1>5, <1>6, <1>7, <1>8 DEF TypeInv

LEMMA RotateRefusesType ==
  ASSUME TypeInv, NEW p \in Proc, RotateRefuses(p)
  PROVE  TypeInv'
<1> USE ConstantsAssumption DEF RotateRefuses, Return
<1>1. TypeOK'
  BY DEF TypeInv, TypeOK, FrameOK, HoldsOld, Frame, Idle, drawn, APIKey, table, outcomes, history
<1>2. \A q \in Proc : FrameOK(call[q])'
  BY DEF TypeInv, TypeOK, FrameOK, FreshApart, HoldsOld, Frame, Idle, drawn, table, outcomes, history
<1>3. FreshApart'
  BY DEF TypeInv, TypeOK, FrameOK, FreshApart, Frame, Idle, drawn, table, outcomes, history
<1>4. ColumnsOK'
  BY DEF TypeInv, TypeOK, ColumnsOK, drawn, table, outcomes, history
<1> QED
  BY <1>1, <1>2, <1>3, <1>4 DEF TypeInv

LEMMA AuthorizeType ==
  ASSUME TypeInv, NEW p \in Proc, Authorize(p)
  PROVE  TypeInv'
<1> USE ConstantsAssumption DEF Authorize, Return
<1>1. TypeOK'
  BY DEF TypeInv, TypeOK, FrameOK, HoldsOld, Frame, Idle, drawn, APIKey, table, outcomes, history
<1>2. \A q \in Proc : FrameOK(call[q])'
  BY DEF TypeInv, TypeOK, FrameOK, FreshApart, HoldsOld, Frame, Idle, drawn, table, outcomes, history
<1>3. FreshApart'
  BY DEF TypeInv, TypeOK, FrameOK, FreshApart, Frame, Idle, drawn, table, outcomes, history
<1>4. ColumnsOK'
  BY DEF TypeInv, TypeOK, ColumnsOK, drawn, table, outcomes, history
<1> QED
  BY <1>1, <1>2, <1>3, <1>4 DEF TypeInv

LEMMA CreateKeyType ==
  ASSUME TypeInv, NEW p \in Proc, CreateKey(p)
  PROVE  TypeInv'
<1> USE ConstantsAssumption DEF CreateKey, Insert, Goto, Return, Hand, Done, Lost, Failed
<1>1. TypeOK'
  <2>1. call' \in [Proc -> Frame]
    BY DEF TypeInv, TypeOK, Frame, Idle
  <2>2. call[p].fresh \in drawn
    BY DEF TypeInv, FrameOK
  <2> QED
    BY <2>1, <2>2 DEF TypeInv, TypeOK, drawn, table
<1>2. \A q \in Proc : FrameOK(call[q])'
  BY DEF TypeInv, TypeOK, FrameOK, FreshApart, HoldsOld, Frame, Idle, drawn, table, outcomes, history
<1>3. FreshApart'
  BY DEF TypeInv, TypeOK, FrameOK, FreshApart, Frame, Idle, drawn, table, outcomes, history
<1>4. ColumnsOK'
  BY DEF TypeInv, TypeOK, ColumnsOK, drawn, table, outcomes, history
<1> QED
  BY <1>1, <1>2, <1>3, <1>4 DEF TypeInv

LEMMA RotateAtomicallyType ==
  ASSUME TypeInv, NEW p \in Proc, RotateAtomically(p)
  PROVE  TypeInv'
<1> USE ConstantsAssumption DEF RotateAtomically, requireOneRow, Return, Succeed, Forget, Hand, Done, Lost, Failed
<1>1. TypeOK'
  BY DEF TypeInv, TypeOK, FrameOK, HoldsOld, Frame, Idle, drawn, APIKey, table, outcomes, history
<1>2. \A q \in Proc : FrameOK(call[q])'
  BY DEF TypeInv, TypeOK, FrameOK, FreshApart, HoldsOld, Frame, Idle, drawn, table, outcomes, history
<1>3. FreshApart'
  BY DEF TypeInv, TypeOK, FrameOK, FreshApart, Frame, Idle, drawn, table, outcomes, history
<1>4. ColumnsOK'
  BY DEF TypeInv, TypeOK, ColumnsOK, drawn, table, outcomes, history
<1> QED
  BY <1>1, <1>2, <1>3, <1>4 DEF TypeInv

LEMMA DeleteOldType ==
  ASSUME TypeInv, NEW p \in Proc, DeleteOld(p)
  PROVE  TypeInv'
<1> USE ConstantsAssumption DEF DeleteOld, requireOneRow, Delete, Return, Goto, Succeed, Forget, Hand, Done, Lost, Failed
<1>1. TypeOK'
  <2>1. call' \in [Proc -> Frame]
    BY DEF TypeInv, TypeOK, Frame, Idle
  <2>2. call[p].fresh \in ever /\ call[p].old \in ever
    BY DEF TypeInv, FrameOK, HoldsOld
  <2>3. key[call[p].old].root \in Key
    BY <2>2 DEF TypeInv, TypeOK, APIKey
  <2>4. UNCHANGED <<atomic, now, key, ever, revoked, dropped, killed>> /\ stored' \subseteq stored
    BY DEF table
  <2>5. faults' \in 0..MaxFaults /\ handed' \subseteq ever
    BY <2>2 DEF TypeInv, TypeOK
  <2>6. heirs' \subseteq Key \X Key /\ broken' \subseteq Key
    BY <2>2, <2>3 DEF TypeInv, TypeOK
  <2> QED
    BY <2>1, <2>4, <2>5, <2>6 DEF TypeInv, TypeOK, drawn
<1>2. \A q \in Proc : FrameOK(call[q])'
  <2>1. UNCHANGED <<key, ever>> /\ handed \subseteq handed'
    BY DEF table
  <2>2. call'[p] = Idle \/ call'[p] = [call[p] EXCEPT !.pc = "rollback"]
    BY DEF TypeInv, TypeOK
  <2>3. FrameOK(call[p])'
    BY <2>1, <2>2 DEF TypeInv, TypeOK, FrameOK, HoldsOld, Idle, Frame
  <2>4. \A q \in Proc \ {p} : call'[q] = call[q]
    BY DEF TypeInv, TypeOK
  <2> QED
    BY <2>1, <2>3, <2>4 DEF TypeInv, FrameOK, drawn
<1>3. FreshApart'
  BY DEF TypeInv, TypeOK, FrameOK, FreshApart, Frame, Idle, drawn, table, outcomes, history
<1>4. ColumnsOK'
  BY DEF TypeInv, TypeOK, ColumnsOK, drawn, table, outcomes, history
<1> QED
  BY <1>1, <1>2, <1>3, <1>4 DEF TypeInv

LEMMA RollbackType ==
  ASSUME TypeInv, NEW p \in Proc, Rollback(p)
  PROVE  TypeInv'
<1> USE ConstantsAssumption DEF Rollback, Delete, Undo, Return, Done, Lost, Failed
<1>1. TypeOK'
  BY DEF TypeInv, TypeOK, FrameOK, HoldsOld, Frame, Idle, drawn, APIKey, table, outcomes, history
<1>2. \A q \in Proc : FrameOK(call[q])'
  BY DEF TypeInv, TypeOK, FrameOK, FreshApart, HoldsOld, Frame, Idle, drawn, table, outcomes, history
<1>3. FreshApart'
  BY DEF TypeInv, TypeOK, FrameOK, FreshApart, Frame, Idle, drawn, table, outcomes, history
<1>4. ColumnsOK'
  BY DEF TypeInv, TypeOK, ColumnsOK, drawn, table, outcomes, history
<1> QED
  BY <1>1, <1>2, <1>3, <1>4 DEF TypeInv

LEMMA DeleteNextType ==
  ASSUME TypeInv, NEW p \in Proc, DeleteNext(p)
  PROVE  TypeInv'
<1> USE ConstantsAssumption DEF DeleteNext, Rest, Delete, RootsOf, Return, Done, LoopOver
<1>1. TypeOK'
  <2>1. call[p].rows \subseteq ever /\ call[p].named \subseteq ever /\ call[p].known \subseteq Key
    BY DEF TypeInv, TypeOK, FrameOK, Frame
  <2>2. PICK k \in ever :
             /\ stored' = stored \ {k}
             /\ dropped' = dropped \cup {key[k].root}
             /\ \/ call' = [call EXCEPT ![p].rows = call[p].rows \ {k}] /\ UNCHANGED <<revoked, killed>>
                \/ /\ call' = [call EXCEPT ![p] = Idle]
                   /\ revoked' = revoked \cup call[p].named
                   /\ killed' = killed \cup call[p].known
    BY <2>1
  <2>3. call' \in [Proc -> Frame]
    BY <2>1, <2>2 DEF TypeInv, TypeOK, Frame, Idle
  <2>4. key[k].root \in Key
    BY DEF TypeInv, TypeOK, APIKey
  <2>5. UNCHANGED <<atomic, now, key, ever, faults, handed, heirs, broken>>
    OBVIOUS
  <2>6. calm' \in [Proc -> SUBSET Key] /\ ended' \subseteq Key
    BY DEF TypeInv, TypeOK
  <2> QED
    BY <2>1, <2>2, <2>3, <2>4, <2>5, <2>6 DEF TypeInv, TypeOK, drawn
<1>2. \A q \in Proc : FrameOK(call[q])'
  BY DEF TypeInv, TypeOK, FrameOK, FreshApart, HoldsOld, Frame, Idle, drawn, table, outcomes, history
<1>3. FreshApart'
  BY DEF TypeInv, TypeOK, FrameOK, FreshApart, Frame, Idle, drawn, table, outcomes, history
<1>4. ColumnsOK'
  BY DEF TypeInv, TypeOK, ColumnsOK, drawn, table, outcomes, history
<1> QED
  BY <1>1, <1>2, <1>3, <1>4 DEF TypeInv

LEMMA DeleteNextFailsType ==
  ASSUME TypeInv, NEW p \in Proc, DeleteNextFails(p)
  PROVE  TypeInv'
<1> USE ConstantsAssumption DEF DeleteNextFails, Delete, RootsOf, Return, Lost, Failed
<1>1. TypeOK'
  <2>1. calm' \in [Proc -> SUBSET Key]
    BY DEF TypeInv, TypeOK, LoopOver
  <2>2. call' \in [Proc -> Frame]
    BY DEF TypeInv, TypeOK, Idle, Frame
  <2>3. faults' \in 0..MaxFaults
    BY DEF TypeInv, TypeOK
  <2>4. UNCHANGED <<atomic, now, key, ever, handed, heirs, revoked, broken, killed, ended>> /\ stored' \subseteq stored
    BY DEF table, outcomes
  <2>5. dropped' \subseteq Key
    BY DEF TypeInv, TypeOK, APIKey, Frame, FrameOK, drawn
  <2> QED
    BY <2>1, <2>2, <2>3, <2>4, <2>5 DEF TypeInv, TypeOK, drawn
<1>2. \A q \in Proc : FrameOK(call[q])'
  BY DEF TypeInv, TypeOK, FrameOK, FreshApart, HoldsOld, Frame, Idle, drawn, table, outcomes, history
<1>3. FreshApart'
  BY DEF TypeInv, TypeOK, FrameOK, FreshApart, Frame, Idle, drawn, table, outcomes, history
<1>4. ColumnsOK'
  BY DEF TypeInv, TypeOK, ColumnsOK, drawn, table, outcomes, history
<1> QED
  BY <1>1, <1>2, <1>3, <1>4 DEF TypeInv

LEMMA CrashType ==
  ASSUME TypeInv, NEW p \in Proc, Crash(p)
  PROVE  TypeInv'
<1> USE ConstantsAssumption DEF Crash, Return, Lost
<1>1. TypeOK'
  <2>1. calm' \in [Proc -> SUBSET Key]
    BY DEF TypeInv, TypeOK, LoopOver
  <2>2. call' \in [Proc -> Frame]
    BY DEF TypeInv, TypeOK, Idle, Frame
  <2>3. faults' \in 0..MaxFaults
    BY DEF TypeInv, TypeOK
  <2>4. UNCHANGED <<atomic, now, key, ever, handed, heirs, revoked, broken, killed, ended>> /\ stored' \subseteq stored
    BY DEF table, outcomes
  <2>5. dropped' \subseteq Key
    BY DEF TypeInv, TypeOK, outcomes
  <2> QED
    BY <2>1, <2>2, <2>3, <2>4, <2>5 DEF TypeInv, TypeOK, drawn
<1>2. \A q \in Proc : FrameOK(call[q])'
  BY DEF TypeInv, TypeOK, FrameOK, FreshApart, HoldsOld, Frame, Idle, drawn, table, outcomes, history
<1>3. FreshApart'
  BY DEF TypeInv, TypeOK, FrameOK, FreshApart, Frame, Idle, drawn, table, outcomes, history
<1>4. ColumnsOK'
  BY DEF TypeInv, TypeOK, ColumnsOK, drawn, table, outcomes, history
<1> QED
  BY <1>1, <1>2, <1>3, <1>4 DEF TypeInv

LEMMA TickType == ASSUME TypeInv, Tick PROVE TypeInv'
  BY DEF Tick, table, outcomes, history, TypeInv, TypeOK, FrameOK, FreshApart, ColumnsOK, HoldsOld, drawn

LEMMA StutterType == ASSUME TypeInv, UNCHANGED vars PROVE TypeInv'
  BY DEF vars, table, outcomes, history, TypeInv, TypeOK, FrameOK, FreshApart, ColumnsOK, HoldsOld, drawn

LEMMA TypeNext == TypeInv /\ [Next]_vars => TypeInv'
<1> SUFFICES ASSUME TypeInv, [Next]_vars PROVE TypeInv'
  OBVIOUS
<1>1. ASSUME NEW p \in Proc, NEW w \in Worker, NEW s \in Request, NEW e \in 1..MaxExpiry,
             IssueKey(p, w, s, e)
      PROVE  TypeInv'
  BY <1>1, IssueKeyType
<1>2. ASSUME NEW p \in Proc, NEW k \in stored, GetKey(p, k) \/ GetKeyByHash(p, k) \/ RevokeKey(p, k)
      PROVE  TypeInv'
  BY <1>2, GetKeyType, GetKeyByHashType, RevokeKeyType
<1>3. ASSUME NEW p \in Proc, NEW w \in Worker, ListKeys(p, w)
      PROVE  TypeInv'
  BY <1>3, ListKeysType
<1>4. ASSUME NEW p \in Proc, RotateIssues(p) \/ RotateRefuses(p) \/ Authorize(p)
      PROVE  TypeInv'
  BY <1>4, RotateIssuesType, RotateRefusesType, AuthorizeType
<1>5. ASSUME NEW p \in Proc, CreateKey(p) \/ RotateAtomically(p) \/ DeleteOld(p) \/ Rollback(p)
      PROVE  TypeInv'
  BY <1>5, CreateKeyType, RotateAtomicallyType, DeleteOldType, RollbackType
<1>6. ASSUME NEW p \in Proc, DeleteNext(p) \/ DeleteNextFails(p) \/ Crash(p)
      PROVE  TypeInv'
  BY <1>6, DeleteNextType, DeleteNextFailsType, CrashType
<1>7. CASE Tick
  BY <1>7, TickType
<1>8. CASE UNCHANGED vars
  BY <1>8, StutterType
<1> QED
  BY <1>1, <1>2, <1>3, <1>4, <1>5, <1>6, <1>7, <1>8 DEF Next

(* Every variable keeps its type: a key's columns are those of a valid     *)
(* request, only stored keys are handed out, replaced or revoked.          *)
THEOREM TypeCorrect == Spec => []TypeOK
<1>1. TypeInv => TypeOK
  BY DEF TypeInv
<1> QED
  BY <1>1, TypeInit, TypeNext, PTL DEF Spec

-----------------------------------------------------------------------------
(* Its second half.                                                        *)

(* The key under construction is the one presented under a new name.       *)
Descends(c) == key[c.fresh] = key[c.old]

(* A key about to be stored is the first of its lineage or descends from   *)
(* one that was stored; what a loop has deleted does not come back.        *)
LineageFrame(c) ==
  /\ c.pc = "issue" => c.op = "RotateKey"
  /\ c.pc = "swap" => atomic /\ Descends(c)
  /\ c.pc = "create" => \/ /\ c.op = "IssueKey"
                           /\ key[c.fresh].root = c.fresh
                           /\ \A k \in ever : key[k].root # c.fresh
                        \/ c.op = "RotateKey" /\ ~atomic /\ Descends(c)
  /\ c.pc = "deleteOld" => ~atomic /\ Descends(c)
  /\ c.pc = "deleteEach" => (c.named \ c.rows) \cap stored = {}

SafeInv == /\ SpentStaysDead
           /\ \A p \in Proc : LineageFrame(call[p])
           /\ OneHeir
           /\ NeverTwoKeys

(* The frame of one goroutine, while others store nothing.                 *)
LEMMA LineageKept ==
  ASSUME TypeInv, SafeInv, NEW q \in Proc, call'[q] = call[q],
         UNCHANGED <<atomic, ever>>, stored' \subseteq stored,
         \A k \in drawn : key'[k] = key[k]
  PROVE  LineageFrame(call[q])'
<1>1. PICK c \in Frame : c = call[q] /\ c = call'[q]
  BY DEF TypeInv, TypeOK
<1>2. LineageFrame(c)
  BY <1>1 DEF SafeInv
<1>3. c.pc \in {"create", "swap", "deleteOld"} => key'[c.fresh] = key[c.fresh]
  BY <1>1 DEF TypeInv, TypeOK, FrameOK
<1>4. c.pc \in {"swap", "deleteOld"} \/ (c.pc = "create" /\ c.op = "RotateKey") => key'[c.old] = key[c.old]
  BY <1>1 DEF TypeInv, TypeOK, FrameOK, HoldsOld
<1>5. \A k \in ever : key'[k] = key[k]
  BY DEF TypeInv, TypeOK
<1>6. LineageFrame(c)'
  <2>0. atomic' <=> atomic
    OBVIOUS
  <2>1. c.pc = "create" /\ c.op = "IssueKey" => \A k \in ever' : key'[k].root # c.fresh
    BY <1>2, <1>5 DEF LineageFrame
  <2>2. c.pc = "create" /\ c.op = "IssueKey" => key'[c.fresh].root = c.fresh
    BY <1>2, <1>3 DEF LineageFrame
  <2>3. c.pc \in {"swap", "deleteOld"} \/ (c.pc = "create" /\ c.op = "RotateKey") => Descends(c)'
    BY <1>2, <1>3, <1>4 DEF LineageFrame, Descends
  <2>4. c.pc = "deleteEach" => (c.named \ c.rows) \cap stored' = {}
    BY <1>2 DEF LineageFrame
  <2>5. /\ c.pc = "issue" => c.op = "RotateKey"
        /\ c.pc = "swap" => atomic'
        /\ c.pc = "create" => c.op = "IssueKey" \/ (c.op = "RotateKey" /\ ~atomic')
        /\ c.pc = "deleteOld" => ~atomic'
    BY <1>2, <2>0 DEF LineageFrame
  <2> QED
    BY <2>1, <2>2, <2>3, <2>4, <2>5 DEF LineageFrame
<1> QED
  BY <1>1, <1>6

(* The frame of the steps that store nothing and spend nothing.            *)
LEMMA SafeKept ==
  ASSUME TypeInv, SafeInv,
         UNCHANGED <<atomic, ever, heirs, revoked>>, stored' \subseteq stored,
         \A k \in drawn : key'[k] = key[k],
         \A q \in Proc : \/ call'[q] = call[q]
                         \/ call'[q].pc \in {"idle", "check", "rollback"}
                         \/ call'[q].pc = "issue" /\ call'[q].op = "RotateKey"
  PROVE  SafeInv'
<1>1. SpentStaysDead'
  BY DEF SafeInv, SpentStaysDead
<1>2. ASSUME NEW q \in Proc
      PROVE  LineageFrame(call[q])'
  <2>1. CASE call'[q] = call[q]
    BY <2>1, LineageKept
  <2>2. CASE call'[q] # call[q]
    BY <2>2 DEF LineageFrame
  <2> QED
    BY <2>1, <2>2
<1>3. OneHeir'
  BY DEF SafeInv, OneHeir
<1>4. NeverTwoKeys'
  BY DEF SafeInv, NeverTwoKeys, TypeInv, TypeOK
<1> QED
  BY <1>1, <1>2, <1>3, <1>4 DEF SafeInv

LEMMA IssueKeySafe ==
  ASSUME TypeInv, SafeInv, NEW p \in Proc, NEW w \in Worker, NEW s \in Request, NEW e \in 1..MaxExpiry,
         IssueKey(p, w, s, e)
  PROVE  SafeInv'
<1>1. PICK k \in Key \ drawn :
           /\ Draw(k, [workerID |-> w, scope |-> s, expiresAt |-> e, root |-> k])
           /\ Begin(p, [Idle EXCEPT !.pc = "create", !.op = "IssueKey", !.fresh = k])
  BY DEF IssueKey, Draw
<1>2. /\ key'[k].root = k
      /\ \A j \in drawn : key'[j] = key[j]
      /\ UNCHANGED <<atomic, stored, ever, heirs, revoked>>
  BY <1>1 DEF Draw, Put, drawn, outcomes, history
<1>3. ASSUME NEW q \in Proc
      PROVE  LineageFrame(call[q])'
  <2>1. CASE q = p
    <3>1. \A j \in ever : key[j].root # k
      BY DEF TypeInv, TypeOK, ColumnsOK
    <3>2. \A j \in ever : key'[j].root # k
      BY <1>2, <3>1 DEF TypeInv, TypeOK
    <3>3. call'[p].pc = "create" /\ call'[p].op = "IssueKey" /\ call'[p].fresh = k
      BY <1>1 DEF Begin, Idle, TypeInv, TypeOK
    <3> QED
      BY <1>2, <2>1, <3>2, <3>3 DEF LineageFrame
  <2>2. CASE q # p
    <3>1. call'[q] = call[q]
      BY <1>1, <2>2 DEF Begin, TypeInv, TypeOK
    <3> QED
      BY <1>2, <3>1, LineageKept
  <2> QED
    BY <2>1, <2>2
<1> QED
  BY <1>2, <1>3 DEF SafeInv, SpentStaysDead, OneHeir, NeverTwoKeys, TypeInv, TypeOK

LEMMA RotateIssuesSafe ==
  ASSUME TypeInv, SafeInv, NEW p \in Proc, RotateIssues(p)
  PROVE  SafeInv'
<1>1. PICK old \in drawn : old = call[p].old /\ old \in ever
  BY DEF RotateIssues, TypeInv, TypeOK, FrameOK, HoldsOld
<1>2. PICK k \in Key \ drawn :
           /\ Draw(k, Inherit(old))
           /\ call' = [call EXCEPT ![p].fresh = k, ![p].pc = IF atomic THEN "swap" ELSE "create"]
  BY <1>1 DEF RotateIssues, Draw
<1>3. /\ key'[k] = key[old]
      /\ \A j \in drawn : key'[j] = key[j]
      /\ UNCHANGED <<atomic, stored, ever, heirs, revoked>>
  BY <1>1, <1>2, InheritKeeps DEF Draw, Put, drawn, outcomes, history
<1>4. ASSUME NEW q \in Proc
      PROVE  LineageFrame(call[q])'
  <2>1. CASE q = p
    <3>1. /\ call'[p].pc = IF atomic THEN "swap" ELSE "create"
          /\ call'[p].fresh = k /\ call'[p].old = old /\ call'[p].op = call[p].op
      BY <1>1, <1>2 DEF TypeInv, TypeOK, Frame
    <3>2. call[p].op = "RotateKey"
      BY DEF RotateIssues, SafeInv, LineageFrame
    <3> QED
      BY <1>1, <1>3, <2>1, <3>1, <3>2 DEF LineageFrame, Descends
  <2>2. CASE q # p
    <3>1. call'[q] = call[q]
      BY <1>2, <2>2 DEF TypeInv, TypeOK
    <3> QED
      BY <1>3, <3>1, LineageKept
  <2> QED
    BY <2>1, <2>2
<1> QED
  BY <1>3, <1>4 DEF SafeInv, SpentStaysDead, OneHeir, NeverTwoKeys, TypeInv, TypeOK

LEMMA ListKeysSafe ==
  ASSUME TypeInv, SafeInv, NEW p \in Proc, NEW w \in Worker, ListKeys(p, w)
  PROVE  SafeInv'
<1>1. UNCHANGED <<atomic, key, stored, ever, heirs, revoked>>
  BY DEF ListKeys, table, outcomes, history
<1>2. ASSUME NEW q \in Proc
      PROVE  LineageFrame(call[q])'
  <2>1. \/ call'[q] = call[q]
        \/ call'[q].pc = "idle"
        \/ call'[q].pc = "deleteEach" /\ call'[q].named = call'[q].rows
    BY DEF ListKeys, Begin, Idle, TypeInv, TypeOK
  <2> QED
    BY <1>1, <2>1 DEF SafeInv, LineageFrame, Descends
<1> QED
  BY <1>1, <1>2 DEF SafeInv, SpentStaysDead, OneHeir, NeverTwoKeys

LEMMA RevokeKeySafe ==
  ASSUME TypeInv, SafeInv, NEW p \in Proc, NEW k \in stored, RevokeKey(p, k)
  PROVE  SafeInv'
<1>1. /\ UNCHANGED <<atomic, key, ever, heirs>>
      /\ stored' = stored \ {k} /\ revoked' \subseteq revoked \cup {k}
  BY DEF RevokeKey, Delete
<1>2. ASSUME NEW q \in Proc
      PROVE  LineageFrame(call[q])'
  <2>1. call'[q] = call[q] \/ call'[q].pc = "idle"
    BY DEF RevokeKey, Begin, Idle, TypeInv, TypeOK
  <2> QED
    BY <1>1, <2>1 DEF SafeInv, LineageFrame, Descends
<1> QED
  BY <1>1, <1>2 DEF SafeInv, SpentStaysDead, OneHeir, NeverTwoKeys, TypeInv, TypeOK

LEMMA CreateKeySafe ==
  ASSUME TypeInv, SafeInv, NEW p \in Proc, CreateKey(p)
  PROVE  SafeInv'
<1> DEFINE k == call[p].fresh
<1>1. k \in drawn \ ever /\ UNCHANGED <<atomic, key, heirs, revoked>>
  BY DEF CreateKey, Insert, Failed, table, TypeInv, FrameOK
<1>2. CASE UNCHANGED table
  <2>1. \A q \in Proc : call'[q] = call[q] \/ call'[q].pc = "idle"
    BY <1>1, <1>2 DEF CreateKey, Insert, Return, Idle, table, TypeInv, TypeOK
  <2> QED
    BY <1>1, <1>2, <2>1, SafeKept DEF table
<1>3. CASE stored' = stored \cup {k} /\ ever' = ever \cup {k}
  <2>1. LineageFrame(call[p])
    BY DEF SafeInv
  <2>2. /\ \/ call'[p].pc = "idle"
           \/ call[p].op = "RotateKey" /\ call'[p] = [call[p] EXCEPT !.pc = "deleteOld"]
        /\ \A q \in Proc \ {p} : call'[q] = call[q]
    BY DEF CreateKey, Return, Goto, Idle, TypeInv, TypeOK
  <2>3. ASSUME NEW q \in Proc
        PROVE  LineageFrame(call[q])'
    <3>1. CASE q = p
      BY <1>1, <2>1, <2>2, <3>1 DEF CreateKey, LineageFrame, Descends, TypeInv, TypeOK, Frame
    <3>2. CASE q # p
      <4>1. call'[q] = call[q] /\ LineageFrame(call[q])
        BY <2>2, <3>2 DEF SafeInv
      <4>2. call[q].pc = "create" /\ call[q].op = "IssueKey" => key[k].root # call[q].fresh
        <5> SUFFICES ASSUME call[q].pc = "create", call[q].op = "IssueKey"
                     PROVE  key[k].root # call[q].fresh
          OBVIOUS
        <5>1. call[q].fresh # k
          BY <3>2 DEF CreateKey, TypeInv, FreshApart
        <5>2. call[q].fresh \notin {key[j].root : j \in ever}
          BY <4>1 DEF LineageFrame
        <5>3. call[p].op = "RotateKey" => call[p].old \in ever /\ key[k].root = key[call[p].old].root
          BY <2>1 DEF CreateKey, LineageFrame, Descends, TypeInv, FrameOK
        <5> QED
          BY <2>1, <5>1, <5>2, <5>3 DEF CreateKey, LineageFrame
      <4>3. call[q].pc = "deleteEach" => k \notin call[q].named
        BY <1>1 DEF TypeInv, FrameOK
      <4> QED
        BY <1>1, <1>3, <4>1, <4>2, <4>3 DEF LineageFrame, Descends
    <3> QED
      BY <3>1, <3>2
  <2>4. SpentStaysDead' /\ OneHeir'
    BY <1>1, <1>3 DEF SafeInv, SpentStaysDead, OneHeir, TypeInv, TypeOK
  <2>5. NeverTwoKeys'
    <3>1. atomic => \A j \in ever : key[j].root # key[k].root
      BY <2>1 DEF CreateKey, LineageFrame
    <3> QED
      BY <1>1, <1>3, <3>1 DEF SafeInv, NeverTwoKeys, TypeInv, TypeOK
  <2> QED
    BY <2>3, <2>4, <2>5 DEF SafeInv
<1> QED
  BY <1>2, <1>3 DEF CreateKey, Insert, Failed

LEMMA RotateAtomicallySafe ==
  ASSUME TypeInv, SafeInv, NEW p \in Proc, RotateAtomically(p)
  PROVE  SafeInv'
<1> DEFINE old == call[p].old   new == call[p].fresh
<1>1. /\ new \in drawn \ ever /\ UNCHANGED <<atomic, key, revoked>>
      /\ call' = [call EXCEPT ![p] = Idle]
  BY DEF RotateAtomically, Return, Failed, table, TypeInv, FrameOK
<1>2. CASE UNCHANGED <<table, heirs>>
  <2>1. \A q \in Proc : call'[q] = call[q] \/ call'[q].pc = "idle"
    BY <1>1 DEF Idle, TypeInv, TypeOK
  <2> QED
    BY <1>1, <1>2, <2>1, SafeKept DEF table
<1>3. CASE /\ old \in stored
           /\ stored' = (stored \ {old}) \cup {new} /\ ever' = ever \cup {new}
           /\ heirs' \in {heirs, heirs \cup {<<old, new>>}}
  <2>1. /\ key[new] = key[old] /\ atomic
        /\ old \in ever
    BY <1>3 DEF RotateAtomically, SafeInv, LineageFrame, Descends, TypeInv, TypeOK
  <2>2. ASSUME NEW q \in Proc
        PROVE  LineageFrame(call[q])'
    <3>1. CASE q = p
      BY <1>1, <3>1 DEF LineageFrame, Idle, TypeInv, TypeOK
    <3>2. CASE q # p
      <4>1. call'[q] = call[q] /\ LineageFrame(call[q])
        BY <1>1, <3>2 DEF SafeInv, TypeInv, TypeOK
      <4>2. call[q].pc = "deleteEach" => new \notin call[q].named
        BY <1>1 DEF TypeInv, FrameOK
      <4> QED
        BY <1>1, <1>3, <2>1, <4>1, <4>2 DEF LineageFrame, Descends
    <3> QED
      BY <3>1, <3>2
  <2>3. SpentStaysDead'
    <3>1. {h[1] : h \in heirs'} \subseteq {h[1] : h \in heirs} \cup {old}
      BY <1>3
    <3> QED
      BY <1>1, <1>3, <2>1, <3>1 DEF SafeInv, SpentStaysDead
  <2>4. OneHeir'
    <3>1. \A h \in heirs : h[1] # old
      BY <1>3 DEF SafeInv, SpentStaysDead
    <3> QED
      BY <1>3, <3>1 DEF SafeInv, OneHeir
  <2>5. NeverTwoKeys'
    BY <1>1, <1>3, <2>1 DEF SafeInv, NeverTwoKeys
  <2> QED
    BY <2>2, <2>3, <2>4, <2>5 DEF SafeInv
<1> QED
  BY <1>2, <1>3 DEF RotateAtomically, requireOneRow, Succeed, Forget, Failed

LEMMA DeleteOldSafe ==
  ASSUME TypeInv, SafeInv, NEW p \in Proc, DeleteOld(p)
  PROVE  SafeInv'
<1> DEFINE old == call[p].old   new == call[p].fresh
<1>1. /\ UNCHANGED <<atomic, key, ever, revoked>> /\ stored' \subseteq stored
      /\ \A q \in Proc : call'[q] = call[q] \/ call'[q].pc \in {"idle", "rollback"}
  BY DEF DeleteOld, Delete, Return, Goto, Failed, Idle, table, TypeInv, TypeOK, Frame
<1>2. CASE heirs' = heirs
  BY <1>1, <1>2, SafeKept
<1>3. CASE old \in stored /\ stored' = stored \ {old} /\ heirs' = heirs \cup {<<old, new>>}
  <2>1. ASSUME NEW q \in Proc
        PROVE  LineageFrame(call[q])'
    <3>1. LineageFrame(call[q])
      BY DEF SafeInv
    <3> QED
      BY <1>1, <3>1 DEF LineageFrame, Descends
  <2>2. SpentStaysDead'
    <3>1. {h[1] : h \in heirs'} \subseteq {h[1] : h \in heirs} \cup {old}
      BY <1>3
    <3> QED
      BY <1>1, <1>3, <3>1 DEF SafeInv, SpentStaysDead, TypeInv, TypeOK
  <2>3. OneHeir'
    <3>1. \A h \in heirs : h[1] # old
      BY <1>3 DEF SafeInv, SpentStaysDead
    <3> QED
      BY <1>3, <3>1 DEF SafeInv, OneHeir
  <2>4. NeverTwoKeys'
    BY <1>1 DEF SafeInv, NeverTwoKeys
  <2> QED
    BY <2>1, <2>2, <2>3, <2>4 DEF SafeInv
<1> QED
  BY <1>2, <1>3 DEF DeleteOld, requireOneRow, Delete, Succeed, Forget

LEMMA DeleteNextSafe ==
  ASSUME TypeInv, SafeInv, NEW p \in Proc, DeleteNext(p)
  PROVE  SafeInv'
<1>1. PICK k \in call[p].rows :
           /\ stored' = stored \ {k}
           /\ \/ call' = [call EXCEPT ![p].rows = call[p].rows \ {k}] /\ UNCHANGED revoked
              \/ /\ call[p].rows \ {k} = {}
                 /\ call' = [call EXCEPT ![p] = Idle]
                 /\ revoked' = revoked \cup call[p].named
  BY DEF DeleteNext, Rest, Delete, Return
<1>2. UNCHANGED <<atomic, key, ever, heirs>>
  BY DEF DeleteNext, Delete
<1>3. /\ call[p].pc = "deleteEach"
      /\ (call[p].named \ call[p].rows) \cap stored = {}
      /\ call[p].named \subseteq ever
  BY DEF DeleteNext, SafeInv, LineageFrame, TypeInv, FrameOK
<1>4. ASSUME NEW q \in Proc
      PROVE  LineageFrame(call[q])'
  <2>1. LineageFrame(call[q])
    BY DEF SafeInv
  <2>2. CASE q = p
    <3>1. \/ call'[p].pc = "idle"
          \/ /\ call'[p].pc = "deleteEach" /\ call'[p].named = call[p].named
             /\ call'[p].rows = call[p].rows \ {k}
      BY <1>1, <1>3 DEF Idle, TypeInv, TypeOK, Frame
    <3> QED
      BY <1>1, <1>3, <2>2, <3>1 DEF LineageFrame
  <2>3. CASE q # p
    <3>1. call'[q] = call[q]
      BY <1>1, <2>3 DEF TypeInv, TypeOK
    <3> QED
      BY <1>1, <1>2, <2>1, <3>1 DEF LineageFrame, Descends
  <2> QED
    BY <2>2, <2>3
<1>5. SpentStaysDead'
  BY <1>1, <1>2, <1>3 DEF SafeInv, SpentStaysDead
<1> QED
  BY <1>1, <1>2, <1>4, <1>5 DEF SafeInv, OneHeir, NeverTwoKeys

LEMMA SafeInit == Init => SafeInv
  BY DEF Init, Idle, SafeInv, SpentStaysDead, LineageFrame, OneHeir, NeverTwoKeys

LEMMA SafeNext == TypeInv /\ SafeInv /\ [Next]_vars => SafeInv'
<1> SUFFICES ASSUME TypeInv, SafeInv, [Next]_vars PROVE SafeInv'
  OBVIOUS
<1>1. ASSUME NEW p \in Proc, NEW w \in Worker, NEW s \in Request, NEW e \in 1..MaxExpiry,
             IssueKey(p, w, s, e)
      PROVE  SafeInv'
  BY <1>1, IssueKeySafe
<1>2. ASSUME NEW p \in Proc, NEW k \in stored, GetKey(p, k) \/ GetKeyByHash(p, k)
      PROVE  SafeInv'
  <2>1. \A q \in Proc : \/ call'[q] = call[q]
                        \/ call'[q].pc = "check"
                        \/ call'[q].pc = "issue" /\ call'[q].op = "RotateKey"
    BY <1>2 DEF GetKey, GetKeyByHash, Begin, Idle, TypeInv, TypeOK
  <2> QED
    BY <1>2, <2>1, SafeKept DEF GetKey, GetKeyByHash, table, outcomes, history
<1>3. ASSUME NEW p \in Proc, NEW k \in stored, RevokeKey(p, k)
      PROVE  SafeInv'
  BY <1>3, RevokeKeySafe
<1>4. ASSUME NEW p \in Proc, NEW w \in Worker, ListKeys(p, w)
      PROVE  SafeInv'
  BY <1>4, ListKeysSafe
<1>5. ASSUME NEW p \in Proc, RotateIssues(p)
      PROVE  SafeInv'
  BY <1>5, RotateIssuesSafe
<1>6. ASSUME NEW p \in Proc,
             RotateRefuses(p) \/ Authorize(p) \/ Rollback(p) \/ DeleteNextFails(p) \/ Crash(p)
      PROVE  SafeInv'
  <2>1. call' = [call EXCEPT ![p] = Idle]
    BY <1>6 DEF RotateRefuses, Authorize, Rollback, DeleteNextFails, Crash, Return
  <2>2. \A q \in Proc : call'[q] = call[q] \/ call'[q].pc = "idle"
    BY <2>1 DEF Idle, TypeInv, TypeOK
  <2>3. UNCHANGED <<atomic, key, ever, heirs, revoked>> /\ stored' \subseteq stored
    BY <1>6 DEF RotateRefuses, Authorize, Rollback, DeleteNextFails, Crash, Delete, Failed, table, outcomes, history
  <2> QED
    BY <2>2, <2>3, SafeKept
<1>7. ASSUME NEW p \in Proc, CreateKey(p) \/ RotateAtomically(p) \/ DeleteOld(p) \/ DeleteNext(p)
      PROVE  SafeInv'
  BY <1>7, CreateKeySafe, RotateAtomicallySafe, DeleteOldSafe, DeleteNextSafe
<1>8. CASE Tick \/ UNCHANGED vars
  BY <1>8, SafeKept DEF Tick, vars, table, outcomes, history
<1> QED
  BY <1>1, <1>2, <1>3, <1>4, <1>5, <1>6, <1>7, <1>8 DEF Next

LEMMA Invariance == Spec => [](TypeInv /\ SafeInv)
  BY TypeInit, TypeNext, SafeInit, SafeNext, PTL DEF Spec

(* However rotations of a key overlap, fail and crash, at most one has a   *)
(* successful caller, and with an AtomicRotator the lineage never has two  *)
(* keys in the table.                                                      *)
THEOREM KeysRotateToOne == Spec => []RotatesToOne
<1>1. SafeInv => RotatesToOne
  BY DEF SafeInv, RotatesToOne
<1> QED
  BY <1>1, Invariance, PTL

(* A key that was replaced, revoked or listed by a successful              *)
(* RevokeAllKeys never comes back.                                         *)
THEOREM SpentKeysAreDead == Spec => []SpentStaysDead
<1>1. SafeInv => SpentStaysDead
  BY DEF SafeInv
<1> QED
  BY <1>1, Invariance, PTL

(* After any number of rotations and of trips through a column of text,    *)
(* Authorize answers yes for exactly what was granted, and until then.     *)
THEOREM KeysAuthorizeWhatWasGranted == Spec => []AuthorizedAsGranted
<1>1. TypeInv => AuthorizedAsGranted
  <2> SUFFICES ASSUME TypeInv, NEW p \in Proc, call[p].pc = "check", NEW q \in Permission
               PROVE  LET granted == key[key[call[p].old].root] IN
                      Authorizes(p, q) <=> q \in Meaning(granted.scope) /\ now < granted.expiresAt
    BY DEF AuthorizedAsGranted
  <2>1. PICK k \in drawn : k = call[p].old
    BY DEF TypeInv, TypeOK, FrameOK
  <2>2. /\ key[k].scope \in Scope /\ key[k].expiresAt \in Nat /\ now \in Nat
        /\ key[key[k].root].scope = key[k].scope
        /\ key[key[k].root].expiresAt = key[k].expiresAt
    BY DEF TypeInv, TypeOK, APIKey, ColumnsOK
  <2>3. Allows(ReadBack(key[k].scope), q) <=> q \in Meaning(key[k].scope)
    BY <2>2, ReadBackKeeps, AllowsMeaning
  <2> QED
    BY <2>1, <2>2, <2>3 DEF Authorizes, Expired
<1> QED
  BY <1>1, TypeInit, TypeNext, PTL DEF Spec

-----------------------------------------------------------------------------
(* The refinement of CredentialLedger.                                     *)

LEMMA LedgerSame ==
  ASSUME UNCHANGED <<atomic, stored, ever>>, \A k \in ever : key'[k] = key[k]
  PROVE  UNCHANGED Ledger!lvars
  BY DEF Ledger!lvars

LEMMA LedgerDrop ==
  ASSUME TypeInv, UNCHANGED <<atomic, key, ever>>, NEW k, stored' = stored \ {k}
  PROVE  Ledger!Drop
  BY DEF Ledger!Drop, TypeInv, TypeOK

LEMMA LedgerEnter ==
  ASSUME TypeInv, NEW k \in drawn \ ever, UNCHANGED <<atomic, key>>, ever' = ever \cup {k}
  PROVE  Ledger!Enter(k)
<1>1. [root |-> key[k].root, owner |-> key[k].workerID, grant |-> <<key[k].scope, key[k].expiresAt>>]
        \in Ledger!Credential
  BY DEF Ledger!Credential, TypeInv, TypeOK, ColumnsOK, APIKey
<1> QED
  BY <1>1 DEF Ledger!Enter, TypeInv, TypeOK

LEMMA LedgerNext == TypeInv /\ SafeInv /\ [Next]_vars => [Ledger!Next]_(Ledger!lvars)
<1> SUFFICES ASSUME TypeInv, SafeInv, [Next]_vars
             PROVE  Ledger!Next \/ UNCHANGED Ledger!lvars
  OBVIOUS
<1>1. ASSUME NEW p \in Proc, NEW w \in Worker, NEW s \in Request, NEW e \in 1..MaxExpiry,
             IssueKey(p, w, s, e)
      PROVE  UNCHANGED Ledger!lvars
  BY <1>1, LedgerSame DEF IssueKey, Draw, Put, TypeInv, TypeOK, drawn
<1>2. ASSUME NEW p \in Proc, RotateIssues(p)
      PROVE  UNCHANGED Ledger!lvars
  BY <1>2, LedgerSame DEF RotateIssues, Draw, Put, TypeInv, TypeOK, drawn
<1>3. ASSUME NEW p \in Proc,
             \/ \E k \in stored : GetKey(p, k) \/ GetKeyByHash(p, k)
             \/ \E w \in Worker : ListKeys(p, w)
             \/ RotateRefuses(p) \/ Authorize(p) \/ Crash(p)
      PROVE  UNCHANGED Ledger!lvars
  BY <1>3, LedgerSame DEF GetKey, GetKeyByHash, ListKeys, RotateRefuses, Authorize, Crash, table
<1>4. ASSUME NEW p \in Proc, NEW k \in stored, RevokeKey(p, k)
      PROVE  Ledger!Drop
  BY <1>4, LedgerDrop DEF RevokeKey, Delete
<1>5. ASSUME NEW p \in Proc, DeleteOld(p) \/ Rollback(p) \/ DeleteNext(p) \/ DeleteNextFails(p)
      PROVE  Ledger!Drop \/ UNCHANGED Ledger!lvars
  <2>1. CASE UNCHANGED table
    BY <1>5, <2>1, LedgerSame DEF DeleteOld, Rollback, DeleteNext, DeleteNextFails, table, outcomes, history
  <2>2. CASE \E k \in Key : Delete({k})
    BY <1>5, <2>2, LedgerDrop DEF DeleteOld, Rollback, DeleteNext, DeleteNextFails, Delete, outcomes, history
  <2>3. /\ call[p].pc = "deleteOld" => call[p].old \in Key
        /\ call[p].pc = "rollback" => call[p].fresh \in Key
        /\ call[p].pc = "deleteEach" => call[p].rows \subseteq Key
    BY DEF TypeInv, TypeOK, FrameOK, HoldsOld
  <2> QED
    BY <1>5, <2>1, <2>2, <2>3 DEF DeleteOld, Rollback, DeleteNext, DeleteNextFails, Undo, Failed
<1>6. ASSUME NEW p \in Proc, CreateKey(p)
      PROVE  Ledger!Next \/ UNCHANGED Ledger!lvars
  <2>1. PICK new \in Key, old \in Key \cup {None} : new = call[p].fresh /\ old = call[p].old
    BY <1>6 DEF CreateKey, TypeInv, TypeOK, FrameOK, Frame
  <2>2. new \in drawn \ ever
    BY <1>6, <2>1 DEF CreateKey, TypeInv, FrameOK
  <2>3. CASE UNCHANGED table
    BY <1>6, <2>3, LedgerSame DEF CreateKey, table
  <2>4. CASE Insert(new)
    <3>1. UNCHANGED <<atomic, key>> /\ ever' = ever \cup {new} /\ stored' = stored \cup {new}
      BY <1>6, <2>4 DEF CreateKey, Insert
    <3>2. Ledger!Enter(new)
      BY <2>2, <3>1, LedgerEnter
    <3>3. CASE call[p].op = "IssueKey"
      <4>1. key[new].root = new
        BY <1>6, <2>1, <3>3 DEF CreateKey, SafeInv, LineageFrame
      <4>2. Ledger!Admit(new)
        BY <2>2, <3>1, <3>2, <4>1 DEF Ledger!Admit
      <4> QED
        BY <4>2 DEF Ledger!Next
    <3>4. CASE call[p].op = "RotateKey"
      <4>1. old \in ever /\ ~atomic /\ key[new] = key[old]
        BY <1>6, <2>1, <3>4 DEF CreateKey, TypeInv, FrameOK, SafeInv, LineageFrame, Descends
      <4>2. Ledger!Continue(old, new)
        BY <2>2, <3>1, <3>2, <4>1 DEF Ledger!Continue
      <4>3. Ledger!Fork(old, new)
        BY <3>1, <4>1, <4>2 DEF Ledger!Fork
      <4> QED
        BY <4>1, <4>3 DEF Ledger!Next, TypeInv, TypeOK
    <3> QED
      BY <1>6, <3>3, <3>4 DEF CreateKey, SafeInv, LineageFrame
  <2> QED
    BY <1>6, <2>1, <2>3, <2>4 DEF CreateKey, Failed
<1>7. ASSUME NEW p \in Proc, RotateAtomically(p)
      PROVE  Ledger!Next \/ UNCHANGED Ledger!lvars
  <2>1. PICK new \in Key, old \in Key \cup {None} : new = call[p].fresh /\ old = call[p].old
    BY <1>7 DEF RotateAtomically, TypeInv, TypeOK, FrameOK, Frame
  <2>2. new \in drawn \ ever /\ UNCHANGED atomic
    BY <1>7, <2>1 DEF RotateAtomically, TypeInv, FrameOK
  <2>3. CASE UNCHANGED table
    BY <2>2, <2>3, LedgerSame DEF table
  <2>4. CASE /\ old \in stored
             /\ stored' = (stored \ {old}) \cup {new} /\ ever' = ever \cup {new} /\ UNCHANGED key
    <3>1. old \in ever /\ old \in Key /\ atomic /\ key[new] = key[old]
      BY <1>7, <2>1, <2>4 DEF RotateAtomically, TypeInv, TypeOK, SafeInv, LineageFrame, Descends
    <3>2. Ledger!Enter(new)
      BY <2>2, <2>4, LedgerEnter
    <3>3. Ledger!Continue(old, new)
      BY <2>2, <2>4, <3>1, <3>2 DEF Ledger!Continue
    <3>4. Ledger!Swap(old, new)
      BY <2>4, <3>1, <3>3 DEF Ledger!Swap
    <3> QED
      BY <3>1, <3>4 DEF Ledger!Next
  <2> QED
    BY <1>7, <2>1, <2>3, <2>4 DEF RotateAtomically, requireOneRow, Failed
<1>8. CASE Tick \/ UNCHANGED vars
  BY <1>8, LedgerSame DEF Tick, vars, table
<1> QED
  BY <1>1, <1>2, <1>3, <1>4, <1>5, <1>6, <1>7, <1>8 DEF Next, Ledger!Next

(* Every behaviour of the service over its store is one of the abstract    *)
(* ledger: no step of any call changes a key's columns, revives a key, or  *)
(* adds a capability or a lifetime in a rotation.                          *)
THEOREM KeysImplementLedger == Spec => LedgerSpec
<1>1. Init => Ledger!Init
  BY ConstantsAssumption DEF Init, Ledger!Init
<1> QED
  BY <1>1, TypeInit, TypeNext, SafeInit, SafeNext, LedgerNext, PTL DEF Spec, LedgerSpec, Ledger!Spec

-----------------------------------------------------------------------------
(* Never a gap, not even in the fallback of a store without RotateAtomic-  *)
(* ally, where both keys are in the table and rotations of either overlap. *)

(* A call that is about to delete one of two keys.                         *)
Pending(c) == c.pc \in {"deleteOld", "rollback"}

(* A stored key that no call may roll back.                                *)
Secure(j) == j \in stored /\ \A p \in Proc : Pending(call[p]) => call[p].fresh # j

PendingApart ==
  \A p, q \in Proc : p # q /\ Pending(call[p]) /\ Pending(call[q]) => call[p].fresh # call[q].fresh

Kept == \A k \in handed : \/ key[k].root \in dropped \cup broken
                          \/ \E j \in stored : Secure(j) /\ key[j].root = key[k].root

(* If a key that is to take the place of another was itself replaced, a    *)
(* secure key descends from it.                                            *)
AgeFrame(c, age) ==
  /\ \/ c.pc \in {"swap", "deleteOld"}
     \/ c.pc = "create" /\ c.op = "RotateKey"
     => age[c.fresh] > age[c.old]
  /\ c.pc = "deleteOld" =>
       \/ c.fresh \in stored
       \/ key[c.fresh].root \in dropped \cup broken
       \/ \E j \in stored : Secure(j) /\ key[j].root = key[c.fresh].root /\ age[j] > age[c.fresh]

(* The generation of a key: how many rotations away from IssueKey it is.   *)
Aged == \E age \in [drawn -> Nat] : \A p \in Proc : AgeFrame(call[p], age)

GapInv == PendingApart /\ Kept /\ Aged

(* The frame of the steps that hand out nothing and draw no key.           *)
LEMMA GapKept ==
  ASSUME TypeInv, GapInv, UNCHANGED <<key, handed>>,
         dropped \subseteq dropped', broken \subseteq broken',
         \A j \in stored \ stored' : key[j].root \in dropped' \cup broken',
         \A q \in Proc : \/ call'[q] = call[q]
                         \/ call'[q].pc \notin {"create", "swap", "deleteOld", "rollback"}
                         \/ /\ call[q].pc = "deleteOld" /\ call'[q].pc = "rollback"
                            /\ call'[q].fresh = call[q].fresh
  PROVE  GapInv'
<1>1. \A q \in Proc : Pending(call[q])' => Pending(call[q]) /\ call'[q].fresh = call[q].fresh
  BY DEF Pending
<1>2. \A j : Secure(j) => Secure(j)' \/ key[j].root \in dropped' \cup broken'
  BY <1>1 DEF Secure
<1>3. PendingApart'
  BY <1>1 DEF GapInv, PendingApart
<1>4. Kept'
  <2> SUFFICES ASSUME NEW k \in handed, key[k].root \notin dropped' \cup broken'
               PROVE  \E j \in stored' : Secure(j)' /\ key[j].root = key[k].root
    BY DEF Kept
  <2>1. PICK j \in stored : Secure(j) /\ key[j].root = key[k].root
    BY DEF GapInv, Kept
  <2> QED
    BY <1>2, <2>1
<1>5. Aged'
  <2>1. PICK age \in [drawn -> Nat] : \A p \in Proc : AgeFrame(call[p], age)
    BY DEF GapInv, Aged
  <2>2. ASSUME NEW p \in Proc
        PROVE  AgeFrame(call[p], age)'
    <3>1. CASE call'[p] = call[p]
      <4>1. PICK c \in Frame : c = call[p] /\ c = call'[p]
        BY <3>1 DEF TypeInv, TypeOK
      <4>2. AgeFrame(c, age)
        BY <2>1, <4>1
      <4>3. c.pc = "deleteOld" => c.fresh \in stored' \/ c.fresh \notin stored \/ key[c.fresh].root \in dropped' \cup broken'
        OBVIOUS
      <4>4. c.pc = "deleteOld" =>
              \/ c.fresh \in stored'
              \/ key[c.fresh].root \in dropped' \cup broken'
              \/ \E j \in stored' : Secure(j)' /\ key[j].root = key[c.fresh].root /\ age[j] > age[c.fresh]
        BY <1>2, <4>2, <4>3 DEF AgeFrame
      <4> QED
        BY <4>1, <4>2, <4>4 DEF AgeFrame
    <3>2. CASE call'[p] # call[p]
      BY <3>2 DEF AgeFrame
    <3> QED
      BY <3>1, <3>2
  <2> QED
    BY <2>1, <2>2 DEF Aged, drawn
<1> QED
  BY <1>3, <1>4, <1>5 DEF GapInv

(* The frame of the steps that draw a key.                                 *)
LEMMA GapDraws ==
  ASSUME TypeInv, GapInv, NEW p \in Proc, NEW k \in Key \ drawn, NEW old \in drawn \cup {None},
         drawn' = drawn \cup {k}, \A j \in drawn : key'[j] = key[j],
         UNCHANGED <<stored, handed, dropped, broken>>,
         \A q \in Proc \ {p} : call'[q] = call[q],
         ~Pending(call[p]), ~Pending(call'[p]),
         \/ call'[p].pc = "create" /\ call'[p].op # "RotateKey"
         \/ call'[p].fresh = k /\ call'[p].old = old /\ old \in drawn
  PROVE  GapInv'
<1>1. \A q \in Proc : Pending(call[q])' <=> Pending(call[q])
  OBVIOUS
<1>2. \A j : Secure(j)' <=> Secure(j)
  BY <1>1 DEF Secure
<1>3. PendingApart'
  BY <1>1 DEF GapInv, PendingApart
<1>4. stored \subseteq drawn /\ handed \subseteq drawn
  BY DEF TypeInv, TypeOK
<1>5. Kept'
  BY <1>2, <1>4 DEF GapInv, Kept
<1>6. Aged'
  <2>1. PICK age \in [drawn -> Nat] : \A q \in Proc : AgeFrame(call[q], age)
    BY DEF GapInv, Aged
  <2>2. PICK new \in [drawn' -> Nat] : /\ \A j \in drawn : new[j] = age[j]
                                       /\ old \in drawn => new[k] > new[old]
    <3> DEFINE f == [j \in drawn' |-> IF j # k THEN age[j] ELSE IF old \in drawn THEN age[old] + 1 ELSE 0]
    <3>1. f \in [drawn' -> Nat] /\ (\A j \in drawn : f[j] = age[j]) /\ (old \in drawn => f[k] > f[old])
      OBVIOUS
    <3> QED
      BY <3>1
  <2>4. ASSUME NEW q \in Proc
        PROVE  AgeFrame(call[q], new)'
    <3>1. CASE q = p
      BY <2>2, <3>1 DEF AgeFrame, Pending
    <3>2. CASE q # p
      <4>1. PICK c \in Frame : c = call[q] /\ c = call'[q]
        BY <3>2 DEF TypeInv, TypeOK
      <4>2. AgeFrame(c, age)
        BY <2>1, <4>1
      <4>3. /\ c.pc \in {"create", "swap", "deleteOld"} => c.fresh \in drawn
            /\ c.pc \in {"swap", "deleteOld"} \/ (c.pc = "create" /\ c.op = "RotateKey") => c.old \in drawn
        BY <4>1 DEF TypeInv, TypeOK, FrameOK, HoldsOld
      <4>4. c.pc \in {"swap", "deleteOld"} \/ (c.pc = "create" /\ c.op = "RotateKey") => new[c.fresh] > new[c.old]
        BY <2>2, <4>2, <4>3 DEF AgeFrame
      <4>5. c.pc = "deleteOld" =>
              \/ c.fresh \in stored'
              \/ key'[c.fresh].root \in dropped' \cup broken'
              \/ \E j \in stored' : Secure(j)' /\ key'[j].root = key'[c.fresh].root /\ new[j] > new[c.fresh]
        BY <1>2, <1>4, <2>2, <4>2, <4>3 DEF AgeFrame
      <4> QED
        BY <4>1, <4>4, <4>5 DEF AgeFrame
    <3> QED
      BY <3>1, <3>2
  <2> QED
    BY <2>2, <2>4 DEF Aged
<1> QED
  BY <1>3, <1>5, <1>6 DEF GapInv

(* CreateKey of the first key of a lineage, or of one that is to replace   *)
(* another; in neither case has anyone seen the key before.                *)
LEMMA GapCreates ==
  ASSUME TypeInv, SafeInv, GapInv, NEW p \in Proc, CreateKey(p), Insert(call[p].fresh), Done
  PROVE  GapInv'
<1>1. PICK k \in drawn \ ever : k = call[p].fresh
  BY DEF CreateKey, TypeInv, FrameOK
<1>2. /\ UNCHANGED <<key, dropped, broken>>
      /\ stored' = stored \cup {k}
      /\ \A q \in Proc \ {p} : call'[q] = call[q]
      /\ \/ call'[p] = Idle /\ handed' = handed \cup {k}
         \/ call[p].op = "RotateKey" /\ call'[p] = [call[p] EXCEPT !.pc = "deleteOld"] /\ handed' = handed
  <2>1. ~Lost
    BY ConstantsAssumption DEF Done, Lost, TypeInv, TypeOK
  <2>2. \/ Return(p) /\ Hand(k)
        \/ call[p].op = "RotateKey" /\ Goto(p, "deleteOld") /\ UNCHANGED handed
    BY <1>1, <2>1 DEF CreateKey, Failed
  <2>3. /\ UNCHANGED <<key, dropped, broken>>
        /\ stored' = stored \cup {k}
    BY <1>1 DEF CreateKey, Insert
  <2> QED
    BY <2>2, <2>3 DEF Goto, Return, Hand, TypeInv, TypeOK
<1>3. \A q \in Proc \ {p} : Pending(call[q]) => call[q].fresh # k
  BY <1>1 DEF Pending, TypeInv, FrameOK
<1>4. \A j \in stored : Secure(j) => Secure(j)'
  BY <1>1, <1>2 DEF Secure, Pending, Idle, TypeInv, TypeOK, Frame
<1>5. PendingApart'
  <2>1. Pending(call[p])' => call'[p].fresh = k
    BY <1>1, <1>2 DEF Pending, Idle, TypeInv, TypeOK, Frame
  <2> QED
    BY <1>2, <1>3, <2>1 DEF GapInv, PendingApart, Pending
<1>6. Kept'
  <2>1. CASE handed' = handed
    BY <1>2, <1>4, <2>1 DEF GapInv, Kept
  <2>2. CASE call'[p] = Idle
    <3>1. Secure(k)'
      BY <1>2, <1>3, <2>2 DEF Secure, Pending, Idle
    <3> QED
      BY <1>2, <1>4, <3>1 DEF GapInv, Kept
  <2> QED
    BY <1>2, <2>1, <2>2
<1>7. Aged'
  <2>1. PICK age \in [drawn -> Nat] : \A q \in Proc : AgeFrame(call[q], age)
    BY DEF GapInv, Aged
  <2>2. ASSUME NEW q \in Proc
        PROVE  AgeFrame(call[q], age)'
    <3>1. CASE q = p
      <4>1. CASE call'[p] = Idle
        BY <3>1, <4>1 DEF AgeFrame, Idle
      <4>2. CASE call[p].op = "RotateKey" /\ call'[p] = [call[p] EXCEPT !.pc = "deleteOld"]
        <5>1. age[k] > age[call[p].old]
          BY <1>1, <2>1, <4>2 DEF CreateKey, AgeFrame
        <5>2. call'[p].pc = "deleteOld" /\ call'[p].fresh = k /\ call'[p].old = call[p].old
          BY <1>1, <4>2 DEF TypeInv, TypeOK, Frame
        <5> QED
          BY <1>2, <3>1, <5>1, <5>2 DEF AgeFrame
      <4> QED
        BY <1>2, <4>1, <4>2
    <3>2. CASE q # p
      <4>1. PICK c \in Frame : c = call[q] /\ c = call'[q]
        BY <1>2, <3>2 DEF TypeInv, TypeOK
      <4>2. AgeFrame(c, age)
        BY <2>1, <4>1
      <4> QED
        BY <1>2, <1>4, <4>1, <4>2 DEF AgeFrame
    <3> QED
      BY <3>1, <3>2
  <2> QED
    BY <1>2, <2>1, <2>2 DEF Aged, drawn
<1> QED
  BY <1>5, <1>6, <1>7 DEF GapInv

(* RotateAtomically hands the new key out in the step that deletes the old *)
(* one; no call on such a store is about to delete one of two keys.        *)
LEMMA GapSwaps ==
  ASSUME TypeInv, SafeInv, GapInv, NEW p \in Proc, RotateAtomically(p), handed' # handed
  PROVE  GapInv'
<1>1. PICK new \in drawn \ ever, old \in ever : new = call[p].fresh /\ old = call[p].old
  BY DEF RotateAtomically, TypeInv, FrameOK, HoldsOld
<1>2. /\ UNCHANGED <<key, dropped, broken>>
      /\ stored' = (stored \ {old}) \cup {new} /\ handed' = handed \cup {new}
      /\ call' = [call EXCEPT ![p] = Idle]
  BY <1>1 DEF RotateAtomically, Succeed, Forget, Hand, Return, outcomes, history
<1>3. atomic /\ key[new] = key[old]
  BY <1>1 DEF RotateAtomically, SafeInv, LineageFrame, Descends
<1>4. \A q \in Proc : Pending(call[q])' => Pending(call[q]) /\ call'[q] = call[q] /\ call[q].fresh # new
  BY <1>1, <1>2 DEF Pending, Idle, TypeInv, TypeOK, FrameOK
<1>5. Secure(new)' /\ \A j \in stored \ {old} : Secure(j) => Secure(j)'
  BY <1>2, <1>4 DEF Secure
<1>6. PendingApart'
  BY <1>4 DEF GapInv, PendingApart
<1>7. Kept'
  BY <1>2, <1>3, <1>5 DEF GapInv, Kept
<1>8. Aged'
  <2>1. PICK age \in [drawn -> Nat] : \A q \in Proc : AgeFrame(call[q], age)
    BY DEF GapInv, Aged
  <2>2. ASSUME NEW q \in Proc
        PROVE  AgeFrame(call[q], age)'
    <3>1. call[q].pc # "deleteOld"
      BY <1>3 DEF SafeInv, LineageFrame
    <3> QED
      BY <1>2, <2>1, <3>1 DEF AgeFrame, Idle, TypeInv, TypeOK
  <2> QED
    BY <1>2, <2>1, <2>2 DEF Aged, drawn
<1> QED
  BY <1>6, <1>7, <1>8 DEF GapInv

(* DeleteOld succeeds: where the old key was needed, the new one or a      *)
(* descendant of it takes its place.                                       *)
LEMMA GapDeletes ==
  ASSUME TypeInv, SafeInv, GapInv, NEW p \in Proc, DeleteOld(p), Return(p)
  PROVE  GapInv'
<1>1. PICK new \in ever, old \in ever : new = call[p].fresh /\ old = call[p].old
  BY DEF DeleteOld, TypeInv, FrameOK, HoldsOld
<1>2. /\ UNCHANGED <<key, dropped, broken>>
      /\ stored' = stored \ {old} /\ handed' = handed \cup {new}
      /\ call' = [call EXCEPT ![p] = Idle]
  <2>1. ~Goto(p, "rollback")
    BY DEF DeleteOld, Goto, Return, Idle, TypeInv, TypeOK, Frame
  <2> QED
    BY <1>1, <2>1 DEF DeleteOld, Delete, Succeed, Hand, Return, outcomes, history
<1>3. key[new] = key[old]
  BY <1>1 DEF DeleteOld, SafeInv, LineageFrame, Descends
<1>4. \A q \in Proc : Pending(call[q])' => Pending(call[q]) /\ call'[q] = call[q] /\ call[q].fresh # new
  BY <1>1, <1>2 DEF DeleteOld, Pending, Idle, TypeInv, TypeOK, GapInv, PendingApart
<1>5. \A j \in stored \ {old} : Secure(j) => Secure(j)'
  BY <1>2, <1>4 DEF Secure
<1>6. PendingApart'
  BY <1>4 DEF GapInv, PendingApart
<1>7. PICK age \in [drawn -> Nat] : \A q \in Proc : AgeFrame(call[q], age)
  BY DEF GapInv, Aged
<1>8. \/ key[old].root \in dropped \cup broken
      \/ \E j \in stored' : Secure(j)' /\ key[j].root = key[old].root /\ age[j] > age[old]
  <2>1. old \in drawn /\ new \in drawn /\ stored \subseteq drawn
    BY DEF TypeInv, TypeOK
  <2>2. /\ age[new] > age[old]
        /\ \/ new \in stored
           \/ key[new].root \in dropped \cup broken
           \/ \E j \in stored : Secure(j) /\ key[j].root = key[new].root /\ age[j] > age[new]
    BY <1>1, <1>7 DEF DeleteOld, AgeFrame
  <2>3. new \in stored => Secure(new)'
    BY <1>2, <1>4, <2>1, <2>2 DEF Secure
  <2>4. \A j \in stored : age[j] > age[new] => age[j] > age[old] /\ j # old
    BY <2>1, <2>2
  <2>5. new \in stored => new \in stored'
    BY <1>2, <2>1, <2>2
  <2> QED
    BY <1>2, <1>3, <1>5, <2>2, <2>3, <2>4, <2>5
<1>9. Kept'
  BY <1>2, <1>3, <1>5, <1>8 DEF GapInv, Kept
<1>10. Aged'
  <2>1. ASSUME NEW q \in Proc
        PROVE  AgeFrame(call[q], age)'
    <3>1. CASE q = p
      BY <1>2, <3>1 DEF AgeFrame, Idle, TypeInv, TypeOK
    <3>2. CASE q # p
      <4>1. PICK c \in Frame : c = call[q] /\ c = call'[q]
        BY <1>2, <3>2 DEF TypeInv, TypeOK
      <4>2. AgeFrame(c, age)
        BY <1>7, <4>1
      <4>3. ASSUME c.pc = "deleteOld"
            PROVE  \/ c.fresh \in stored'
                   \/ key[c.fresh].root \in dropped \cup broken
                   \/ \E j \in stored' : Secure(j)' /\ key[j].root = key[c.fresh].root /\ age[j] > age[c.fresh]
        <5>1. CASE c.fresh = old
          BY <1>8, <5>1
        <5>2. ASSUME NEW j \in stored, Secure(j), key[j].root = key[c.fresh].root, age[j] > age[c.fresh]
              PROVE  \/ key[c.fresh].root \in dropped \cup broken
                     \/ \E i \in stored' : Secure(i)' /\ key[i].root = key[c.fresh].root /\ age[i] > age[c.fresh]
          <6>1. CASE j = old
            <7>1. /\ old \in drawn /\ c.fresh \in drawn /\ stored' \subseteq drawn
              BY <1>2, <4>1, <4>3 DEF TypeInv, TypeOK, FrameOK
            <7>2. \A i \in stored' : age[i] > age[old] => age[i] > age[c.fresh]
              BY <5>2, <6>1, <7>1
            <7> QED
              BY <1>8, <5>2, <6>1, <7>2
          <6>2. CASE j # old
            BY <1>2, <1>5, <5>2, <6>2
          <6> QED
            BY <6>1, <6>2
        <5> QED
          BY <1>2, <4>2, <4>3, <5>1, <5>2 DEF AgeFrame
      <4> QED
        BY <1>2, <4>1, <4>2, <4>3 DEF AgeFrame
    <3> QED
      BY <3>1, <3>2
  <2> QED
    BY <1>2, <1>7, <2>1 DEF Aged, drawn
<1> QED
  BY <1>6, <1>9, <1>10 DEF GapInv

(* The rollback deletes what is not secure.                                *)
LEMMA GapRollsBack ==
  ASSUME TypeInv, GapInv, NEW p \in Proc, Rollback(p)
  PROVE  GapInv'
<1>1. /\ UNCHANGED <<key, handed, dropped, broken>>
      /\ stored \ {call[p].fresh} \subseteq stored' /\ stored' \subseteq stored
      /\ call' = [call EXCEPT ![p] = Idle]
      /\ Pending(call[p])
  BY DEF Rollback, Delete, Undo, Failed, Return, Pending, table, outcomes, history
<1>2. \A q \in Proc : Pending(call[q])' => Pending(call[q]) /\ call'[q] = call[q] /\ call[q].fresh # call[p].fresh
  BY <1>1 DEF Pending, Idle, TypeInv, TypeOK, GapInv, PendingApart
<1>3. \A j \in stored : Secure(j) => j \in stored' /\ Secure(j)'
  BY <1>1, <1>2 DEF Secure
<1>4. PendingApart' /\ Kept'
  BY <1>1, <1>2, <1>3 DEF GapInv, PendingApart, Kept
<1>5. Aged'
  <2>1. PICK age \in [drawn -> Nat] : \A q \in Proc : AgeFrame(call[q], age)
    BY DEF GapInv, Aged
  <2>2. ASSUME NEW q \in Proc
        PROVE  AgeFrame(call[q], age)'
    <3>1. CASE q = p
      BY <1>1, <3>1 DEF AgeFrame, Idle, TypeInv, TypeOK
    <3>2. CASE q # p
      <4>1. PICK c \in Frame : c = call[q] /\ c = call'[q]
        BY <1>1, <3>2 DEF TypeInv, TypeOK
      <4>2. AgeFrame(c, age)
        BY <2>1, <4>1
      <4>3. c.pc = "deleteOld" => c.fresh \notin stored \/ c.fresh \in stored'
        BY <1>1, <1>2, <4>1 DEF Pending
      <4> QED
        BY <1>1, <1>3, <4>1, <4>2, <4>3 DEF AgeFrame
    <3> QED
      BY <3>1, <3>2
  <2> QED
    BY <1>1, <2>1, <2>2 DEF Aged, drawn
<1> QED
  BY <1>4, <1>5 DEF GapInv

LEMMA GapNext == TypeInv /\ SafeInv /\ GapInv /\ [Next]_vars => GapInv'
<1> SUFFICES ASSUME TypeInv, SafeInv, GapInv, [Next]_vars PROVE GapInv'
  OBVIOUS
<1> DEFINE Quiet == \A q \in Proc : \/ call'[q] = call[q]
                                    \/ call'[q].pc \notin {"create", "swap", "deleteOld", "rollback"}
                                    \/ /\ call[q].pc = "deleteOld" /\ call'[q].pc = "rollback"
                                       /\ call'[q].fresh = call[q].fresh
<1>1. ASSUME NEW p \in Proc, NEW w \in Worker, NEW s \in Request, NEW e \in 1..MaxExpiry,
             IssueKey(p, w, s, e)
      PROVE  GapInv'
  <2>1. PICK k \in Key \ drawn :
             /\ Draw(k, [workerID |-> w, scope |-> s, expiresAt |-> e, root |-> k])
             /\ Begin(p, [Idle EXCEPT !.pc = "create", !.op = "IssueKey", !.fresh = k])
    BY <1>1 DEF IssueKey, Draw
  <2>2. drawn' = drawn \cup {k} /\ \A j \in drawn : key'[j] = key[j]
    BY <2>1 DEF Draw, Put, drawn
  <2>3. UNCHANGED <<stored, handed, dropped, broken>>
    BY <2>1 DEF Draw, outcomes, history
  <2>4. /\ \A q \in Proc \ {p} : call'[q] = call[q]
        /\ call[p].pc = "idle" /\ call'[p].pc = "create" /\ call'[p].op = "IssueKey"
    BY <2>1 DEF Begin, Idle, TypeInv, TypeOK
  <2> QED
    BY <2>2, <2>3, <2>4, GapDraws DEF Pending
<1>2. ASSUME NEW p \in Proc, RotateIssues(p)
      PROVE  GapInv'
  <2>1. PICK old \in drawn : old = call[p].old
    BY <1>2 DEF RotateIssues, TypeInv, TypeOK, FrameOK, HoldsOld
  <2>2. PICK k \in Key \ drawn :
             /\ Draw(k, Inherit(old))
             /\ call' = [call EXCEPT ![p].fresh = k, ![p].pc = IF atomic THEN "swap" ELSE "create"]
    BY <1>2, <2>1 DEF RotateIssues, Draw
  <2>3. drawn' = drawn \cup {k} /\ \A j \in drawn : key'[j] = key[j]
    BY <2>2 DEF Draw, Put, drawn
  <2>4. UNCHANGED <<stored, handed, dropped, broken>>
    BY <2>2 DEF Draw, outcomes, history
  <2>5. /\ \A q \in Proc \ {p} : call'[q] = call[q]
        /\ call[p].pc = "issue" /\ call'[p].pc \in {"create", "swap"}
        /\ call'[p].fresh = k /\ call'[p].old = old
    BY <1>2, <2>1, <2>2 DEF RotateIssues, TypeInv, TypeOK, Frame
  <2> QED
    BY <2>1, <2>3, <2>4, <2>5, GapDraws DEF Pending
<1>3. ASSUME NEW p \in Proc, NEW k \in stored, GetKey(p, k) \/ GetKeyByHash(p, k) \/ RevokeKey(p, k)
      PROVE  GapInv'
  <2>1. Quiet
    <3>1. \E f : call' = [call EXCEPT ![p] = f] /\ f.pc \in {"idle", "issue", "check"}
      BY <1>3 DEF GetKey, GetKeyByHash, RevokeKey, Begin, Idle
    <3> QED
      BY <3>1 DEF TypeInv, TypeOK
  <2>2. UNCHANGED <<key, handed, broken>> /\ dropped \subseteq dropped'
    BY <1>3 DEF GetKey, GetKeyByHash, RevokeKey, Delete, table, outcomes, history
  <2>3. \A j \in stored \ stored' : key[j].root \in dropped'
    BY <1>3 DEF GetKey, GetKeyByHash, RevokeKey, Delete, RootsOf, table
  <2> QED
    BY <2>1, <2>2, <2>3, GapKept
<1>4. ASSUME NEW p \in Proc, NEW w \in Worker, ListKeys(p, w)
      PROVE  GapInv'
  <2>1. Quiet
    BY <1>4 DEF ListKeys, Begin, Idle, TypeInv, TypeOK
  <2> QED
    BY <1>4, <2>1, GapKept DEF ListKeys, table, outcomes, history
<1>5. ASSUME NEW p \in Proc, RotateRefuses(p) \/ Authorize(p) \/ Crash(p)
      PROVE  GapInv'
  <2>1. Quiet
    BY <1>5 DEF RotateRefuses, Authorize, Crash, Return, Idle, TypeInv, TypeOK
  <2> QED
    BY <1>5, <2>1, GapKept DEF RotateRefuses, Authorize, Crash, table, outcomes, history
<1>6. ASSUME NEW p \in Proc, CreateKey(p)
      PROVE  GapInv'
  <2>1. CASE Insert(call[p].fresh) /\ Done
    BY <1>6, <2>1, GapCreates
  <2>2. CASE Return(p) /\ UNCHANGED handed
    <3>1. Quiet
      BY <2>2 DEF Return, Idle, TypeInv, TypeOK
    <3> QED
      BY <1>6, <2>2, <3>1, GapKept DEF CreateKey, Insert, Failed, table
  <2> QED
    BY <1>6, <2>1, <2>2 DEF CreateKey
<1>7. ASSUME NEW p \in Proc, RotateAtomically(p)
      PROVE  GapInv'
  <2>1. CASE handed' = handed
    <3>1. Quiet
      BY <1>7 DEF RotateAtomically, Return, Idle, TypeInv, TypeOK
    <3>2. UNCHANGED <<key, dropped>> /\ broken \subseteq broken'
      BY <1>7 DEF RotateAtomically, Succeed, Forget, Failed, table
    <3>3. call[p].fresh \notin handed
      BY <1>7 DEF RotateAtomically, TypeInv, TypeOK, FrameOK
    <3>4. \A j \in stored \ stored' : key[j].root \in broken'
      BY <1>7, <2>1, <3>3 DEF RotateAtomically, Succeed, Forget, Hand, Failed, table
    <3> QED
      BY <2>1, <3>1, <3>2, <3>4, GapKept
  <2>2. CASE handed' # handed
    BY <1>7, <2>2, GapSwaps
  <2> QED
    BY <2>1, <2>2
<1>8. ASSUME NEW p \in Proc, DeleteOld(p)
      PROVE  GapInv'
  <2>1. CASE Return(p)
    BY <1>8, <2>1, GapDeletes
  <2>2. CASE Goto(p, "rollback")
    <3>1. Quiet
      BY <1>8, <2>2 DEF DeleteOld, Goto, TypeInv, TypeOK, Frame
    <3>2. ~Return(p)
      BY <1>8, <2>2 DEF DeleteOld, Goto, Return, Idle, TypeInv, TypeOK, Frame
    <3>3. /\ UNCHANGED <<key, handed, dropped>> /\ broken \subseteq broken'
          /\ \A j \in stored \ stored' : key[j].root \in broken'
      BY <1>8, <3>2 DEF DeleteOld, Delete, Forget, Failed, table
    <3> QED
      BY <3>1, <3>3, GapKept
  <2> QED
    BY <1>8, <2>1, <2>2 DEF DeleteOld
<1>9. ASSUME NEW p \in Proc, Rollback(p)
      PROVE  GapInv'
  BY <1>9, GapRollsBack
<1>10. ASSUME NEW p \in Proc, DeleteNext(p) \/ DeleteNextFails(p)
      PROVE  GapInv'
  <2>1. Quiet
    <3>1. call[p].pc = "deleteEach" /\ ((\E rest : call' = [call EXCEPT ![p].rows = rest]) \/ Return(p))
      BY <1>10 DEF DeleteNext, DeleteNextFails
    <3>2. call'[p].pc \in {"deleteEach", "idle"} /\ \A q \in Proc \ {p} : call'[q] = call[q]
      BY <3>1 DEF Return, Idle, TypeInv, TypeOK, Frame
    <3> QED
      BY <3>2
  <2>2. UNCHANGED <<key, handed, broken>> /\ dropped \subseteq dropped'
    BY <1>10 DEF DeleteNext, DeleteNextFails, Delete, Failed, table
  <2>3. \A j \in stored \ stored' : key[j].root \in dropped'
    BY <1>10 DEF DeleteNext, DeleteNextFails, Delete, Failed, RootsOf, table
  <2> QED
    BY <2>1, <2>2, <2>3, GapKept
<1>11. CASE Tick \/ UNCHANGED vars
  BY <1>11, GapKept DEF Tick, vars, table, outcomes, history
<1> QED
  BY <1>1, <1>2, <1>3, <1>4, <1>5, <1>6, <1>7, <1>8, <1>9, <1>10, <1>11 DEF Next

(* Rotation leaves no lineage without a key, whatever calls overlap, fail, *)
(* crash or are rolled back, on a store with or without RotateAtomically.  *)
THEOREM RotationLeavesNoGap == Spec => []NeverAGap
<1>1. GapInv => NeverAGap
  BY DEF GapInv, Kept, NeverAGap
<1>2. Init => GapInv
  <2>1. ASSUME Init
        PROVE  [k \in {} |-> 0] \in [drawn -> Nat]
    BY <2>1 DEF Init, drawn
  <2>2. Init => PendingApart /\ Kept
    BY DEF Init, PendingApart, Kept, Pending, Idle
  <2>3. \A age : Init => \A p \in Proc : AgeFrame(call[p], age)
    BY DEF Init, AgeFrame, Idle
  <2> QED
    BY <2>1, <2>2, <2>3 DEF GapInv, Aged
<1> QED
  BY <1>1, <1>2, TypeInit, TypeNext, SafeInit, SafeNext, GapNext, PTL DEF Spec

-----------------------------------------------------------------------------
(* What holds of the kill-switch.                                          *)

(* Of lineage r, only keys of S are stored, and no rotation is under way.  *)
Still(r, S) ==
  /\ r \in RootsOf(ever)
  /\ \A k \in stored : key[k].root = r => k \in S
  /\ \A q \in Proc : call[q].op = "RotateKey" => key[call[q].old].root # r

KillFrame(c, lineages) ==
  /\ c.pc \in HoldsOld => c.op = "RotateKey"
  /\ c.op = "RotateKey" => c.old \in ever /\ c.pc # "deleteEach"
  /\ c.pc # "deleteEach" => lineages = {}

Hushed == ended \cup UNION {calm[q] : q \in Proc}

KillInv ==
  /\ \A q \in Proc : KillFrame(call[q], calm[q])
  /\ \A q \in Proc : \A r \in calm[q] : Still(r, call[q].rows)
  /\ \A r \in ended : Still(r, {})

(* The frame of every step but ListKeys: no key of a hushed lineage is     *)
(* stored, no rotation of one begins, a loop deletes what it passes over,  *)
(* and a lineage has ended when nothing listed is left in the table.       *)
LEMMA KillKept ==
  ASSUME TypeInv, KillInv,
         \A k \in drawn : key'[k] = key[k],
         ever \subseteq ever',
         \A q \in Proc : KillFrame(call[q], calm[q])',
         \A k \in stored' \ stored : key'[k].root \notin Hushed',
         \A q \in Proc : call'[q].op = "RotateKey" =>
           \/ call[q].op = "RotateKey" /\ call'[q].old = call[q].old
           \/ key'[call'[q].old].root \notin Hushed',
         \A q \in Proc : \A r \in calm'[q] : r \in calm[q] /\ call[q].rows \cap stored' \subseteq call'[q].rows,
         \A r \in ended' \ ended : \E q \in Proc : r \in calm[q] /\ call[q].rows \cap stored' = {}
  PROVE  KillInv'
<1>1. ASSUME NEW r \in Hushed', NEW S, Still(r, S), NEW T, S \cap stored' \subseteq T
      PROVE  Still(r, T)'
  <2>1. r \in RootsOf(ever)'
    BY <1>1 DEF Still, RootsOf, TypeInv, TypeOK
  <2>2. \A k \in stored' : key'[k].root = r => k \in T
    BY <1>1 DEF Still, TypeInv, TypeOK
  <2>3. ASSUME NEW q \in Proc, call'[q].op = "RotateKey"
        PROVE  key'[call'[q].old].root # r
    <3>1. CASE call[q].op = "RotateKey" /\ call'[q].old = call[q].old
      <4>1. call[q].old \in drawn
        BY <3>1 DEF KillInv, KillFrame, TypeInv, TypeOK
      <4> QED
        BY <1>1, <3>1, <4>1 DEF Still
    <3> QED
      BY <1>1, <2>3, <3>1
  <2> QED
    BY <2>1, <2>2, <2>3 DEF Still
<1>2. ASSUME NEW q \in Proc, NEW r \in calm'[q]
      PROVE  Still(r, call[q].rows)'
  <2>1. Still(r, call[q].rows) /\ call[q].rows \cap stored' \subseteq call'[q].rows /\ r \in Hushed'
    BY <1>2 DEF KillInv, Hushed
  <2>2. \A T : call[q].rows \cap stored' \subseteq T => Still(r, T)'
    BY <1>1, <2>1
  <2> QED
    BY <2>1, <2>2 DEF Still
<1>3. ASSUME NEW r \in ended'
      PROVE  Still(r, {})'
  <2>1. r \in Hushed'
    BY <1>3 DEF Hushed
  <2>2. CASE r \in ended
    BY <1>1, <2>1, <2>2 DEF KillInv
  <2>3. CASE r \notin ended
    <3>1. PICK q \in Proc : r \in calm[q] /\ call[q].rows \cap stored' = {}
      BY <1>3, <2>3
    <3>2. Still(r, call[q].rows)
      BY <3>1 DEF KillInv
    <3> QED
      BY <1>1, <2>1, <3>1, <3>2
  <2> QED
    BY <2>2, <2>3
<1> QED
  BY <1>2, <1>3 DEF KillInv

(* A step of p that lists nothing and begins no rotation.                  *)
LEMMA KillSettles ==
  ASSUME TypeInv, KillInv, NEW p \in Proc,
         \A k \in drawn : key'[k] = key[k],
         ever \subseteq ever',
         \A k \in stored' \ stored : key'[k].root \notin Hushed,
         \A q \in Proc \ {p} : call'[q] = call[q] /\ calm'[q] = calm[q],
         KillFrame(call[p], calm[p])', calm'[p] = {}, UNCHANGED ended,
         call'[p].op = "RotateKey" => call[p].op = "RotateKey" /\ call'[p].old = call[p].old
  PROVE  KillInv'
<1>1. Hushed' \subseteq Hushed
  <2>1. \A q \in Proc : calm'[q] \subseteq calm[q]
    OBVIOUS
  <2> QED
    BY <2>1 DEF Hushed
<1>2. ASSUME NEW q \in Proc
      PROVE  KillFrame(call[q], calm[q])'
  <2>1. CASE q # p
    <3>1. KillFrame(call[q], calm[q]) /\ call'[q] = call[q] /\ calm'[q] = calm[q]
      BY <2>1 DEF KillInv
    <3> QED
      BY <3>1 DEF KillFrame
  <2> QED
    BY <2>1
<1>3. \A k \in stored' \ stored : key'[k].root \notin Hushed'
  BY <1>1
<1>4. \A q \in Proc : call'[q].op = "RotateKey" => call[q].op = "RotateKey" /\ call'[q].old = call[q].old
  OBVIOUS
<1>5. \A q \in Proc : \A r \in calm'[q] : r \in calm[q] /\ call[q].rows \cap stored' \subseteq call'[q].rows
  OBVIOUS
<1> QED
  BY <1>2, <1>3, <1>4, <1>5, KillKept

(* What is listed holds every key of its lineages, which have one worker.  *)
LEMMA KillLists ==
  ASSUME TypeInv, KillInv, NEW p \in Proc, NEW w \in Worker, ListKeys(p, w)
  PROVE  KillInv'
<1> DEFINE S == {k \in stored : key[k].workerID = w}
<1>1. /\ UNCHANGED <<key, stored, ever, ended>>
      /\ calm'[p] = RootsOf(S) \ RootsOf(Rotating)
      /\ \A q \in Proc \ {p} : call'[q] = call[q] /\ calm'[q] = calm[q]
  BY DEF ListKeys, Begin, table, outcomes, TypeInv, TypeOK
<1>2. /\ call'[p].op # "RotateKey" /\ call'[p].pc \notin HoldsOld
      /\ call'[p].pc # "deleteEach" => S = {}
      /\ S \subseteq call'[p].rows
  BY DEF ListKeys, Begin, Idle, HoldsOld, TypeInv, TypeOK
<1>3. \A r, T : Still(r, T) => Still(r, T)'
  BY <1>1, <1>2 DEF Still, RootsOf
<1>4. ASSUME NEW q \in Proc
      PROVE  KillFrame(call[q], calm[q])'
  <2>1. CASE q = p
    BY <1>1, <1>2, <2>1 DEF KillFrame, RootsOf
  <2>2. CASE q # p
    <3>1. KillFrame(call[q], calm[q]) /\ call'[q] = call[q] /\ calm'[q] = calm[q]
      BY <1>1, <2>2 DEF KillInv
    <3> QED
      BY <1>1, <3>1 DEF KillFrame
  <2> QED
    BY <2>1, <2>2
<1>5. ASSUME NEW q \in Proc, NEW r \in calm'[q]
      PROVE  Still(r, call[q].rows)'
  <2>1. CASE q # p
    <3>1. Still(r, call[q].rows) /\ call'[q] = call[q]
      BY <1>1, <1>5, <2>1 DEF KillInv
    <3> QED
      BY <1>3, <3>1
  <2>2. CASE q = p
    <3>1. PICK j \in S : key[j].root = r
      BY <1>1, <1>5, <2>2 DEF RootsOf
    <3>2. r \in RootsOf(ever)
      BY <3>1 DEF RootsOf, TypeInv, TypeOK
    <3>3. \A k \in stored : key[k].root = r => key[k].workerID = w
      BY <3>1 DEF TypeInv, TypeOK, ColumnsOK
    <3>4. \A i \in Proc : call[i].op = "RotateKey" => key[call[i].old].root # r
      BY <1>1, <1>5, <2>2 DEF Rotating, RootsOf
    <3>5. \A k \in stored : key[k].root = r => k \in call'[p].rows
      BY <1>2, <3>3
    <3>6. \A i \in Proc : call'[i].op = "RotateKey" => key[call'[i].old].root # r
      BY <1>1, <1>2, <3>4
    <3> QED
      BY <1>1, <2>2, <3>2, <3>5, <3>6 DEF Still, RootsOf
  <2> QED
    BY <2>1, <2>2
<1>6. \A r \in ended' : Still(r, {})'
  BY <1>1, <1>3 DEF KillInv
<1> QED
  BY <1>4, <1>5, <1>6 DEF KillInv

(* A rotation that begins breaks the calm of its lineage, which still has  *)
(* a key in the table and so has not ended.                                *)
LEMMA KillMeets ==
  ASSUME TypeInv, KillInv, NEW p \in Proc, NEW k \in stored, GetKey(p, k)
  PROVE  KillInv'
<1>1. /\ UNCHANGED <<key, stored, ever, ended>>
      /\ calm' = [q \in Proc |-> calm[q] \ {key[k].root}]
      /\ call' = [call EXCEPT ![p] = [Idle EXCEPT !.pc = "issue", !.op = "RotateKey", !.old = k]]
      /\ call[p].pc = "idle"
  BY DEF GetKey, Begin, RootsOf, table, outcomes
<1>2. /\ call'[p].op = "RotateKey" /\ call'[p].old = k /\ call'[p].pc = "issue"
      /\ \A q \in Proc \ {p} : call'[q] = call[q]
  BY <1>1 DEF Idle, TypeInv, TypeOK
<1>3. key[k].root \notin Hushed'
  <2>1. key[k].root \notin ended
    BY DEF KillInv, Still
  <2> QED
    BY <1>1, <2>1 DEF Hushed
<1>4. ASSUME NEW q \in Proc
      PROVE  KillFrame(call[q], calm[q])'
  <2>1. KillFrame(call[q], calm[q]) /\ calm'[q] \subseteq calm[q] /\ k \in ever
    BY <1>1 DEF KillInv, TypeInv, TypeOK
  <2>2. CASE q = p
    BY <1>1, <1>2, <2>1, <2>2 DEF KillFrame
  <2>3. CASE q # p
    <3>1. call'[q] = call[q]
      BY <1>2, <2>3
    <3> QED
      BY <1>1, <2>1, <3>1 DEF KillFrame
  <2> QED
    BY <2>2, <2>3
<1>5. \A q \in Proc : call'[q].op = "RotateKey" =>
        \/ call[q].op = "RotateKey" /\ call'[q].old = call[q].old
        \/ key'[call'[q].old].root \notin Hushed'
  BY <1>1, <1>2, <1>3
<1>6. ASSUME NEW q \in Proc, NEW r \in calm'[q]
      PROVE  r \in calm[q] /\ call[q].rows \cap stored' \subseteq call'[q].rows
  <2>1. r \in calm[q] /\ KillFrame(call[q], calm[q])
    BY <1>1, <1>6 DEF KillInv
  <2>2. q # p
    BY <1>1, <2>1 DEF KillFrame
  <2> QED
    BY <1>2, <2>1, <2>2
<1> QED
  BY <1>1, <1>4, <1>5, <1>6, KillKept

(* The loop passes over a key only once it is out of the table; the last   *)
(* delete ends the lineages that stayed calm.                              *)
LEMMA KillDeletes ==
  ASSUME TypeInv, KillInv, NEW p \in Proc, DeleteNext(p)
  PROVE  KillInv'
<1>1. PICK k \in call[p].rows :
           /\ stored' = stored \ {k}
           /\ \/ call' = [call EXCEPT ![p].rows = @ \ {k}] /\ UNCHANGED <<calm, ended>>
              \/ /\ call[p].rows \ {k} = {}
                 /\ call' = [call EXCEPT ![p] = Idle]
                 /\ calm' = [calm EXCEPT ![p] = {}]
                 /\ ended' = ended \cup calm[p]
  BY DEF DeleteNext, Rest, Delete, Return, LoopOver
<1>2. UNCHANGED <<key, ever>> /\ call[p].pc = "deleteEach" /\ call[p] \in Frame
  BY DEF DeleteNext, Delete, TypeInv, TypeOK
<1>3. /\ \A q \in Proc \ {p} : call'[q] = call[q] /\ calm'[q] = calm[q]
      /\ \/ /\ call'[p] = [call[p] EXCEPT !.rows = @ \ {k}] /\ calm'[p] = calm[p] /\ ended' = ended
         \/ /\ call[p].rows \cap stored' = {} /\ call'[p] = Idle /\ calm'[p] = {}
            /\ ended' = ended \cup calm[p]
  BY <1>1 DEF TypeInv, TypeOK
<1>4. call[p].op # "RotateKey"
  BY <1>2 DEF KillInv, KillFrame
<1>5. /\ call'[p].op # "RotateKey" /\ call'[p].pc \notin HoldsOld
      /\ call'[p].pc # "deleteEach" => calm'[p] = {}
      /\ calm'[p] # {} => calm'[p] = calm[p] /\ call'[p].rows = call[p].rows \ {k}
  BY <1>2, <1>3, <1>4 DEF Frame, Idle, HoldsOld
<1>6. ASSUME NEW q \in Proc
      PROVE  KillFrame(call[q], calm[q])'
  <2>1. CASE q = p
    BY <1>5, <2>1 DEF KillFrame
  <2>2. CASE q # p
    <3>1. KillFrame(call[q], calm[q]) /\ call'[q] = call[q] /\ calm'[q] = calm[q]
      BY <1>3, <2>2 DEF KillInv
    <3> QED
      BY <1>2, <3>1 DEF KillFrame
  <2> QED
    BY <2>1, <2>2
<1>7. \A q \in Proc : call'[q].op = "RotateKey" => call[q].op = "RotateKey" /\ call'[q].old = call[q].old
  BY <1>3, <1>5
<1>8. ASSUME NEW q \in Proc, NEW r \in calm'[q]
      PROVE  r \in calm[q] /\ call[q].rows \cap stored' \subseteq call'[q].rows
  BY <1>1, <1>3, <1>5, <1>8
<1>9. \A r \in ended' \ ended : \E q \in Proc : r \in calm[q] /\ call[q].rows \cap stored' = {}
  BY <1>3
<1>10. stored' \ stored = {} /\ (\A j \in drawn : key'[j] = key[j]) /\ ever \subseteq ever'
  BY <1>1, <1>2
<1> QED
  BY <1>6, <1>7, <1>8, <1>9, <1>10, KillKept

(* The goroutine is not in a loop, and its step leaves the loops alone.    *)
LEMMA KillElsewhere ==
  ASSUME TypeInv, KillInv, NEW p \in Proc, call[p].pc # "deleteEach",
         \A k \in drawn : key'[k] = key[k],
         ever \subseteq ever',
         \A k \in stored' \ stored : key'[k].root \notin Hushed,
         \A q \in Proc \ {p} : call'[q] = call[q],
         UNCHANGED <<calm, ended>>,
         call'[p].pc # "deleteEach",
         \/ call'[p].op # "RotateKey" /\ call'[p].pc \notin HoldsOld
         \/ call'[p].op = call[p].op /\ call'[p].old = call[p].old /\ call[p].op = "RotateKey"
  PROVE  KillInv'
<1>1. KillFrame(call[p], calm[p])
  BY DEF KillInv
<1>2. calm'[p] = {}
  BY <1>1 DEF KillFrame
<1>3. KillFrame(call[p], calm[p])'
  BY <1>1, <1>2 DEF KillFrame
<1> QED
  BY <1>2, <1>3, KillSettles

(* A key is stored: the first of its lineage, or one that a rotation       *)
(* carries over, and then no calm lineage is its own.                      *)
LEMMA KillStores ==
  ASSUME TypeInv, SafeInv, KillInv, NEW p \in Proc, call[p].pc \in {"create", "swap"}
  PROVE  key[call[p].fresh].root \notin Hushed
<1> DEFINE k == call[p].fresh
<1>1. \A r \in Hushed : \E T : Still(r, T)
  BY DEF KillInv, Hushed
<1>2. LineageFrame(call[p]) /\ KillFrame(call[p], calm[p])
  BY DEF SafeInv, KillInv
<1>3. CASE call[p].op = "RotateKey"
  <2>1. key[k].root = key[call[p].old].root
    BY <1>2, <1>3 DEF LineageFrame, Descends
  <2> QED
    BY <1>1, <1>3, <2>1 DEF Still
<1>4. CASE call[p].op # "RotateKey"
  <2>1. key[k].root = k /\ \A j \in ever : key[j].root # k
    BY <1>2, <1>4 DEF LineageFrame, KillFrame, HoldsOld
  <2> QED
    BY <1>1, <2>1 DEF Still, RootsOf
<1> QED
  BY <1>3, <1>4

LEMMA KillNext == TypeInv /\ SafeInv /\ KillInv /\ [Next]_vars => KillInv'
<1> SUFFICES ASSUME TypeInv, SafeInv, KillInv, [Next]_vars PROVE KillInv'
  OBVIOUS
<1>1. ASSUME NEW p \in Proc, NEW w \in Worker, NEW s \in Request, NEW e \in 1..MaxExpiry,
             IssueKey(p, w, s, e)
      PROVE  KillInv'
  <2>1. PICK k \in Key \ drawn :
             /\ Draw(k, [workerID |-> w, scope |-> s, expiresAt |-> e, root |-> k])
             /\ Begin(p, [Idle EXCEPT !.pc = "create", !.op = "IssueKey", !.fresh = k])
    BY <1>1 DEF IssueKey, Draw
  <2>2. (\A j \in drawn : key'[j] = key[j]) /\ UNCHANGED <<stored, ever, calm, ended>>
    BY <2>1 DEF Draw, Put, drawn, outcomes, history
  <2>3. /\ \A q \in Proc \ {p} : call'[q] = call[q]
        /\ call[p].pc = "idle" /\ call'[p].pc = "create" /\ call'[p].op = "IssueKey"
    BY <2>1 DEF Begin, Idle, TypeInv, TypeOK
  <2> QED
    BY <2>2, <2>3, KillElsewhere DEF HoldsOld
<1>2. ASSUME NEW p \in Proc, RotateIssues(p)
      PROVE  KillInv'
  <2>1. PICK k \in Key \ drawn :
             /\ Draw(k, Inherit(call[p].old))
             /\ call' = [call EXCEPT ![p].fresh = k, ![p].pc = IF atomic THEN "swap" ELSE "create"]
    BY <1>2 DEF RotateIssues, Draw
  <2>2. (\A j \in drawn : key'[j] = key[j]) /\ UNCHANGED <<stored, ever, calm, ended>>
    BY <2>1 DEF Draw, Put, drawn, outcomes, history
  <2>3. /\ \A q \in Proc \ {p} : call'[q] = call[q]
        /\ call[p].pc = "issue" /\ call'[p].pc \in {"create", "swap"}
        /\ call'[p].op = call[p].op /\ call'[p].old = call[p].old
    BY <1>2, <2>1 DEF RotateIssues, TypeInv, TypeOK, Frame
  <2>4. call[p].op = "RotateKey"
    BY <2>3 DEF KillInv, KillFrame, HoldsOld
  <2> QED
    BY <2>2, <2>3, <2>4, KillElsewhere
<1>3. ASSUME NEW p \in Proc, NEW k \in stored, GetKey(p, k)
      PROVE  KillInv'
  BY <1>3, KillMeets
<1>4. ASSUME NEW p \in Proc, NEW k \in stored, GetKeyByHash(p, k) \/ RevokeKey(p, k)
      PROVE  KillInv'
  <2>1. /\ \A q \in Proc \ {p} : call'[q] = call[q]
        /\ call[p].pc = "idle" /\ call'[p].pc \in {"idle", "check"} /\ call'[p].op # "RotateKey"
    <3>1. CASE GetKeyByHash(p, k)
      BY <3>1 DEF GetKeyByHash, Begin, Idle, TypeInv, TypeOK
    <3>2. CASE RevokeKey(p, k)
      BY <3>2 DEF RevokeKey, Begin, Idle, TypeInv, TypeOK
    <3> QED
      BY <1>4, <3>1, <3>2
  <2>2. UNCHANGED <<key, ever, calm, ended>> /\ stored' \subseteq stored
    BY <1>4 DEF GetKeyByHash, RevokeKey, Delete, table, outcomes, history
  <2> QED
    BY <2>1, <2>2, KillElsewhere DEF HoldsOld
<1>5. ASSUME NEW p \in Proc, NEW w \in Worker, ListKeys(p, w)
      PROVE  KillInv'
  BY <1>5, KillLists
<1>6. ASSUME NEW p \in Proc, RotateRefuses(p) \/ Authorize(p) \/ Rollback(p)
      PROVE  KillInv'
  <2>1. /\ \A q \in Proc \ {p} : call'[q] = call[q]
        /\ call[p].pc # "deleteEach" /\ call'[p] = Idle
    BY <1>6 DEF RotateRefuses, Authorize, Rollback, Return, TypeInv, TypeOK
  <2>2. UNCHANGED <<key, ever, calm, ended>> /\ stored' \subseteq stored
    BY <1>6 DEF RotateRefuses, Authorize, Rollback, Delete, Failed, table, outcomes, history
  <2> QED
    BY <2>1, <2>2, KillElsewhere DEF HoldsOld, Idle
<1>7. ASSUME NEW p \in Proc, CreateKey(p) \/ RotateAtomically(p)
      PROVE  KillInv'
  <2>1. /\ UNCHANGED <<key, calm, ended>> /\ ever \subseteq ever'
        /\ stored' \subseteq stored \cup {call[p].fresh}
        /\ call[p].pc \in {"create", "swap"}
    BY <1>7 DEF CreateKey, RotateAtomically, Insert, Failed, table
  <2>2. /\ \A q \in Proc \ {p} : call'[q] = call[q]
        /\ call'[p] = Idle \/ (call[p].op = "RotateKey" /\ call'[p] = [call[p] EXCEPT !.pc = "deleteOld"])
    BY <1>7 DEF CreateKey, RotateAtomically, Return, Goto, TypeInv, TypeOK
  <2>3. \/ call'[p] = Idle
        \/ /\ call'[p].pc = "deleteOld" /\ call'[p].op = call[p].op /\ call'[p].old = call[p].old
           /\ call[p].op = "RotateKey"
    BY <2>2 DEF Frame, TypeInv, TypeOK
  <2> QED
    BY <2>1, <2>2, <2>3, KillStores, KillElsewhere DEF HoldsOld, Idle
<1>8. ASSUME NEW p \in Proc, DeleteOld(p)
      PROVE  KillInv'
  <2>1. UNCHANGED <<key, ever, calm, ended>> /\ stored' \subseteq stored /\ call[p].pc = "deleteOld"
    BY <1>8 DEF DeleteOld, Delete, Failed, table
  <2>2. /\ \A q \in Proc \ {p} : call'[q] = call[q]
        /\ call'[p] = Idle \/ call'[p] = [call[p] EXCEPT !.pc = "rollback"]
    BY <1>8 DEF DeleteOld, Return, Goto, TypeInv, TypeOK
  <2>3. \/ call'[p] = Idle
        \/ call'[p].pc = "rollback" /\ call'[p].op = call[p].op /\ call'[p].old = call[p].old
    BY <2>2 DEF Frame, TypeInv, TypeOK
  <2>4. call[p].op = "RotateKey"
    BY <2>1 DEF KillInv, KillFrame, HoldsOld
  <2> QED
    BY <2>1, <2>2, <2>3, <2>4, KillElsewhere DEF HoldsOld, Idle
<1>9. ASSUME NEW p \in Proc, DeleteNext(p)
      PROVE  KillInv'
  BY <1>9, KillDeletes
<1>10. ASSUME NEW p \in Proc, DeleteNextFails(p) \/ Crash(p)
       PROVE  KillInv'
  <2>1. /\ \A q \in Proc \ {p} : call'[q] = call[q] /\ calm'[q] = calm[q]
        /\ call'[p] = Idle /\ calm'[p] = {}
    BY <1>10 DEF DeleteNextFails, Crash, Return, LoopOver, TypeInv, TypeOK
  <2>2. UNCHANGED <<key, ever, ended>> /\ stored' \subseteq stored
    BY <1>10 DEF DeleteNextFails, Crash, Delete, Failed, table, outcomes
  <2>3. KillFrame(call[p], calm[p])'
    BY <2>1 DEF KillFrame, Idle, HoldsOld
  <2> QED
    BY <2>1, <2>2, <2>3, KillSettles DEF Idle
<1>11. CASE Tick \/ UNCHANGED vars
  <2>1. UNCHANGED <<key, stored, ever, call, calm, ended>>
    BY <1>11 DEF Tick, vars, table, outcomes, history
  <2>2. \A q \in Proc : KillFrame(call[q], calm[q])'
    BY <2>1 DEF KillInv, KillFrame
  <2> QED
    BY <2>1, <2>2, KillKept
<1> QED
  BY <1>1, <1>2, <1>3, <1>4, <1>5, <1>6, <1>7, <1>8, <1>9, <1>10, <1>11 DEF Next

(* RevokeAllKeys is a kill-switch for every lineage that no rotation meets *)
(* between its list and its last delete, over a store with or without      *)
(* RotateAtomically: nothing that descends from one is stored again.       *)
THEOREM KillSwitchEndsCalmLineages == Spec => []KillSwitchUnraced
<1>1. KillInv => KillSwitchUnraced
  BY DEF KillInv, Still, KillSwitchUnraced
<1>2. Init => KillInv
  BY DEF Init, KillInv, KillFrame, Idle, HoldsOld
<1> QED
  BY <1>1, <1>2, TypeInit, TypeNext, SafeInit, SafeNext, KillNext, PTL DEF Spec

(* No key that was replaced or revoked authenticates again, and nothing of *)
(* a lineage that RevokeAllKeys ended undisturbed.                         *)
THEOREM WhatEndedStaysEnded == Spec => []NothingReturns
<1>1. SpentStaysDead /\ KillSwitchUnraced => NothingReturns
  BY DEF NothingReturns
<1> QED
  BY <1>1, SpentKeysAreDead, KillSwitchEndsCalmLineages, PTL
=============================================================================
