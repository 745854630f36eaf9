---------------------------- MODULE LockoutProofs ----------------------------
(***************************************************************************)
(* What Lockout guarantees for every policy, every number of concurrent    *)
(* attempts on every account and any number of failures, over each kind of *)
(* store.                                                                  *)
(***************************************************************************)
EXTENDS Lockout, FiniteSetTheorems, TLAPS

-----------------------------------------------------------------------------
(* What one recorded failure makes of a row.                               *)

LEMMA RecordedMeaning ==
  ASSUME NEW s \in Snapshot, NEW at \in Nat
  PROVE  /\ Recorded(s, at) \in Snapshot
         /\ Recorded(s, at).count >= 1
         /\ Recorded(s, at).until \in {0, s.until, at + Window}
         /\ LockExpired(s, at) =>
              Recorded(s, at) = [count |-> 1, until |-> IF MaxFailures = 1 THEN at + Window ELSE 0]
         /\ ~LockExpired(s, at) =>
              Recorded(s, at) = [count |-> s.count + 1,
                                 until |-> IF s.count + 1 >= MaxFailures /\ s.until = 0 THEN at + Window ELSE s.until]
<1>1. Fresh \in Snapshot /\ Fresh.count = 0 /\ Fresh.until = 0
  BY DEF Fresh, Snapshot
<1>2. CASE LockExpired(s, at)
  <2>1. Recorded(s, at) = [count |-> 0 + 1, until |-> IF 0 + 1 >= MaxFailures THEN at + Window ELSE 0]
    BY <1>1, <1>2 DEF Recorded, LockedUntil, Engages
  <2> QED
    BY <1>2, <2>1, ConstantsAssumption DEF Snapshot
<1>3. CASE ~LockExpired(s, at)
  <2>1. Recorded(s, at) = [count |-> s.count + 1,
                           until |-> IF s.count + 1 >= MaxFailures /\ s.until = 0 THEN at + Window ELSE s.until]
    BY <1>3 DEF Recorded, LockedUntil, Engages
  <2> QED
    BY <1>3, <2>1, ConstantsAssumption DEF Snapshot
<1> QED
  BY <1>2, <1>3

LEMMA CapBounds == /\ Cardinality(Proc) \in Nat /\ Cap \in Nat
                   /\ MaxFailures + Cardinality(Proc) + MaxFaults = Cap
  BY FS_CardinalityType, ConstantsAssumption DEF Cap

-----------------------------------------------------------------------------
(* The inductive invariant.                                                *)

(* No clock was read in the future, and no row that was read locks for     *)
(* longer than a window.                                                   *)
FrameOK(c) ==
  /\ c.pc # "idle" => c.acct \in Account
  /\ c.at <= now /\ c.snap.until <= now + Window
  /\ c.pc \in {"get", "save"} => kind = "plain"

TypeInv ==
  /\ TypeOK
  /\ \A p \in Proc : FrameOK(call[p])

(* The lock engages at the threshold, and the count is the number of       *)
(* failures.                                                               *)
CountOK ==
  kind = "exact" =>
    \A a \in Account :
      /\ row[a].until # 0 <=> row[a].count >= MaxFailures
      /\ burnt[a] = row[a].count \/ (burnt[a] >= Cap /\ row[a].count >= Cap)

ToldOK ==
  kind = "exact" =>
    \A a \in Account :
      /\ told[a] <= 1
      /\ row[a].count < MaxFailures => told[a] = 0
      /\ row[a].until # 0 => told[a] = 1 \/ a \in missed

(* The attempt is past Guard, or will pass it with the row it read, and    *)
(* its failure counts although the account is locked.                      *)
Threatens(c, a) ==
  /\ c.acct = a
  /\ \/ c.pc = "guard" /\ c.snap.until # row[a].until
     \/ c.pc \in {"verify", "clock"} /\ now < row[a].until
     \/ c.pc = "record" /\ c.at < row[a].until

Threat(a) == {p \in Proc : Threatens(call[p], a)}

(* One attempt has engaged the lock; each other guesses at most once more, *)
(* and again only if Guard failed.                                         *)
GuessOK ==
  kind = "exact" =>
    \A a \in Account :
      row[a].until # 0 => burnt[a] + Cardinality(Threat(a)) <= MaxFailures + Cardinality(Proc) - 1 + faults

Inv == TypeInv /\ VictimRecovers /\ LockHoldsExact /\ CountOK /\ ToldOK /\ GuessOK

LEMMA InvInit == Init => Inv
<1> SUFFICES ASSUME Init PROVE Inv
  OBVIOUS
<1>1. TypeInv
  BY ConstantsAssumption DEF Init, TypeInv, TypeOK, FrameOK, Fresh, Snapshot, Idle, Frame
<1>2. VictimRecovers /\ LockHoldsExact /\ ToldOK /\ GuessOK
  BY ConstantsAssumption DEF Init, VictimRecovers, LockHoldsExact, LockHolds, ToldOK, GuessOK, Fresh
<1>3. CountOK
  BY ConstantsAssumption DEF Init, CountOK, Fresh
<1> QED
  BY <1>1, <1>2, <1>3 DEF Inv

LEMMA OneMore ==
  ASSUME NEW T, NEW U, NEW x, IsFiniteSet(T), U \subseteq T \cup {x}
  PROVE  Cardinality(U) <= Cardinality(T) + 1 /\ Cardinality(U) \in Nat
<1>1. IsFiniteSet(T \cup {x}) /\ Cardinality(T \cup {x}) <= Cardinality(T) + 1 /\ Cardinality(T) \in Nat
  BY FS_AddElement, FS_CardinalityType
<1>2. IsFiniteSet(U) /\ Cardinality(U) <= Cardinality(T \cup {x})
  BY <1>1, FS_Subset
<1> QED
  BY <1>1, <1>2, FS_CardinalityType

LEMMA ThreatCount ==
  ASSUME NEW a
  PROVE  /\ IsFiniteSet(Threat(a)) /\ Cardinality(Threat(a)) \in Nat
         /\ \A S : S \subseteq Threat(a) => IsFiniteSet(S) /\ Cardinality(S) \in Nat /\ Cardinality(S) <= Cardinality(Threat(a))
<1>1. Threat(a) \subseteq Proc /\ IsFiniteSet(Threat(a))
  BY FS_Subset, ConstantsAssumption DEF Threat
<1> QED
  BY <1>1, FS_Subset, FS_CardinalityType

-----------------------------------------------------------------------------
(* Steps that leave the table and the history alone: p's frame becomes fr. *)
LEMMA QuietInv ==
  ASSUME Inv, NEW p \in Proc, NEW fr \in Frame, call' = [call EXCEPT ![p] = fr],
         UNCHANGED <<kind, now, row, history>>, faults' \in 0..MaxFaults, FrameOK(fr),
         \/ faults' >= faults /\ \A a \in Account : kind = "exact" /\ Threatens(fr, a) => Threatens(call[p], a)
         \/ faults' = faults + 1
  PROVE  Inv'
<1>1. call' \in [Proc -> Frame] /\ call'[p] = fr /\ \A q \in Proc \ {p} : call'[q] = call[q]
  BY DEF Inv, TypeInv, TypeOK
<1>2. UNCHANGED <<burnt, promise, told, missed>>
  BY DEF history
<1>3. TypeInv'
  <2>1. \A q \in Proc : FrameOK(call'[q])
    BY <1>1 DEF Inv, TypeInv
  <2> QED
    BY <1>1, <1>2, <2>1 DEF Inv, TypeInv, TypeOK, FrameOK
<1>4. VictimRecovers' /\ LockHoldsExact' /\ CountOK' /\ ToldOK'
  BY <1>2 DEF Inv, VictimRecovers, LockHoldsExact, LockHolds, CountOK, ToldOK
<1>5. GuessOK'
  <2> SUFFICES ASSUME kind = "exact", NEW a \in Account, row[a].until # 0
               PROVE  burnt[a] + Cardinality(Threat(a)') <= MaxFailures + Cardinality(Proc) - 1 + faults'
    BY <1>2 DEF GuessOK
  <2>1. burnt[a] + Cardinality(Threat(a)) <= MaxFailures + Cardinality(Proc) - 1 + faults
    BY DEF Inv, GuessOK
  <2>2. Threat(a)' = {q \in Proc : Threatens(call'[q], a)}
    BY DEF Threat, Threatens
  <2>3. /\ burnt[a] \in Nat /\ faults \in Nat /\ faults' \in Nat /\ Cardinality(Proc) \in Nat /\ MaxFailures \in Nat
        /\ Cardinality(Threat(a)) \in Nat /\ IsFiniteSet(Threat(a))
    BY ThreatCount, CapBounds, ConstantsAssumption DEF Inv, TypeInv, TypeOK
  <2>4. CASE faults' >= faults /\ \A x \in Account : Threatens(fr, x) => Threatens(call[p], x)
    <3>1. Threat(a)' \subseteq Threat(a)
      BY <1>1, <2>2, <2>4 DEF Threat
    <3>2. Cardinality(Threat(a)') <= Cardinality(Threat(a)) /\ Cardinality(Threat(a)') \in Nat
      BY <3>1, ThreatCount
    <3> QED
      BY <2>1, <2>3, <2>4, <3>2
  <2>5. CASE faults' = faults + 1
    <3>1. PICK T, U : T = Threat(a) /\ U = Threat(a)'
      OBVIOUS
    <3>2. U \subseteq T \cup {p} /\ IsFiniteSet(T)
      BY <1>1, <2>2, <2>3, <3>1 DEF Threat
    <3>3. Cardinality(U) <= Cardinality(T) + 1 /\ Cardinality(U) \in Nat
      BY <3>2, OneMore
    <3> QED
      BY <2>1, <2>3, <2>5, <3>1, <3>3
  <2> QED
    BY <2>4, <2>5
<1> QED
  BY <1>3, <1>4, <1>5 DEF Inv
LEMMA GuardGetInv == ASSUME Inv, NEW p \in Proc, NEW a \in Account, GuardGet(p, a) PROVE Inv'
<1>1. UNCHANGED <<kind, now, row, history>> /\ call[p].pc = "idle"
  BY DEF GuardGet
<1>2. PICK r \in Snapshot : r = row[a] /\ r.until <= now + Window
  BY DEF Inv, TypeInv, TypeOK, VictimRecovers
<1> DEFINE past == [Idle EXCEPT !.acct = a, !.pc = "verify"]
           asks == [Idle EXCEPT !.acct = a, !.pc = "guard", !.snap = r]
<1>3. /\ past \in Frame /\ past.pc = "verify" /\ past.acct = a /\ FrameOK(past)
      /\ asks \in Frame /\ asks.pc = "guard" /\ asks.acct = a /\ asks.snap = r /\ FrameOK(asks)
  <2>1. now \in Nat /\ Window \in Nat
    BY ConstantsAssumption DEF Inv, TypeInv, TypeOK
  <2>2. past \in Frame /\ past.pc = "verify" /\ past.acct = a /\ past.at = 0 /\ past.snap.until = 0
    BY DEF Idle, Frame, Fresh, Snapshot
  <2>3. asks \in Frame /\ asks.pc = "guard" /\ asks.acct = a /\ asks.at = 0 /\ asks.snap = r
    BY DEF Idle, Frame
  <2>4. FrameOK(past)
    BY <2>1, <2>2 DEF FrameOK
  <2>5. FrameOK(asks)
    BY <1>2, <2>1, <2>3 DEF FrameOK
  <2> QED
    BY <2>2, <2>3, <2>4, <2>5
<1>4. CASE Lost /\ call' = [call EXCEPT ![p] = past]
  <2>1. faults' \in 0..MaxFaults /\ faults' = faults + 1
    BY <1>4, ConstantsAssumption DEF Lost, Inv, TypeInv, TypeOK
  <2> QED
    BY <1>1, <1>3, <1>4, <2>1, QuietInv
<1>5. CASE Done /\ row[a].until = 0 /\ call' = [call EXCEPT ![p] = past]
  <2>1. faults' \in 0..MaxFaults /\ faults' >= faults
    BY <1>5, ConstantsAssumption DEF Done, Inv, TypeInv, TypeOK
  <2>2. \A x \in Account : ~Threatens(past, x)
    BY <1>3, <1>5 DEF Threatens, Inv, TypeInv, TypeOK
  <2> QED
    BY <1>1, <1>3, <1>5, <2>1, <2>2, QuietInv
<1>6. CASE Done /\ row[a].until # 0 /\ call' = [call EXCEPT ![p] = asks]
  <2>1. faults' \in 0..MaxFaults /\ faults' >= faults
    BY <1>6, ConstantsAssumption DEF Done, Inv, TypeInv, TypeOK
  <2>2. \A x \in Account : ~Threatens(asks, x)
    BY <1>2, <1>3 DEF Threatens
  <2> QED
    BY <1>1, <1>3, <1>6, <2>1, <2>2, QuietInv
<1> QED
  BY <1>2, <1>4, <1>5, <1>6 DEF GuardGet

(* A call that ends, and leaves the table alone.                           *)
LEMMA EndsInv ==
  ASSUME Inv, NEW p \in Proc, call' = [call EXCEPT ![p] = Idle],
         UNCHANGED <<kind, now, row, history>>, Done \/ Lost
  PROVE  Inv'
<1>1. Idle \in Frame /\ FrameOK(Idle) /\ \A a \in Account : ~Threatens(Idle, a)
  BY ConstantsAssumption DEF Idle, Frame, Fresh, Snapshot, FrameOK, Threatens, Inv, TypeInv, TypeOK
<1>2. faults' \in 0..MaxFaults /\ faults' >= faults
  BY ConstantsAssumption DEF Done, Lost, Inv, TypeInv, TypeOK
<1> QED
  BY <1>1, <1>2, QuietInv

(* A call that goes on, and leaves the store alone.                        *)
LEMMA GoesOnInv ==
  ASSUME Inv, NEW p \in Proc, NEW fr \in Frame, call' = [call EXCEPT ![p] = fr],
         UNCHANGED <<kind, now, row, faults, history>>, FrameOK(fr),
         \A a \in Account : kind = "exact" /\ Threatens(fr, a) => Threatens(call[p], a)
  PROVE  Inv'
<1>1. faults' \in 0..MaxFaults /\ faults' >= faults
  BY ConstantsAssumption DEF Inv, TypeInv, TypeOK
<1> QED
  BY <1>1, QuietInv

LEMMA GuardCheckInv == ASSUME Inv, NEW p \in Proc, GuardCheck(p) PROVE Inv'
<1>1. PICK c \in Frame : c = call[p] /\ c.pc = "guard" /\ FrameOK(c)
  BY DEF GuardCheck, Inv, TypeInv, TypeOK
<1>2. CASE Return(p)
  BY <1>2, EndsInv DEF GuardCheck, Return, Done
<1>3. CASE ~Before(c.snap.until) /\ call' = [call EXCEPT ![p] = [c EXCEPT !.snap = Fresh, !.pc = "verify"]]
  <2> DEFINE fr == [c EXCEPT !.snap = Fresh, !.pc = "verify"]
  <2>1. fr \in Frame /\ fr.pc = "verify" /\ fr.acct = c.acct /\ fr.snap.until = 0 /\ fr.at = c.at
    BY DEF Frame, Fresh, Snapshot
  <2>2. FrameOK(fr)
    BY <1>1, <2>1, ConstantsAssumption DEF FrameOK, Inv, TypeInv, TypeOK
  <2>3. ~(now < c.snap.until)
    BY <1>3 DEF Before
  <2>4. \A a \in Account : Threatens(fr, a) => Threatens(c, a)
    BY <1>1, <2>1, <2>3 DEF Threatens
  <2> QED
    BY <1>1, <1>3, <2>1, <2>2, <2>4, GoesOnInv DEF GuardCheck
<1> QED
  BY <1>1, <1>2, <1>3 DEF GuardCheck, Inv, TypeInv, TypeOK

LEMMA VerifyInv == ASSUME Inv, NEW p \in Proc, Verify(p) PROVE Inv'
<1>1. PICK c \in Frame : c = call[p] /\ c.pc = "verify" /\ FrameOK(c)
  BY DEF Verify, Inv, TypeInv, TypeOK
<1>2. PICK pc \in {"get", "clock", "clear"} :
        /\ call' = [call EXCEPT ![p] = [c EXCEPT !.pc = pc]]
        /\ pc = "get" => kind = "plain"
  <2>1. call' = [call EXCEPT ![p].pc = IF kind = "plain" THEN "get" ELSE "clock"] \/ call' = [call EXCEPT ![p].pc = "clear"]
    BY DEF Verify, Goto
  <2>2. CASE kind = "plain"
    BY <1>1, <2>1, <2>2 DEF Inv, TypeInv, TypeOK
  <2>3. CASE kind # "plain"
    BY <1>1, <2>1, <2>3 DEF Inv, TypeInv, TypeOK
  <2> QED
    BY <2>2, <2>3
<1> DEFINE fr == [c EXCEPT !.pc = pc]
<1>3. fr \in Frame /\ fr.pc = pc /\ fr.acct = c.acct /\ fr.snap = c.snap /\ fr.at = c.at
  BY DEF Frame
<1>4. FrameOK(fr) /\ \A a \in Account : Threatens(fr, a) => Threatens(c, a)
  BY <1>1, <1>2, <1>3 DEF FrameOK, Threatens
<1> QED
  BY <1>1, <1>2, <1>3, <1>4, GoesOnInv DEF Verify

LEMMA ReadClockInv == ASSUME Inv, NEW p \in Proc, ReadClock(p) PROVE Inv'
<1>1. PICK c \in Frame : c = call[p] /\ c.pc = "clock" /\ FrameOK(c)
  BY DEF ReadClock, Inv, TypeInv, TypeOK
<1> DEFINE fr == [c EXCEPT !.at = now, !.pc = "record"]
<1>2. call' = [call EXCEPT ![p] = fr]
  BY <1>1 DEF ReadClock, Inv, TypeInv, TypeOK
<1>3. now \in Nat
  BY DEF Inv, TypeInv, TypeOK
<1>4. fr \in Frame /\ fr.pc = "record" /\ fr.acct = c.acct /\ fr.snap = c.snap /\ fr.at = now
  BY <1>3 DEF Frame
<1>5. FrameOK(fr) /\ \A a \in Account : Threatens(fr, a) => Threatens(c, a)
  BY <1>1, <1>3, <1>4 DEF FrameOK, Threatens
<1> QED
  BY <1>1, <1>2, <1>4, <1>5, GoesOnInv DEF ReadClock

LEMMA GetInv == ASSUME Inv, NEW p \in Proc, Get(p) PROVE Inv'
<1>1. PICK c \in Frame : c = call[p] /\ c.pc = "get" /\ FrameOK(c)
  BY DEF Get, Inv, TypeInv, TypeOK
<1>2. kind = "plain" /\ c.acct \in Account
  BY <1>1 DEF FrameOK
<1>3. PICK r \in Snapshot : r = row[c.acct] /\ r.until <= now + Window
  BY <1>2 DEF Inv, TypeInv, TypeOK, VictimRecovers
<1>4. CASE Failed /\ Return(p)
  BY <1>4, EndsInv DEF Get, Failed, Return
<1>5. CASE Done /\ call' = [call EXCEPT ![p] = [c EXCEPT !.snap = r, !.pc = "clock"]]
  <2> DEFINE fr == [c EXCEPT !.snap = r, !.pc = "clock"]
  <2>1. fr \in Frame /\ fr.pc = "clock" /\ fr.acct = c.acct /\ fr.snap = r /\ fr.at = c.at
    BY DEF Frame
  <2>2. FrameOK(fr)
    BY <1>1, <1>2, <1>3, <2>1 DEF FrameOK
  <2> QED
    BY <1>2, <1>5, <2>1, <2>2, GoesOnInv DEF Get, Done
<1> QED
  BY <1>1, <1>3, <1>4, <1>5 DEF Get, Inv, TypeInv, TypeOK

LEMMA DecideInv == ASSUME Inv, NEW p \in Proc, Decide(p) PROVE Inv'
<1>1. PICK c \in Frame : c = call[p] /\ c.pc = "clock" /\ FrameOK(c)
  BY DEF Decide, Inv, TypeInv, TypeOK
<1>2. kind = "plain" /\ now \in Nat
  BY DEF Decide, Inv, TypeInv, TypeOK
<1>3. CASE Return(p)
  BY <1>3, EndsInv DEF Decide, Return, Done
<1>4. CASE call' = [call EXCEPT ![p] = [c EXCEPT !.at = now, !.pc = "save"]]
  <2> DEFINE fr == [c EXCEPT !.at = now, !.pc = "save"]
  <2>1. fr \in Frame /\ fr.pc = "save" /\ fr.acct = c.acct /\ fr.snap = c.snap /\ fr.at = now
    BY <1>2 DEF Frame
  <2>2. FrameOK(fr)
    BY <1>1, <1>2, <2>1 DEF FrameOK
  <2> QED
    BY <1>2, <1>4, <2>1, <2>2, GoesOnInv DEF Decide
<1> QED
  BY <1>1, <1>3, <1>4 DEF Decide, Inv, TypeInv, TypeOK
-----------------------------------------------------------------------------
(* Steps that write one row: those of other accounts, and of other         *)
(* attempts, are as before.                                                *)
LEMMA OtherAccounts ==
  ASSUME Inv, NEW p \in Proc, NEW a \in Account, NEW r \in Snapshot,
         call' = [call EXCEPT ![p] = Idle], row' = [row EXCEPT ![a] = r],
         UNCHANGED <<kind, now>>
  PROVE  /\ call' \in [Proc -> Frame] /\ (\A q \in Proc : FrameOK(call[q])')
         /\ row' \in [Account -> Snapshot] /\ row'[a] = r
         /\ \A b \in Account \ {a} : row'[b] = row[b] /\ Threat(b)' \subseteq Threat(b)
         /\ Threat(a)' \subseteq Proc \ {p}
         /\ r.until = row[a].until => Threat(a)' \subseteq Threat(a) \ {p}
<1>1. Idle \in Frame /\ FrameOK(Idle) /\ Idle.acct = None /\ Idle.pc = "idle"
  BY ConstantsAssumption DEF Idle, Frame, Fresh, Snapshot, FrameOK, Inv, TypeInv, TypeOK
<1>2. call' \in [Proc -> Frame] /\ call'[p] = Idle /\ \A q \in Proc \ {p} : call'[q] = call[q]
  BY <1>1 DEF Inv, TypeInv, TypeOK
<1>3. \A q \in Proc : FrameOK(call'[q])
  BY <1>1, <1>2 DEF Inv, TypeInv
<1>4. \A q \in Proc : FrameOK(call[q])'
  BY <1>3 DEF FrameOK
<1>5. row' \in [Account -> Snapshot] /\ row'[a] = r /\ \A b \in Account \ {a} : row'[b] = row[b]
  BY DEF Inv, TypeInv, TypeOK
<1>6. \A b \in Account : p \notin Threat(b)'
  BY <1>1, <1>2, ConstantsAssumption DEF Threat, Threatens
<1>7. \A b \in Account \ {a} : Threat(b)' \subseteq Threat(b)
  BY <1>2, <1>5, <1>6 DEF Threat, Threatens
<1>8. Threat(a)' \subseteq Proc \ {p}
  BY <1>6 DEF Threat
<1>9. r.until = row[a].until => Threat(a)' \subseteq Threat(a) \ {p}
  BY <1>2, <1>5, <1>6 DEF Threat, Threatens
<1> QED
  BY <1>2, <1>4, <1>5, <1>7, <1>8, <1>9

(* What recording a failure against the row s of account a does; with an   *)
(* exact store s is the row in the table.                                  *)
LEMMA WriteInv ==
  ASSUME Inv, NEW p \in Proc, NEW a \in Account, NEW s \in Snapshot, NEW at \in Nat,
         at <= now, s.until <= now + Window,
         call' = [call EXCEPT ![p] = Idle], UNCHANGED <<kind, now>>,
         Write(a, Recorded(s, at), LockExpired(s, at)),
         kind = "exact" => /\ s = row[a] /\ call[p].pc = "record"
                           /\ call[p].acct = a /\ call[p].at = at
  PROVE  Inv'
<1>1. PICK r \in Snapshot : r = Recorded(s, at)
  BY RecordedMeaning
<1>2. PICK e \in BOOLEAN : e <=> LockExpired(s, at)
  OBVIOUS
<1>3. /\ row' = [row EXCEPT ![a] = r]
      /\ burnt' = [burnt EXCEPT ![a] = IF e THEN 1 ELSE Up(@)]
      /\ \/ /\ faults' = faults
            /\ told' = [told EXCEPT ![a] = IF JustLocked(r) THEN Up(IF e THEN 0 ELSE told[a]) ELSE IF e THEN 0 ELSE told[a]]
            /\ promise' = [promise EXCEPT ![a] = IF JustLocked(r) THEN r.until ELSE @]
            /\ missed' = missed
         \/ /\ Lost
            /\ told' = [told EXCEPT ![a] = IF e THEN 0 ELSE told[a]]
            /\ missed' = missed \cup {a}
            /\ promise' = promise
  BY <1>1, <1>2 DEF Write, Done
<1>4. /\ r.count \in Nat /\ r.until \in Nat /\ r.count >= 1 /\ r.until \in {0, s.until, at + Window}
      /\ e => r = [count |-> 1, until |-> IF MaxFailures = 1 THEN at + Window ELSE 0]
      /\ ~e => r = [count |-> s.count + 1,
                    until |-> IF s.count + 1 >= MaxFailures /\ s.until = 0 THEN at + Window ELSE s.until]
  BY <1>1, <1>2, RecordedMeaning DEF Snapshot
<1>5. /\ faults' \in 0..MaxFaults /\ faults' >= faults /\ faults \in Nat
      /\ now \in Nat /\ MaxFailures \in Nat \ {0} /\ Window \in Nat \ {0}
      /\ Cardinality(Proc) \in Nat /\ Cap \in Nat /\ Cap >= MaxFailures
      /\ s.count \in Nat /\ s.until \in Nat
  BY <1>3, CapBounds, ConstantsAssumption DEF Lost, Snapshot, Inv, TypeInv, TypeOK
<1>6. /\ call' \in [Proc -> Frame] /\ (\A q \in Proc : FrameOK(call[q])')
      /\ row' \in [Account -> Snapshot] /\ row'[a] = r
      /\ \A b \in Account \ {a} : row'[b] = row[b] /\ Threat(b)' \subseteq Threat(b)
      /\ Threat(a)' \subseteq Proc \ {p}
      /\ r.until = row[a].until => Threat(a)' \subseteq Threat(a) \ {p}
  BY <1>3, OtherAccounts
<1>7. /\ burnt' \in [Account -> Nat] /\ burnt'[a] = (IF e THEN 1 ELSE Up(burnt[a]))
      /\ \A b \in Account \ {a} : burnt'[b] = burnt[b]
  BY <1>3, <1>5 DEF Up, Inv, TypeInv, TypeOK
<1>8. /\ told' \in [Account -> Nat] /\ promise' \in [Account -> Nat] /\ missed' \subseteq Account
      /\ \A b \in Account \ {a} : told'[b] = told[b] /\ promise'[b] = promise[b]
      /\ missed \subseteq missed'
      /\ \/ /\ told'[a] = IF JustLocked(r) THEN Up(IF e THEN 0 ELSE told[a]) ELSE IF e THEN 0 ELSE told[a]
            /\ promise'[a] = IF JustLocked(r) THEN r.until ELSE promise[a]
         \/ /\ told'[a] = IF e THEN 0 ELSE told[a]
            /\ promise'[a] = promise[a] /\ a \in missed'
  <2>1. told \in [Account -> Nat] /\ promise \in [Account -> Nat] /\ missed \subseteq Account
    BY DEF Inv, TypeInv, TypeOK
  <2>2. PICK n \in Nat, m \in Nat : n = (IF e THEN 0 ELSE told[a]) /\ m = (IF JustLocked(r) THEN Up(n) ELSE n)
    BY <1>5, <2>1 DEF Up
  <2>3. PICK u \in Nat : u = IF JustLocked(r) THEN r.until ELSE promise[a]
    BY <1>4, <2>1
  <2>4. \/ /\ told' = [told EXCEPT ![a] = m] /\ promise' = [promise EXCEPT ![a] = u] /\ missed' = missed
        \/ told' = [told EXCEPT ![a] = n] /\ promise' = promise /\ missed' = missed \cup {a}
    BY <1>3, <2>1, <2>2, <2>3
  <2> QED
    BY <2>1, <2>2, <2>3, <2>4
<1>9. TypeInv'
  BY <1>4, <1>5, <1>6, <1>7, <1>8 DEF Inv, TypeInv, TypeOK
<1>10. VictimRecovers'
  BY <1>4, <1>5, <1>6 DEF Inv, VictimRecovers
<1>11. ASSUME kind = "exact"
       PROVE  /\ s = row[a]
              /\ e <=> s.until # 0 /\ s.until <= at
              /\ s.until # 0 <=> s.count >= MaxFailures
              /\ burnt[a] = s.count \/ (burnt[a] >= Cap /\ s.count >= Cap)
  BY <1>2, <1>11 DEF LockExpired, LessOrEqual, Inv, CountOK
<1>12. LockHoldsExact'
  <2> SUFFICES ASSUME kind = "exact", NEW b \in Account, now < promise'[b]
               PROVE  row'[b].until = promise'[b]
    BY DEF LockHoldsExact, LockHolds
  <2>1. \A x \in Account : now < promise[x] => row[x].until = promise[x]
    BY DEF Inv, LockHoldsExact, LockHolds
  <2>2. CASE b # a
    BY <1>6, <1>8, <2>1, <2>2
  <2>3. CASE b = a
    <3>1. CASE promise'[a] = r.until
      BY <1>6, <2>3, <3>1
    <3>2. CASE promise'[a] = promise[a]
      <4>1. s.until = promise[a] /\ now < s.until
        BY <1>11, <2>1, <2>3, <3>2
      <4>2. ~e /\ s.until # 0
        BY <1>5, <1>11, <4>1
      <4>3. r.until = s.until
        BY <1>4, <4>2
      <4> QED
        BY <1>6, <2>3, <3>2, <4>1, <4>3
    <3> QED
      BY <1>8, <3>1, <3>2
  <2> QED
    BY <2>2, <2>3
<1>13. CountOK'
  <2> SUFFICES ASSUME kind = "exact"
               PROVE  /\ r.until # 0 <=> r.count >= MaxFailures
                      /\ burnt'[a] = r.count \/ (burnt'[a] >= Cap /\ r.count >= Cap)
    BY <1>6, <1>7 DEF Inv, CountOK
  <2>1. CASE e
    BY <1>4, <1>5, <1>7, <2>1
  <2>2. CASE ~e
    <3>1. r.until # 0 <=> r.count >= MaxFailures
      BY <1>4, <1>5, <1>11, <2>2
    <3>2. burnt'[a] = r.count \/ (burnt'[a] >= Cap /\ r.count >= Cap)
      <4>1. r.count = s.count + 1 /\ burnt[a] \in Nat /\ burnt'[a] = Up(burnt[a])
        BY <1>4, <1>7, <2>2 DEF Inv, TypeInv, TypeOK
      <4>2. CASE burnt[a] < Cap
        BY <1>5, <1>11, <4>1, <4>2 DEF Up
      <4>3. CASE ~(burnt[a] < Cap)
        BY <1>5, <1>11, <4>1, <4>3 DEF Up
      <4> QED
        BY <4>2, <4>3
    <3> QED
      BY <3>1, <3>2
  <2> QED
    BY <2>1, <2>2
<1>14. ToldOK'
  <2> SUFFICES ASSUME kind = "exact"
               PROVE  /\ told'[a] <= 1
                      /\ r.count < MaxFailures => told'[a] = 0
                      /\ r.until # 0 => told'[a] = 1 \/ a \in missed'
    BY <1>6, <1>8 DEF Inv, ToldOK
  <2>1. /\ told[a] <= 1 /\ (s.count < MaxFailures => told[a] = 0) /\ told[a] \in Nat
        /\ s.until # 0 => told[a] = 1 \/ a \in missed
    BY <1>11 DEF Inv, ToldOK, TypeInv, TypeOK
  <2>2. JustLocked(r) <=> r.until # 0 /\ r.count = MaxFailures
    BY DEF JustLocked
  <2>3. \A n \in {0} : Up(n) = 1
    BY <1>5 DEF Up
  <2>4. CASE e
    BY <1>4, <1>5, <1>8, <2>2, <2>3, <2>4
  <2>5. CASE ~e
    <3>1. CASE s.count < MaxFailures
      BY <1>4, <1>5, <1>8, <1>11, <2>1, <2>2, <2>3, <2>5, <3>1
    <3>2. CASE ~(s.count < MaxFailures)
      BY <1>4, <1>5, <1>8, <1>11, <2>1, <2>2, <2>5, <3>2
    <3> QED
      BY <3>1, <3>2
  <2> QED
    BY <2>4, <2>5
<1>15. GuessOK'
  <2> SUFFICES ASSUME kind = "exact", NEW b \in Account, row'[b].until # 0
               PROVE  burnt'[b] + Cardinality(Threat(b)') <= MaxFailures + Cardinality(Proc) - 1 + faults'
    BY DEF GuessOK
  <2>1. \A x \in Account : row[x].until # 0 =>
          burnt[x] + Cardinality(Threat(x)) <= MaxFailures + Cardinality(Proc) - 1 + faults
    BY DEF Inv, GuessOK
  <2>2. PICK T, U : T = Threat(b) /\ U = Threat(b)'
    OBVIOUS
  <2>3. IsFiniteSet(T) /\ Cardinality(T) \in Nat /\ burnt[b] \in Nat
    BY <2>2, ThreatCount DEF Inv, TypeInv, TypeOK
  <2>4. CASE b # a
    <3>1. U \subseteq T
      BY <1>6, <2>2, <2>4
    <3>2. Cardinality(U) <= Cardinality(T) /\ Cardinality(U) \in Nat
      BY <2>3, <3>1, FS_Subset, FS_CardinalityType
    <3> QED
      BY <1>5, <1>6, <1>7, <2>1, <2>2, <2>3, <2>4, <3>2
  <2>5. CASE b = a /\ (e \/ s.until = 0)
    <3>1. burnt'[a] = MaxFailures
      BY <1>4, <1>5, <1>6, <1>7, <1>11, <2>5 DEF Up
    <3>2. IsFiniteSet(Proc \ {p}) /\ Cardinality(Proc \ {p}) = Cardinality(Proc) - 1
      BY FS_RemoveElement, ConstantsAssumption
    <3>3. U \subseteq Proc \ {p}
      BY <1>6, <2>2, <2>5
    <3>4. Cardinality(U) <= Cardinality(Proc) - 1 /\ Cardinality(U) \in Nat
      BY <3>2, <3>3, FS_Subset, FS_CardinalityType
    <3> QED
      BY <1>5, <2>2, <2>5, <3>1, <3>4
  <2>6. CASE b = a /\ ~e /\ s.until # 0
    <3>1. r.until = s.until /\ at < s.until
      BY <1>4, <1>5, <1>11, <2>6
    <3>2. p \in T
      BY <1>11, <2>2, <2>6, <3>1 DEF Threat, Threatens
    <3>3. U \subseteq T \ {p}
      BY <1>6, <1>11, <2>2, <2>6, <3>1
    <3>4. IsFiniteSet(T \ {p}) /\ Cardinality(T \ {p}) = Cardinality(T) - 1
      BY <2>3, <3>2, FS_RemoveElement
    <3>5. Cardinality(U) <= Cardinality(T) - 1 /\ Cardinality(U) \in Nat
      BY <3>3, <3>4, FS_Subset, FS_CardinalityType
    <3>6. burnt'[a] <= burnt[a] + 1 /\ burnt'[a] \in Nat
      BY <1>5, <1>7, <2>3, <2>6 DEF Up
    <3> QED
      BY <1>5, <1>11, <2>1, <2>2, <2>3, <2>6, <3>5, <3>6
  <2> QED
    BY <2>4, <2>5, <2>6
<1> QED
  BY <1>9, <1>10, <1>12, <1>13, <1>14, <1>15 DEF Inv

LEMMA RecordFailureAtomicallyInv == ASSUME Inv, NEW p \in Proc, RecordFailureAtomically(p) PROVE Inv'
<1>1. PICK c \in Frame : c = call[p] /\ c.pc = "record" /\ FrameOK(c)
  BY DEF RecordFailureAtomically, Inv, TypeInv, TypeOK
<1>2. c.acct \in Account /\ c.at \in Nat /\ c.at <= now
  BY <1>1 DEF FrameOK, Frame
<1>3. PICK s \in Snapshot : s = row[c.acct] /\ s.until <= now + Window
  BY <1>2 DEF Inv, TypeInv, TypeOK, VictimRecovers
<1>4. call' = [call EXCEPT ![p] = Idle] /\ UNCHANGED <<kind, now>>
  BY DEF RecordFailureAtomically, Return
<1>5. CASE Failed /\ UNCHANGED history
  BY <1>4, <1>5, EndsInv DEF Failed
<1>6. CASE Write(c.acct, Recorded(s, c.at), LockExpired(s, c.at))
  BY <1>1, <1>2, <1>3, <1>4, <1>6, WriteInv
<1> QED
  BY <1>1, <1>3, <1>5, <1>6 DEF RecordFailureAtomically

LEMMA SaveInv == ASSUME Inv, NEW p \in Proc, Save(p) PROVE Inv'
<1>1. PICK c \in Frame : c = call[p] /\ c.pc = "save" /\ FrameOK(c)
  BY DEF Save, Inv, TypeInv, TypeOK
<1>2. c.acct \in Account /\ c.at \in Nat /\ c.at <= now /\ c.snap \in Snapshot /\ c.snap.until <= now + Window /\ kind = "plain"
  BY <1>1 DEF FrameOK, Frame
<1>3. call' = [call EXCEPT ![p] = Idle] /\ UNCHANGED <<kind, now>>
  BY DEF Save, Return
<1>4. CASE Failed /\ UNCHANGED history
  BY <1>3, <1>4, EndsInv DEF Failed
<1>5. CASE Write(c.acct, Recorded(c.snap, c.at), LockExpired(c.snap, c.at))
  BY <1>2, <1>3, <1>5, WriteInv
<1> QED
  BY <1>1, <1>4, <1>5 DEF Save

LEMMA ClearInv == ASSUME Inv, NEW p \in Proc, Clear(p) PROVE Inv'
<1>1. PICK a : a = call[p].acct
  OBVIOUS
<1>2. a \in Account /\ call' = [call EXCEPT ![p] = Idle] /\ UNCHANGED <<kind, now>>
  BY <1>1 DEF Clear, Return, Inv, TypeInv, FrameOK
<1>3. CASE Failed /\ UNCHANGED history
  BY <1>2, <1>3, EndsInv DEF Failed
<1>4. CASE /\ Done \/ Lost
           /\ row' = [row EXCEPT ![a] = Fresh] /\ burnt' = [burnt EXCEPT ![a] = 0]
           /\ promise' = [promise EXCEPT ![a] = 0] /\ told' = [told EXCEPT ![a] = 0]
           /\ UNCHANGED missed
  <2>1. Fresh \in Snapshot /\ Fresh.count = 0 /\ Fresh.until = 0
    BY DEF Fresh, Snapshot
  <2>2. /\ call' \in [Proc -> Frame] /\ (\A q \in Proc : FrameOK(call[q])')
        /\ row' \in [Account -> Snapshot] /\ row'[a] = Fresh
        /\ \A b \in Account \ {a} : row'[b] = row[b] /\ Threat(b)' \subseteq Threat(b)
    BY <1>2, <1>4, <2>1, OtherAccounts
  <2>3. faults' \in 0..MaxFaults /\ faults' >= faults /\ faults \in Nat
    BY <1>4, ConstantsAssumption DEF Done, Lost, Inv, TypeInv, TypeOK
  <2>4. /\ burnt' \in [Account -> Nat] /\ promise' \in [Account -> Nat] /\ told' \in [Account -> Nat]
        /\ burnt'[a] = 0 /\ promise'[a] = 0 /\ told'[a] = 0
        /\ \A b \in Account \ {a} : burnt'[b] = burnt[b] /\ promise'[b] = promise[b] /\ told'[b] = told[b]
    BY <1>2, <1>4 DEF Inv, TypeInv, TypeOK
  <2>5. now \in Nat /\ MaxFailures \in Nat \ {0} /\ Window \in Nat
    BY ConstantsAssumption DEF Inv, TypeInv, TypeOK
  <2>6. TypeInv'
    BY <1>2, <1>4, <2>2, <2>3, <2>4 DEF Inv, TypeInv, TypeOK
  <2>7. VictimRecovers'
    BY <1>2, <2>1, <2>2, <2>5 DEF Inv, VictimRecovers
  <2>8. LockHoldsExact'
    BY <1>2, <2>1, <2>2, <2>4, <2>5 DEF Inv, LockHoldsExact, LockHolds
  <2>9. CountOK'
    BY <1>2, <2>1, <2>2, <2>4, <2>5 DEF Inv, CountOK
  <2>10. ToldOK'
    BY <1>2, <1>4, <2>1, <2>2, <2>4, <2>5 DEF Inv, ToldOK
  <2>11. GuessOK'
    <3> SUFFICES ASSUME kind = "exact", NEW b \in Account, row'[b].until # 0
                 PROVE  burnt'[b] + Cardinality(Threat(b)') <= MaxFailures + Cardinality(Proc) - 1 + faults'
      BY <1>2 DEF GuessOK
    <3>1. b # a
      BY <2>1, <2>2
    <3>2. burnt[b] + Cardinality(Threat(b)) <= MaxFailures + Cardinality(Proc) - 1 + faults
      BY <2>2, <3>1 DEF Inv, GuessOK
    <3>3. PICK T, U : T = Threat(b) /\ U = Threat(b)'
      OBVIOUS
    <3>4. IsFiniteSet(T) /\ Cardinality(T) \in Nat /\ burnt[b] \in Nat /\ Cardinality(Proc) \in Nat
      BY <3>3, ThreatCount, CapBounds DEF Inv, TypeInv, TypeOK
    <3>5. U \subseteq T
      BY <2>2, <3>1, <3>3
    <3>6. Cardinality(U) <= Cardinality(T) /\ Cardinality(U) \in Nat
      BY <3>4, <3>5, FS_Subset, FS_CardinalityType
    <3> QED
      BY <2>3, <2>4, <2>5, <3>1, <3>2, <3>3, <3>4, <3>6
  <2> QED
    BY <2>6, <2>7, <2>8, <2>9, <2>10, <2>11 DEF Inv
<1> QED
  BY <1>1, <1>3, <1>4 DEF Clear, Deleted

(* An attempt waiting at a lock threatens it less and less as time passes. *)
LEMMA TickInv == ASSUME Inv, Tick PROVE Inv'
<1>1. now' = now + 1 /\ UNCHANGED <<kind, row, call, faults, burnt, promise, told, missed>> /\ now \in Nat
  BY DEF Tick, history, Inv, TypeInv, TypeOK
<1>2. TypeInv'
  <2>1. \A p \in Proc : call[p] \in Frame /\ FrameOK(call[p])
    BY DEF Inv, TypeInv, TypeOK
  <2>2. \A c \in Frame : FrameOK(c) => FrameOK(c)'
    BY <1>1, ConstantsAssumption DEF FrameOK, Frame, Snapshot
  <2>3. \A p \in Proc : FrameOK(call[p])'
    BY <1>1, <2>1, <2>2 DEF FrameOK
  <2> QED
    BY <1>1, <2>3 DEF Inv, TypeInv, TypeOK
<1>3. VictimRecovers'
  <2>1. \A a \in Account : row[a].until \in Nat
    BY DEF Inv, TypeInv, TypeOK, Snapshot
  <2> QED
    BY <1>1, <2>1, ConstantsAssumption DEF Inv, VictimRecovers
<1>4. LockHoldsExact'
  <2>1. \A a \in Account : promise[a] \in Nat
    BY DEF Inv, TypeInv, TypeOK
  <2> QED
    BY <1>1, <2>1 DEF Inv, LockHoldsExact, LockHolds
<1>5. CountOK' /\ ToldOK'
  BY <1>1 DEF Inv, CountOK, ToldOK
<1>6. GuessOK'
  <2> SUFFICES ASSUME kind = "exact", NEW a \in Account, row[a].until # 0
               PROVE  burnt[a] + Cardinality(Threat(a)') <= MaxFailures + Cardinality(Proc) - 1 + faults
    BY <1>1 DEF GuessOK
  <2>1. burnt[a] + Cardinality(Threat(a)) <= MaxFailures + Cardinality(Proc) - 1 + faults
    BY DEF Inv, GuessOK
  <2>2. row[a].until \in Nat
    BY DEF Inv, TypeInv, TypeOK, Snapshot
  <2>3. Threat(a)' \subseteq Threat(a)
    BY <1>1, <2>2 DEF Threat, Threatens
  <2>4. Cardinality(Threat(a)') \in Nat /\ Cardinality(Threat(a)') <= Cardinality(Threat(a)) /\ Cardinality(Threat(a)) \in Nat
    BY <2>3, ThreatCount
  <2> QED
    BY <2>1, <2>4, CapBounds, ConstantsAssumption DEF Inv, TypeInv, TypeOK
<1> QED
  BY <1>2, <1>3, <1>4, <1>5, <1>6 DEF Inv

LEMMA InvNext == Inv /\ [Next]_vars => Inv'
<1> SUFFICES ASSUME Inv, [Next]_vars PROVE Inv'
  OBVIOUS
<1>1. CASE UNCHANGED vars
  BY <1>1 DEF vars, history, Inv, TypeInv, TypeOK, FrameOK, VictimRecovers, LockHoldsExact, LockHolds,
              CountOK, ToldOK, GuessOK, Threat, Threatens
<1>2. CASE Tick
  BY <1>2, TickInv
<1>3. ASSUME NEW p \in Proc, \E a \in Account : GuardGet(p, a) PROVE Inv'
  BY <1>3, GuardGetInv
<1>4. ASSUME NEW p \in Proc, Crash(p) PROVE Inv'
  BY <1>4, EndsInv DEF Crash, Return
<1> QED
  BY <1>1, <1>2, <1>3, <1>4, GuardCheckInv, VerifyInv, ReadClockInv, RecordFailureAtomicallyInv,
     GetInv, DecideInv, SaveInv, ClearInv DEF Next

LEMMA Invariance == Spec => []Inv
  BY InvInit, InvNext, PTL DEF Spec

-----------------------------------------------------------------------------
(* The theorems.                                                           *)

(* A row is a count and an instant, and is never saved with count 0; a     *)
(* call names an account; no more calls fail than may.                     *)
THEOREM TypeCorrect == Spec => []TypeOK
<1>1. Inv => TypeOK
  BY DEF Inv, TypeInv
<1> QED
  BY <1>1, Invariance, PTL

(* RecordFailure never extends a lock, so that it never reaches further    *)
(* than one window from now, in no store; and over a store that records a  *)
(* failure in one step and compares instants, only Clear lifts a lock      *)
(* before its end.                                                         *)
THEOREM LocksLastTheirWindow == Spec => []LockLastsItsWindow
<1>1. Inv => LockLastsItsWindow
  BY DEF Inv, LockLastsItsWindow
<1> QED
  BY <1>1, Invariance, PTL

(* Over such a store the account is locked exactly when maxFailures        *)
(* failures were recorded since it started afresh, and exactly one caller  *)
(* is told that it locked, if its answer was not lost.                     *)
THEOREM LocksEngageOnce == Spec => []LocksOnceAtThreshold
<1>1. Inv => LocksOnceAtThreshold
  <2> SUFFICES ASSUME Inv, kind = "exact", NEW a \in Account
               PROVE  /\ row[a].until # 0 <=> burnt[a] >= MaxFailures
                      /\ told[a] <= 1
                      /\ row[a].until # 0 => told[a] = 1 \/ a \in missed
    BY DEF LocksOnceAtThreshold, LocksAtThreshold, AnnouncedOnce
  <2>1. /\ row[a].until # 0 <=> row[a].count >= MaxFailures
        /\ burnt[a] = row[a].count \/ (burnt[a] >= Cap /\ row[a].count >= Cap)
    BY DEF Inv, CountOK
  <2>2. row[a].count \in Nat /\ burnt[a] \in Nat
    BY DEF Inv, TypeInv, TypeOK, Snapshot
  <2>3. Cap >= MaxFailures /\ Cap \in Nat /\ MaxFailures \in Nat
    BY CapBounds, ConstantsAssumption
  <2> QED
    BY <2>1, <2>2, <2>3 DEF Inv, ToldOK
<1> QED
  BY <1>1, Invariance, PTL

(* Guard is checked before the password and RecordFailure called after it, *)
(* so that guesses overlap: beyond the threshold there is at most one for  *)
(* each further caller, and one for each call of Guard that failed and was *)
(* ignored.                                                                *)
THEOREM GuessesAreBounded == Spec => []GuessesBounded
<1>1. Inv => GuessesBounded
  <2> SUFFICES ASSUME Inv, kind = "exact", NEW a \in Account
               PROVE  burnt[a] <= MaxFailures + Cardinality(Proc) - 1 + faults
    BY DEF GuessesBounded
  <2>1. /\ row[a].until # 0 <=> row[a].count >= MaxFailures
        /\ burnt[a] = row[a].count \/ (burnt[a] >= Cap /\ row[a].count >= Cap)
        /\ row[a].until # 0 => burnt[a] + Cardinality(Threat(a)) <= MaxFailures + Cardinality(Proc) - 1 + faults
    BY DEF Inv, CountOK, GuessOK
  <2>2. row[a].count \in Nat /\ burnt[a] \in Nat /\ faults \in Nat /\ Cardinality(Threat(a)) \in Nat
    BY ThreatCount DEF Inv, TypeInv, TypeOK, Snapshot
  <2>3. Cap >= MaxFailures /\ Cap \in Nat /\ MaxFailures \in Nat /\ Cardinality(Proc) \in Nat
    BY CapBounds, ConstantsAssumption
  <2> QED
    BY <2>1, <2>2, <2>3
<1> QED
  BY <1>1, Invariance, PTL
=============================================================================
