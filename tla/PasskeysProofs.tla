--------------------------- MODULE PasskeysProofs ---------------------------
(***************************************************************************)
(* What Passkeys guarantees for every number of goroutines, credentials    *)
(* and challenges, every ceremony timeout and any number of failures.      *)
(***************************************************************************)
EXTENDS Passkeys, TLAPS

-----------------------------------------------------------------------------
(* The inductive invariant.                                                *)

(* A call works on an answer whose ceremony it has used up.                *)
FrameOK(f) ==
  f.pc # "idle" => f.answer \in answers /\ f.answer.challenge \in used

TypeInv ==
  /\ TypeOK
  /\ signCount \in [Cred -> Nat \cup {-1}]
  /\ \A p \in Proc : FrameOK(call[p])

(* The credentials that were added, whether or not they were removed since.*)
known == registered \cup deleted

(* An authenticator makes a credential once, and only once is it offered   *)
(* to the table.                                                           *)
MadeOnce ==
  /\ \A c \in Cred : c \in known \/ clone[c] # -1 => counter[c] # -1
  /\ \A a \in answers : counter[a.cred] # -1
  /\ \A a, b \in answers :
       a.challenge \in Registration /\ b.challenge \in Registration /\ a.cred = b.cred => a = b

Adds(p) == call[p].pc = "add"

AddedOnce ==
  /\ \A a \in answers : a.challenge \in Registration /\ a.cred \in known => a.challenge \in used
  /\ \A p \in Proc : Adds(p) => /\ call[p].answer.challenge \in Registration
                                /\ call[p].answer.cred \notin known
  /\ \A p, q \in Proc : Adds(p) /\ Adds(q) /\ call[p].answer.cred = call[q].answer.cred => p = q

(* n is the count of a login after one with count m, or both are 0.        *)
Follows(n, m) == m < n \/ (m = 0 /\ n = 0)

(* Logins with credential c that never overlapped.                         *)
LogsInWith(p, c) == call[p].pc \in {"validate", "update"} /\ call[p].answer.cred = c

LoginsOK ==
  \A c \in Cred :
    /\ accepted[c] # -1 => c \in known
    /\ \A p \in Proc : LogsInWith(p, c) /\ (call[p].pc = "validate" => call[p].row # -1) => c \in known
    /\ c \notin overlapped =>
         /\ c \in registered => accepted[c] <= signCount[c]
         /\ \A p, q \in Proc : LogsInWith(p, c) /\ LogsInWith(q, c) => p = q
         /\ \A p \in Proc : LogsInWith(p, c) =>
              IF call[p].pc = "validate" THEN call[p].row # -1 => accepted[c] <= call[p].row
              ELSE Follows(call[p].answer.count, accepted[c])

(* An authenticator that was never copied: its counts ascend, the table    *)
(* holds one that was used, and a login that is not its newest answer's    *)
(* may meet a later count only.                                            *)
GenuineOK ==
  \A c \in Cred : clone[c] = -1 =>
    /\ \A a \in answers : a.cred = c => a.count <= counter[c]
    /\ \A a, b \in answers : a.cred = c /\ b.cred = c /\ a.count = b.count /\ a.count # 0 => a = b
    /\ c \in registered =>
         \E a \in answers : a.cred = c /\ a.count = signCount[c] /\ a.challenge \in used
    /\ \A p \in Proc : call[p].pc = "validate" /\ call[p].answer.cred = c =>
         \/ call[p].row = -1 \/ Follows(call[p].answer.count, call[p].row)
         \/ call[p].answer.count < counter[c]

Inv == TypeInv /\ MadeOnce /\ AddedOnce /\ DeletedStaysOut /\ LoginsOK /\ GenuineOK

LEMMA InvInit == Init => Inv
<1> SUFFICES ASSUME Init PROVE Inv
  OBVIOUS
<1>1. registered = {} /\ known = {} /\ answers = {} /\ deleted = {}
  BY DEF Init, registered, known
<1>2. \A p \in Proc : call[p].pc = "idle" /\ call[p] \in Frame
  BY DEF Init, Idle, Frame
<1>3. TypeInv
  BY <1>1, <1>2, ConstantsAssumption DEF Init, TypeInv, TypeOK, FrameOK
<1>4. MadeOnce /\ AddedOnce /\ DeletedStaysOut
  BY <1>1, <1>2 DEF Init, MadeOnce, AddedOnce, DeletedStaysOut, Adds
<1>5. LoginsOK /\ GenuineOK
  BY <1>1, <1>2 DEF Init, LoginsOK, LogsInWith, GenuineOK
<1> QED
  BY <1>3, <1>4, <1>5 DEF Inv

-----------------------------------------------------------------------------
(* Steps outside the calls.                                                *)

(* A ceremony begins, or time passes.                                      *)
LEMMA NothingFinishesInv ==
  ASSUME Inv, now' \in Nat, ceremony' \in [Challenge -> SessionData \cup {None}],
         UNCHANGED <<signCount, used, devices, call, faults, history>>
  PROVE  Inv'
<1>1. UNCHANGED <<signCount, used, counter, clone, answers, call, faults, accepted, overlapped, deleted>>
  BY DEF devices, history
<1>2. registered' = registered /\ known' = known
  BY <1>1 DEF registered, known
<1>3. TypeInv'
  BY <1>1, <1>2 DEF Inv, TypeInv, TypeOK, FrameOK
<1>4. MadeOnce' /\ AddedOnce' /\ DeletedStaysOut' /\ LoginsOK' /\ GenuineOK'
  BY <1>1, <1>2 DEF Inv, MadeOnce, AddedOnce, DeletedStaysOut, LoginsOK, GenuineOK, Adds, LogsInWith
<1> QED
  BY <1>3, <1>4 DEF Inv

LEMMA SealInv ==
  ASSUME Inv, NEW h \in Challenge, NEW allowed \in SUBSET Cred, Seal(h, allowed) PROVE Inv'
<1>1. now + Timeout \in Nat /\ now \in Nat
  BY ConstantsAssumption DEF Inv, TypeInv, TypeOK
<1>2. [allowed |-> allowed, expires |-> now + Timeout] \in SessionData
  BY <1>1 DEF SessionData
<1>3. ceremony' \in [Challenge -> SessionData \cup {None}]
  BY <1>2 DEF Seal, Inv, TypeInv, TypeOK
<1> QED
  BY <1>1, <1>3, NothingFinishesInv DEF Seal

(* Credential c answers a challenge with x.                                *)
LEMMA AnswerInv ==
  ASSUME Inv, NEW c \in Cred, NEW x \in Answer, x.cred = c, answers' = answers \cup {x},
         counter' \in [Cred -> Nat \cup {-1}], clone' \in [Cred -> Nat \cup {-1}],
         \A b \in Cred \ {c} : counter'[b] = counter[b] /\ clone'[b] = clone[b],
         counter'[c] # -1, counter'[c] >= counter[c], clone[c] = -1 <=> clone'[c] = -1,
         x.challenge \in Registration => counter[c] = -1,
         clone'[c] = -1 => x.count = counter'[c] /\ (x.count = 0 \/ x.count > counter[c]),
         UNCHANGED <<now, signCount, ceremonies, call, faults, history>>
  PROVE  Inv'
<1>1. UNCHANGED <<now, signCount, ceremony, used, call, faults, accepted, overlapped, deleted>>
  BY DEF ceremonies, history
<1>2. registered' = registered /\ known' = known
  BY <1>1 DEF registered, known
<1>3. \A a \in answers : a \in Answer /\ a.cred \in Cred /\ a.count \in Nat
  BY DEF Inv, TypeInv, TypeOK, Answer
<1>4. TypeInv'
  BY <1>1, <1>2 DEF Inv, TypeInv, TypeOK, FrameOK
<1>5. MadeOnce'
  <2>1. \A a \in answers : counter[a.cred] # -1
    BY DEF Inv, MadeOnce
  <2>2. \A a \in answers' : counter'[a.cred] # -1
    BY <1>3, <2>1
  <2>3. \A b \in Cred : b \in known \/ clone'[b] # -1 => counter'[b] # -1
    BY DEF Inv, MadeOnce
  <2>4. x.challenge \in Registration => \A a \in answers : a.cred # c
    BY <2>1
  <2>5. \A a, b \in answers' :
          a.challenge \in Registration /\ b.challenge \in Registration /\ a.cred = b.cred => a = b
    BY <2>4 DEF Inv, MadeOnce
  <2> QED
    BY <1>2, <2>2, <2>3, <2>5 DEF MadeOnce
<1>6. AddedOnce'
  <2>1. x.challenge \in Registration => c \notin known
    BY DEF Inv, MadeOnce
  <2> QED
    BY <1>1, <1>2, <2>1 DEF Inv, AddedOnce, Adds
<1>7. DeletedStaysOut' /\ LoginsOK'
  BY <1>1, <1>2 DEF Inv, DeletedStaysOut, LoginsOK, LogsInWith
<1>8. GenuineOK'
  <2> SUFFICES ASSUME NEW b \in Cred, clone'[b] = -1
               PROVE  /\ \A a \in answers' : a.cred = b => a.count <= counter'[b]
                      /\ \A a, d \in answers' : a.cred = b /\ d.cred = b /\ a.count = d.count /\ a.count # 0 => a = d
                      /\ b \in registered =>
                           \E a \in answers' : a.cred = b /\ a.count = signCount[b] /\ a.challenge \in used
                      /\ \A p \in Proc : call[p].pc = "validate" /\ call[p].answer.cred = b =>
                           \/ call[p].row = -1 \/ Follows(call[p].answer.count, call[p].row)
                           \/ call[p].answer.count < counter'[b]
    BY <1>1, <1>2 DEF GenuineOK
  <2>1. /\ \A a \in answers : a.cred = b => a.count <= counter[b]
        /\ \A a, d \in answers : a.cred = b /\ d.cred = b /\ a.count = d.count /\ a.count # 0 => a = d
        /\ b \in registered =>
             \E a \in answers : a.cred = b /\ a.count = signCount[b] /\ a.challenge \in used
        /\ \A p \in Proc : call[p].pc = "validate" /\ call[p].answer.cred = b =>
             \/ call[p].row = -1 \/ Follows(call[p].answer.count, call[p].row)
             \/ call[p].answer.count < counter[b]
    BY DEF Inv, GenuineOK
  <2>2. counter'[b] >= counter[b] /\ counter[b] \in Int /\ counter'[b] \in Int
    BY DEF Inv, TypeInv, TypeOK
  <2>3. \A a \in answers' : a.cred = b => a.count <= counter'[b]
    BY <1>3, <2>1, <2>2 DEF Answer
  <2>4. b = c => \A a \in answers : a.cred = b /\ a.count = x.count => x.count = 0
    BY <1>3, <2>1, <2>2
  <2>5. \A a, d \in answers' : a.cred = b /\ d.cred = b /\ a.count = d.count /\ a.count # 0 => a = d
    BY <2>1, <2>4
  <2>6. ASSUME NEW p \in Proc, call[p].pc = "validate", call[p].answer.cred = b
        PROVE  \/ call[p].row = -1 \/ Follows(call[p].answer.count, call[p].row)
               \/ call[p].answer.count < counter'[b]
    <3>1. call[p].answer.count \in Nat
      BY <1>3, <2>6 DEF Inv, TypeInv, FrameOK
    <3> QED
      BY <2>1, <2>2, <2>6, <3>1
  <2> QED
    BY <2>1, <2>3, <2>5, <2>6
<1> QED
  BY <1>4, <1>5, <1>6, <1>7, <1>8 DEF Inv

LEMMA CreateInv ==
  ASSUME Inv, NEW h \in Registration, NEW c \in Cred, Create(h, c) PROVE Inv'
<1> DEFINE x == [challenge |-> h, cred |-> c, count |-> 0]
<1>1. x \in Answer /\ x.cred = c /\ x.count = 0 /\ answers' = answers \cup {x}
  BY DEF Answer, Challenge, Create, Give
<1>2. counter \in [Cred -> Nat \cup {-1}] /\ clone \in [Cred -> Nat \cup {-1}]
  BY DEF Inv, TypeInv, TypeOK
<1>3. counter[c] = -1 /\ counter' = [counter EXCEPT ![c] = 0] /\ clone' = clone
  BY DEF Create
<1> HIDE DEF x
<1> QED
  BY <1>1, <1>2, <1>3, AnswerInv DEF Create

LEMMA GetInv == ASSUME Inv, NEW h \in Login, NEW c \in Cred, Get(h, c) PROVE Inv'
<1>1. counter \in [Cred -> Nat \cup {-1}] /\ clone \in [Cred -> Nat \cup {-1}]
  BY DEF Inv, TypeInv, TypeOK
<1>2. PICK n \in {counter[c], counter[c] + 1} :
        /\ n = counter[c] => n = 0
        /\ counter' = [counter EXCEPT ![c] = n]
        /\ Give(h, c, n)
  BY DEF Get
<1>3. n \in Nat /\ n >= counter[c] /\ (n = 0 \/ n > counter[c])
  BY <1>1, <1>2
<1> DEFINE x == [challenge |-> h, cred |-> c, count |-> n]
<1>4. /\ x \in Answer /\ x.cred = c /\ x.count = n /\ x.challenge \notin Registration
      /\ answers' = answers \cup {x}
  BY <1>2, <1>3, ConstantsAssumption DEF Answer, Challenge, Give
<1> HIDE DEF x
<1>5. /\ counter' \in [Cred -> Nat \cup {-1}] /\ counter'[c] = n /\ clone' = clone
      /\ \A b \in Cred \ {c} : counter'[b] = counter[b]
  BY <1>1, <1>2, <1>3 DEF Get
<1> QED
  BY <1>1, <1>3, <1>4, <1>5, AnswerInv DEF Get

LEMMA GetByCloneInv == ASSUME Inv, NEW h \in Login, NEW c \in Cred, GetByClone(h, c) PROVE Inv'
<1>1. counter \in [Cred -> Nat \cup {-1}] /\ clone \in [Cred -> Nat \cup {-1}]
  BY DEF Inv, TypeInv, TypeOK
<1>2. PICK n \in Nat : n = clone[c] + 1 /\ n # 0
  BY <1>1, ConstantsAssumption DEF GetByClone
<1> DEFINE x == [challenge |-> h, cred |-> c, count |-> n]
<1>3. /\ x \in Answer /\ x.cred = c /\ x.challenge \notin Registration
      /\ answers' = answers \cup {x}
  BY <1>2, ConstantsAssumption DEF Answer, Challenge, GetByClone, Give
<1> HIDE DEF x
<1>4. /\ clone' \in [Cred -> Nat \cup {-1}] /\ clone'[c] = n /\ counter' = counter
      /\ \A b \in Cred \ {c} : clone'[b] = clone[b]
  BY <1>1, <1>2 DEF GetByClone
<1>5. clone[c] # -1 /\ counter[c] # -1 /\ counter[c] >= counter[c]
  BY <1>1, <1>2, ConstantsAssumption DEF GetByClone, Inv, MadeOnce
<1> QED
  BY <1>1, <1>2, <1>3, <1>4, <1>5, AnswerInv DEF GetByClone

LEMMA CloneInv == ASSUME Inv, NEW c \in Cred, Clone(c) PROVE Inv'
<1>1. /\ UNCHANGED <<now, signCount, ceremony, used, counter, answers, call, faults, accepted, overlapped, deleted>>
      /\ clone' \in [Cred -> Nat \cup {-1}] /\ clone'[c] # -1 /\ counter[c] # -1
      /\ \A b \in Cred \ {c} : clone'[b] = clone[b]
  BY DEF Clone, ceremonies, history, Inv, TypeInv, TypeOK
<1>2. registered' = registered /\ known' = known
  BY <1>1 DEF registered, known
<1>3. TypeInv'
  BY <1>1, <1>2 DEF Inv, TypeInv, TypeOK, FrameOK
<1>4. MadeOnce' /\ AddedOnce' /\ DeletedStaysOut' /\ LoginsOK'
  BY <1>1, <1>2 DEF Inv, MadeOnce, AddedOnce, DeletedStaysOut, LoginsOK, Adds, LogsInWith
<1>5. GenuineOK'
  BY <1>1, <1>2 DEF Inv, GenuineOK
<1> QED
  BY <1>3, <1>4, <1>5 DEF Inv

LEMMA DeleteInv == ASSUME Inv, NEW c \in Cred, Delete(c) PROVE Inv'
<1>1. UNCHANGED <<now, ceremony, used, counter, clone, answers, call, accepted, overlapped>>
  BY DEF Delete, ceremonies, devices
<1>2. /\ signCount' \in [Cred -> Nat \cup {-1}] /\ signCount'[c] = -1
      /\ \A b \in Cred \ {c} : signCount'[b] = signCount[b]
  BY DEF Delete, Inv, TypeInv
<1>3. registered' = registered \ {c}
  BY <1>2 DEF registered
<1>4. deleted' = deleted \cup ({c} \cap registered) /\ registered \subseteq Cred
  BY DEF Delete, registered
<1>5. known' = known
  BY <1>3, <1>4 DEF known
<1>6. faults' \in 0..MaxFaults
  BY ConstantsAssumption DEF Delete, Done, Lost, Inv, TypeInv, TypeOK
<1>7. TypeInv'
  BY <1>1, <1>2, <1>3, <1>4, <1>6 DEF Inv, TypeInv, TypeOK, FrameOK
<1>8. MadeOnce' /\ AddedOnce'
  BY <1>1, <1>5 DEF Inv, MadeOnce, AddedOnce, Adds
<1>9. DeletedStaysOut'
  BY <1>3, <1>4 DEF Inv, DeletedStaysOut
<1>10. LoginsOK' /\ GenuineOK'
  BY <1>1, <1>2, <1>3, <1>5 DEF Inv, LoginsOK, LogsInWith, GenuineOK
<1> QED
  BY <1>7, <1>8, <1>9, <1>10 DEF Inv
-----------------------------------------------------------------------------
(* Steps of the calls.                                                     *)

(* What the others' calls, and p's if it was idle, are during a step of p. *)
LEMMA FrameChange ==
  ASSUME Inv, NEW p \in Proc, NEW fr \in Frame, call' = [call EXCEPT ![p] = fr]
  PROVE  /\ call' \in [Proc -> Frame] /\ call'[p] = fr
         /\ \A q \in Proc \ {p} : call'[q] = call[q]
         /\ Idle \in Frame /\ Idle.pc = "idle"
BY DEF Inv, TypeInv, TypeOK, Idle, Frame

(* Steps of p that leave the table alone: its frame becomes fr.            *)
LEMMA QuietInv ==
  ASSUME Inv, NEW p \in Proc, NEW fr \in Frame, call' = [call EXCEPT ![p] = fr],
         UNCHANGED <<now, signCount, ceremonies, devices, history>>, faults' \in 0..MaxFaults,
         \/ fr.pc = "idle"
         \/ /\ fr.pc = "update" /\ fr.answer = call[p].answer
            /\ call[p].pc = "validate" /\ call[p].row # -1
            /\ Follows(call[p].answer.count, call[p].row)
  PROVE  Inv'
<1>1. UNCHANGED <<signCount, ceremony, used, counter, clone, answers, accepted, overlapped, deleted>>
  BY DEF ceremonies, devices, history
<1>2. registered' = registered /\ known' = known
  BY <1>1 DEF registered, known
<1>3. call' \in [Proc -> Frame] /\ call'[p] = fr /\ \A q \in Proc \ {p} : call'[q] = call[q]
  BY FrameChange
<1>4. TypeInv'
  BY <1>1, <1>2, <1>3 DEF Inv, TypeInv, TypeOK, FrameOK
<1>5. MadeOnce' /\ DeletedStaysOut'
  BY <1>1, <1>2 DEF Inv, MadeOnce, DeletedStaysOut
<1>6. AddedOnce'
  <2>1. \A q \in Proc : Adds(q)' => Adds(q) /\ call'[q] = call[q]
    BY <1>3 DEF Adds
  <2> QED
    BY <1>1, <1>2, <2>1 DEF Inv, AddedOnce
<1>7. \A q \in Proc, c \in Cred : LogsInWith(q, c)' => LogsInWith(q, c) /\ (q # p => call'[q] = call[q])
  BY <1>3 DEF LogsInWith
<1>8. LoginsOK'
  <2> SUFFICES ASSUME NEW c \in Cred
               PROVE  /\ accepted[c] # -1 => c \in known
                      /\ \A q \in Proc : LogsInWith(q, c)' /\ (call'[q].pc = "validate" => call'[q].row # -1) => c \in known
                      /\ c \notin overlapped =>
                           /\ c \in registered => accepted[c] <= signCount[c]
                           /\ \A q, r \in Proc : LogsInWith(q, c)' /\ LogsInWith(r, c)' => q = r
                           /\ \A q \in Proc : LogsInWith(q, c)' =>
                                IF call'[q].pc = "validate" THEN call'[q].row # -1 => accepted[c] <= call'[q].row
                                ELSE Follows(call'[q].answer.count, accepted[c])
    BY <1>1, <1>2 DEF LoginsOK
  <2>1. /\ accepted[c] # -1 => c \in known
        /\ \A q \in Proc : LogsInWith(q, c) /\ (call[q].pc = "validate" => call[q].row # -1) => c \in known
        /\ c \notin overlapped =>
             /\ c \in registered => accepted[c] <= signCount[c]
             /\ \A q, r \in Proc : LogsInWith(q, c) /\ LogsInWith(r, c) => q = r
             /\ \A q \in Proc : LogsInWith(q, c) =>
                  IF call[q].pc = "validate" THEN call[q].row # -1 => accepted[c] <= call[q].row
                  ELSE Follows(call[q].answer.count, accepted[c])
    BY DEF Inv, LoginsOK
  <2>2. \A q \in Proc : LogsInWith(q, c)' /\ (call'[q].pc = "validate" => call'[q].row # -1) => c \in known
    <3>1. LogsInWith(p, c)' => LogsInWith(p, c) /\ call[p].row # -1
      BY <1>3, <1>7 DEF LogsInWith
    <3> QED
      BY <1>7, <2>1, <3>1
  <2>3. ASSUME c \notin overlapped, LogsInWith(p, c)' PROVE Follows(fr.answer.count, accepted[c])
    <3>1. fr.pc = "update" /\ call[p].pc = "validate" /\ LogsInWith(p, c)
      BY <1>3, <1>7, <2>3 DEF LogsInWith
    <3>2. accepted[c] <= call[p].row /\ Follows(fr.answer.count, call[p].row)
      BY <2>1, <2>3, <3>1
    <3>3. call[p].answer \in Answer
      BY <3>1 DEF Inv, TypeInv, TypeOK, FrameOK
    <3>4. accepted[c] \in Nat \cup {-1} /\ call[p].row \in Nat \cup {-1} /\ fr.answer.count \in Nat
      BY <3>1, <3>3 DEF Inv, TypeInv, TypeOK, Frame, Answer
    <3> QED
      BY <3>1, <3>2, <3>4 DEF Follows
  <2>4. c \notin overlapped =>
          \A q \in Proc : LogsInWith(q, c)' =>
            IF call'[q].pc = "validate" THEN call'[q].row # -1 => accepted[c] <= call'[q].row
            ELSE Follows(call'[q].answer.count, accepted[c])
    BY <1>3, <1>7, <2>1, <2>3
  <2> QED
    BY <1>7, <2>1, <2>2, <2>4
<1>9. GenuineOK'
  <2>1. \A q \in Proc : call'[q].pc = "validate" => call'[q] = call[q]
    BY <1>3
  <2> QED
    BY <1>1, <1>2, <2>1 DEF Inv, GenuineOK
<1> QED
  BY <1>4, <1>5, <1>6, <1>8, <1>9 DEF Inv

LEMMA ReturnInv ==
  ASSUME Inv, NEW p \in Proc, Return(p), UNCHANGED <<now, signCount, ceremonies, devices, history>>,
         Done \/ Lost
  PROVE  Inv'
<1>1. Idle \in Frame /\ Idle.pc = "idle"
  BY DEF Idle, Frame
<1>2. faults' \in 0..MaxFaults
  BY ConstantsAssumption DEF Done, Lost, Inv, TypeInv, TypeOK
<1> QED
  BY <1>1, <1>2, QuietInv DEF Return

LEMMA ValidateLoginInv == ASSUME Inv, NEW p \in Proc, ValidateLogin(p) PROVE Inv'
<1>1. PICK f \in Frame : f = call[p] /\ f.pc = "validate"
  BY DEF ValidateLogin, Inv, TypeInv, TypeOK
<1>2. CASE Refuses(f) \/ CloneWarning(f.answer.count, f.row)
  BY <1>1, <1>2, ReturnInv DEF ValidateLogin, Done
<1>3. CASE ~(Refuses(f) \/ CloneWarning(f.answer.count, f.row))
  <2> DEFINE fr == [f EXCEPT !.pc = "update", !.row = -1]
  <2>1. fr \in Frame /\ fr.pc = "update" /\ fr.answer = f.answer
    BY DEF Frame
  <2>2. call' = [call EXCEPT ![p] = fr]
    BY <1>1, <1>3 DEF ValidateLogin, Inv, TypeInv, TypeOK
  <2>3. f.answer \in Answer
    BY <1>1 DEF Inv, TypeInv, TypeOK, FrameOK
  <2>4. f.row # -1 /\ f.row \in Nat \cup {-1} /\ f.answer.count \in Nat
    BY <1>3, <2>3 DEF Refuses, Frame, Answer
  <2>5. Follows(f.answer.count, f.row)
    BY <1>3, <2>4 DEF CloneWarning, Follows
  <2>6. faults' \in 0..MaxFaults
    BY DEF ValidateLogin, Inv, TypeInv, TypeOK
  <2> HIDE DEF fr
  <2> QED
    BY <1>1, <2>1, <2>2, <2>4, <2>5, <2>6, QuietInv DEF ValidateLogin
<1> QED
  BY <1>2, <1>3

(* An answer is handed in, and its ceremony used up.                       *)
LEMMA OpenedMeaning ==
  ASSUME Inv, NEW a \in answers, openState(a.challenge)
  PROVE  /\ a \in Answer /\ a.cred \in Cred /\ a.count \in Nat /\ a.challenge \in Challenge
         /\ a.challenge \notin used /\ used' = used \cup {a.challenge} /\ ceremony' = ceremony
BY DEF openState, Inv, TypeInv, TypeOK, Answer

LEMMA FinishRegistrationInv ==
  ASSUME Inv, NEW p \in Proc, NEW a \in answers, FinishRegistration(p, a) PROVE Inv'
<1>1. UNCHANGED <<now, signCount, counter, clone, answers, faults, accepted, overlapped, deleted>>
  BY DEF FinishRegistration, devices, history
<1>2. /\ a \in Answer /\ a.cred \in Cred /\ a.count \in Nat /\ a.challenge \in Challenge
      /\ a.challenge \notin used /\ used' = used \cup {a.challenge} /\ ceremony' = ceremony
  BY OpenedMeaning DEF FinishRegistration
<1>3. registered' = registered /\ known' = known
  BY <1>1 DEF registered, known
<1>4. call[p].pc = "idle" /\ a.challenge \in Registration
  BY DEF FinishRegistration, Begin
<1> DEFINE fr == [pc |-> "add", answer |-> a, row |-> -1]
<1>5. fr \in Frame /\ fr.pc = "add" /\ fr.answer = a
  BY <1>2 DEF Frame
<1> HIDE DEF fr
<1>6. call' = call \/ call' = [call EXCEPT ![p] = fr]
  BY DEF FinishRegistration, Begin, fr
<1>7. /\ call' \in [Proc -> Frame] /\ call'[p] \in {call[p], fr}
      /\ \A q \in Proc \ {p} : call'[q] = call[q]
  BY <1>5, <1>6 DEF Inv, TypeInv, TypeOK
<1>8. TypeInv'
  <2>1. \A q \in Proc : FrameOK(call[q])'
    BY <1>1, <1>2, <1>4, <1>5, <1>7 DEF Inv, TypeInv, FrameOK
  <2> QED
    BY <1>1, <1>2, <1>3, <1>7, <2>1 DEF Inv, TypeInv, TypeOK
<1>9. MadeOnce' /\ DeletedStaysOut'
  BY <1>1, <1>3 DEF Inv, MadeOnce, DeletedStaysOut
<1>10. AddedOnce'
  <2>1. \A x \in answers' : x.challenge \in Registration /\ x.cred \in known' => x.challenge \in used'
    BY <1>1, <1>2, <1>3 DEF Inv, AddedOnce
  <2>2. a.cred \notin known
    BY <1>2, <1>4 DEF Inv, AddedOnce
  <2>3. \A q \in Proc : Adds(q) => call[q].answer.cred # a.cred
    <3> SUFFICES ASSUME NEW q \in Proc, Adds(q), call[q].answer.cred = a.cred PROVE FALSE
      OBVIOUS
    <3>1. call[q].answer \in answers /\ call[q].answer.challenge \in used /\ call[q].answer.challenge \in Registration
      BY DEF Adds, Inv, TypeInv, FrameOK, AddedOnce
    <3>2. call[q].answer = a
      BY <1>4, <3>1 DEF Inv, MadeOnce
    <3> QED
      BY <1>2, <3>1, <3>2
  <2>4. \A q \in Proc : Adds(q)' => IF q = p THEN call'[q].answer = a ELSE Adds(q) /\ call'[q] = call[q]
    BY <1>4, <1>5, <1>7 DEF Adds
  <2>5. \A q \in Proc : Adds(q)' => call'[q].answer.challenge \in Registration /\ call'[q].answer.cred \notin known
    BY <1>4, <2>2, <2>4 DEF Inv, AddedOnce
  <2>6. \A q, r \in Proc : Adds(q)' /\ Adds(r)' /\ call'[q].answer.cred = call'[r].answer.cred => q = r
    BY <2>3, <2>4 DEF Inv, AddedOnce
  <2> QED
    BY <1>3, <2>1, <2>5, <2>6 DEF AddedOnce
<1>11. \A q \in Proc : call'[q].pc \in {"validate", "update"} => call'[q] = call[q]
  BY <1>4, <1>5, <1>7
<1>12. LoginsOK'
  <2>1. \A q \in Proc, c \in Cred : LogsInWith(q, c)' => LogsInWith(q, c) /\ call'[q] = call[q]
    BY <1>11 DEF LogsInWith
  <2> QED
    BY <1>1, <1>3, <2>1 DEF Inv, LoginsOK
<1>13. GenuineOK'
  BY <1>1, <1>2, <1>3, <1>11 DEF Inv, GenuineOK
<1> QED
  BY <1>8, <1>9, <1>10, <1>12, <1>13 DEF Inv
LEMMA FinishLoginInv == ASSUME Inv, NEW p \in Proc, NEW a \in answers, FinishLogin(p, a) PROVE Inv'
<1>1. UNCHANGED <<now, signCount, counter, clone, answers, faults, accepted, deleted>>
  BY DEF FinishLogin, devices
<1>2. /\ a \in Answer /\ a.cred \in Cred /\ a.count \in Nat /\ a.challenge \in Challenge
      /\ a.challenge \notin used /\ used' = used \cup {a.challenge} /\ ceremony' = ceremony
  BY OpenedMeaning DEF FinishLogin
<1>3. registered' = registered /\ known' = known
  BY <1>1 DEF registered, known
<1>4. PICK c \in Cred, n \in Nat \cup {-1} : c = a.cred /\ n = signCount[c]
  BY <1>2 DEF Inv, TypeInv
<1> DEFINE fr == [pc |-> "validate", answer |-> a, row |-> n]
<1>5. fr \in Frame /\ fr.pc = "validate" /\ fr.answer = a /\ fr.row = n
  BY <1>2, <1>4 DEF Frame
<1>6. call[p].pc = "idle" /\ call' = [call EXCEPT ![p] = fr]
  BY <1>4 DEF FinishLogin, Begin
<1> HIDE DEF fr
<1>7. call' \in [Proc -> Frame] /\ call'[p] = fr /\ \A q \in Proc \ {p} : call'[q] = call[q]
  BY <1>5, <1>6, FrameChange
<1>8. overlapped' = overlapped \cup ({c} \cap underWay)
  BY <1>4 DEF FinishLogin
<1>9. \A q \in Proc, b \in Cred : LogsInWith(q, b)' <=> IF q = p THEN b = c ELSE LogsInWith(q, b)
  BY <1>4, <1>5, <1>7 DEF LogsInWith
<1>10. \A q \in Proc : LogsInWith(q, c) => c \in overlapped'
  BY <1>8 DEF LogsInWith, underWay
<1>11. TypeInv'
  <2>1. \A q \in Proc : FrameOK(call[q])'
    BY <1>1, <1>2, <1>5, <1>7 DEF Inv, TypeInv, FrameOK
  <2> QED
    BY <1>1, <1>2, <1>3, <1>7, <1>8, <2>1 DEF Inv, TypeInv, TypeOK
<1>12. MadeOnce' /\ DeletedStaysOut'
  BY <1>1, <1>3 DEF Inv, MadeOnce, DeletedStaysOut
<1>13. AddedOnce'
  <2>1. \A q \in Proc : Adds(q)' => Adds(q) /\ call'[q] = call[q]
    BY <1>5, <1>7 DEF Adds
  <2> QED
    BY <1>1, <1>2, <1>3, <2>1 DEF Inv, AddedOnce
<1>14. LoginsOK'
  <2> SUFFICES ASSUME NEW b \in Cred
               PROVE  /\ accepted[b] # -1 => b \in known
                      /\ \A q \in Proc : LogsInWith(q, b)' /\ (call'[q].pc = "validate" => call'[q].row # -1) => b \in known
                      /\ b \notin overlapped' =>
                           /\ b \in registered => accepted[b] <= signCount[b]
                           /\ \A q, r \in Proc : LogsInWith(q, b)' /\ LogsInWith(r, b)' => q = r
                           /\ \A q \in Proc : LogsInWith(q, b)' =>
                                IF call'[q].pc = "validate" THEN call'[q].row # -1 => accepted[b] <= call'[q].row
                                ELSE Follows(call'[q].answer.count, accepted[b])
    BY <1>1, <1>3 DEF LoginsOK
  <2>1. /\ accepted[b] # -1 => b \in known
        /\ \A q \in Proc : LogsInWith(q, b) /\ (call[q].pc = "validate" => call[q].row # -1) => b \in known
        /\ b \notin overlapped =>
             /\ b \in registered => accepted[b] <= signCount[b]
             /\ \A q, r \in Proc : LogsInWith(q, b) /\ LogsInWith(r, b) => q = r
             /\ \A q \in Proc : LogsInWith(q, b) =>
                  IF call[q].pc = "validate" THEN call[q].row # -1 => accepted[b] <= call[q].row
                  ELSE Follows(call[q].answer.count, accepted[b])
    BY DEF Inv, LoginsOK
  <2>2. n # -1 => c \in registered /\ c \in known
    BY <1>4 DEF registered, known
  <2>3. \A q \in Proc : LogsInWith(q, b)' /\ (call'[q].pc = "validate" => call'[q].row # -1) => b \in known
    BY <1>5, <1>7, <1>9, <2>1, <2>2
  <2>4. ASSUME b \notin overlapped', NEW q \in Proc, NEW r \in Proc, LogsInWith(q, b)', LogsInWith(r, b)' PROVE q = r
    BY <1>8, <1>9, <1>10, <2>1, <2>4
  <2>5. ASSUME b \notin overlapped', NEW q \in Proc, LogsInWith(q, b)'
        PROVE  IF call'[q].pc = "validate" THEN call'[q].row # -1 => accepted[b] <= call'[q].row
               ELSE Follows(call'[q].answer.count, accepted[b])
    <3>1. CASE q = p
      BY <1>4, <1>5, <1>7, <1>8, <1>9, <2>1, <2>2, <2>5, <3>1
    <3>2. CASE q # p
      BY <1>7, <1>8, <1>9, <2>1, <2>5, <3>2
    <3> QED
      BY <3>1, <3>2
  <2> QED
    BY <1>8, <2>1, <2>3, <2>4, <2>5
<1>15. GenuineOK'
  <2> SUFFICES ASSUME NEW b \in Cred, clone[b] = -1
               PROVE  /\ \A x \in answers : x.cred = b => x.count <= counter[b]
                      /\ \A x, y \in answers : x.cred = b /\ y.cred = b /\ x.count = y.count /\ x.count # 0 => x = y
                      /\ b \in registered =>
                           \E x \in answers : x.cred = b /\ x.count = signCount[b] /\ x.challenge \in used'
                      /\ \A q \in Proc : call'[q].pc = "validate" /\ call'[q].answer.cred = b =>
                           \/ call'[q].row = -1 \/ Follows(call'[q].answer.count, call'[q].row)
                           \/ call'[q].answer.count < counter[b]
    BY <1>1, <1>3 DEF GenuineOK
  <2>1. /\ \A x \in answers : x.cred = b => x.count <= counter[b]
        /\ \A x, y \in answers : x.cred = b /\ y.cred = b /\ x.count = y.count /\ x.count # 0 => x = y
        /\ b \in registered =>
             \E x \in answers : x.cred = b /\ x.count = signCount[b] /\ x.challenge \in used
        /\ \A q \in Proc : call[q].pc = "validate" /\ call[q].answer.cred = b =>
             \/ call[q].row = -1 \/ Follows(call[q].answer.count, call[q].row)
             \/ call[q].answer.count < counter[b]
    BY DEF Inv, GenuineOK
  <2>2. ASSUME b = c, n # -1, ~(a.count < counter[b]) PROVE Follows(a.count, n)
    <3>1. b \in registered
      BY <1>4, <2>2 DEF registered
    <3>2. PICK x \in answers : x.cred = b /\ x.count = n /\ x.challenge \in used
      BY <1>4, <2>1, <2>2, <3>1
    <3>3. n <= counter[b] /\ a.count <= counter[b] /\ counter[b] \in Int
      BY <1>4, <2>1, <2>2, <3>2 DEF Inv, TypeInv, TypeOK
    <3>4. n = a.count => n = 0
      BY <1>2, <1>4, <2>1, <2>2, <3>2
    <3> QED
      BY <1>2, <2>2, <3>3, <3>4 DEF Follows
  <2>3. \A q \in Proc : call'[q].pc = "validate" /\ call'[q].answer.cred = b =>
          \/ call'[q].row = -1 \/ Follows(call'[q].answer.count, call'[q].row)
          \/ call'[q].answer.count < counter[b]
    BY <1>4, <1>5, <1>7, <2>1, <2>2
  <2> QED
    BY <1>2, <2>1, <2>3
<1> QED
  BY <1>11, <1>12, <1>13, <1>14, <1>15 DEF Inv
(* A call ends by storing the count of its answer a.                       *)
LEMMA StoreMeaning ==
  ASSUME Inv, NEW p \in Proc, call[p].pc # "idle", NEW a, a = call[p].answer,
         signCount' = [signCount EXCEPT ![a.cred] = a.count], Return(p), UNCHANGED <<used, answers, deleted>>
  PROVE  /\ a \in answers /\ a \in Answer /\ a.cred \in Cred /\ a.count \in Nat /\ a.challenge \in used
         /\ signCount' \in [Cred -> Nat \cup {-1}] /\ signCount'[a.cred] = a.count
         /\ \A b \in Cred \ {a.cred} : signCount'[b] = signCount[b]
         /\ registered' = registered \cup {a.cred} /\ known' = known \cup {a.cred}
         /\ call' \in [Proc -> Frame] /\ call'[p].pc = "idle" /\ \A q \in Proc \ {p} : call'[q] = call[q]
         /\ \A q \in Proc : FrameOK(call[q])'
         /\ \A c \in registered' : \E x \in answers : x.cred = c /\ x.count = signCount'[c]
<1>1. a \in answers /\ a \in Answer /\ a.cred \in Cred /\ a.count \in Nat /\ a.challenge \in used
  BY DEF Inv, TypeInv, TypeOK, FrameOK, Answer
<1>2. /\ signCount' \in [Cred -> Nat \cup {-1}] /\ signCount'[a.cred] = a.count
      /\ \A b \in Cred \ {a.cred} : signCount'[b] = signCount[b]
  BY <1>1 DEF Inv, TypeInv
<1>3. registered' = registered \cup {a.cred}
  BY <1>1, <1>2 DEF registered
<1>4. known' = known \cup {a.cred}
  BY <1>3 DEF known
<1>5. Idle \in Frame /\ Idle.pc = "idle"
  BY DEF Idle, Frame
<1>6. call' \in [Proc -> Frame] /\ call'[p].pc = "idle" /\ \A q \in Proc \ {p} : call'[q] = call[q]
  BY <1>5 DEF Return, Inv, TypeInv, TypeOK
<1>7. \A q \in Proc : FrameOK(call[q])'
  BY <1>6 DEF Inv, TypeInv, FrameOK
<1>8. ASSUME NEW c \in registered' PROVE \E x \in answers : x.cred = c /\ x.count = signCount'[c]
  <2>1. CASE c = a.cred
    BY <1>1, <1>2, <2>1
  <2>2. CASE c # a.cred
    <3>1. c \in registered /\ c \in Cred
      BY <1>3, <2>2 DEF registered
    <3> QED
      BY <1>2, <2>2, <3>1 DEF Inv, TypeInv, TypeOK
  <2> QED
    BY <2>1, <2>2
<1> QED
  BY <1>1, <1>2, <1>3, <1>4, <1>6, <1>7, <1>8

LEMMA AddInv == ASSUME Inv, NEW p \in Proc, Add(p) PROVE Inv'
<1>1. PICK a : a = call[p].answer
  OBVIOUS
<1>2. UNCHANGED <<now, ceremony, used, counter, clone, answers, accepted, overlapped, deleted>> /\ Return(p)
  BY DEF Add, ceremonies, devices, history
<1>3. CASE Failed
  BY <1>3, ReturnInv DEF Add, Failed
<1>4. CASE signCount' = [signCount EXCEPT ![a.cred] = a.count] /\ (Done \/ Lost)
  <2>1. Adds(p) /\ call[p].pc # "idle"
    BY DEF Add, Adds
  <2>2. /\ a \in answers /\ a \in Answer /\ a.cred \in Cred /\ a.count \in Nat /\ a.challenge \in used
        /\ signCount' \in [Cred -> Nat \cup {-1}] /\ signCount'[a.cred] = a.count
        /\ \A b \in Cred \ {a.cred} : signCount'[b] = signCount[b]
        /\ registered' = registered \cup {a.cred} /\ known' = known \cup {a.cred}
        /\ call' \in [Proc -> Frame] /\ call'[p].pc = "idle" /\ \A q \in Proc \ {p} : call'[q] = call[q]
        /\ \A q \in Proc : FrameOK(call[q])'
        /\ \A c \in registered' : \E x \in answers : x.cred = c /\ x.count = signCount'[c]
    BY <1>1, <1>2, <1>4, <2>1, StoreMeaning
  <2>3. a.challenge \in Registration /\ a.cred \notin known
    BY <1>1, <2>1 DEF Inv, AddedOnce
  <2>4. faults' \in 0..MaxFaults
    BY <1>4, ConstantsAssumption DEF Done, Lost, Inv, TypeInv, TypeOK
  <2>5. \A q \in Proc : call'[q].pc # "idle" => q # p /\ call'[q] = call[q]
    BY <2>2
  <2>6. TypeInv'
    BY <1>2, <2>2, <2>4 DEF Inv, TypeInv, TypeOK
  <2>7. MadeOnce'
    BY <1>2, <2>2 DEF Inv, MadeOnce
  <2>8. AddedOnce'
    <3>1. \A x \in answers : x.challenge \in Registration /\ x.cred \in known' => x.challenge \in used
      BY <2>2, <2>3 DEF Inv, AddedOnce, MadeOnce
    <3>2. \A q \in Proc : Adds(q)' => Adds(q) /\ q # p /\ call'[q] = call[q]
      BY <2>5 DEF Adds
    <3>3. \A q \in Proc : Adds(q) /\ q # p => call[q].answer.cred # a.cred
      BY <1>1, <2>1 DEF Inv, AddedOnce
    <3> QED
      BY <1>2, <2>2, <3>1, <3>2, <3>3 DEF Inv, AddedOnce
  <2>9. DeletedStaysOut'
    BY <1>2, <2>2, <2>3 DEF Inv, DeletedStaysOut, known
  <2>10. \A q \in Proc, c \in Cred : LogsInWith(q, c)' => LogsInWith(q, c) /\ call'[q] = call[q]
    BY <2>5 DEF LogsInWith
  <2>11. LoginsOK'
    <3> SUFFICES ASSUME NEW c \in Cred
                 PROVE  /\ accepted[c] # -1 => c \in known'
                        /\ \A q \in Proc : LogsInWith(q, c)' /\ (call'[q].pc = "validate" => call'[q].row # -1) => c \in known'
                        /\ c \notin overlapped =>
                             /\ c \in registered' => accepted[c] <= signCount'[c]
                             /\ \A q, r \in Proc : LogsInWith(q, c)' /\ LogsInWith(r, c)' => q = r
                             /\ \A q \in Proc : LogsInWith(q, c)' =>
                                  IF call'[q].pc = "validate" THEN call'[q].row # -1 => accepted[c] <= call'[q].row
                                  ELSE Follows(call'[q].answer.count, accepted[c])
      BY <1>2 DEF LoginsOK
    <3>1. /\ accepted[c] # -1 => c \in known
          /\ \A q \in Proc : LogsInWith(q, c) /\ (call[q].pc = "validate" => call[q].row # -1) => c \in known
          /\ c \notin overlapped =>
               /\ c \in registered => accepted[c] <= signCount[c]
               /\ \A q, r \in Proc : LogsInWith(q, c) /\ LogsInWith(r, c) => q = r
               /\ \A q \in Proc : LogsInWith(q, c) =>
                    IF call[q].pc = "validate" THEN call[q].row # -1 => accepted[c] <= call[q].row
                    ELSE Follows(call[q].answer.count, accepted[c])
      BY DEF Inv, LoginsOK
    <3>2. c = a.cred => accepted[c] = -1
      BY <2>3, <3>1
    <3>3. c \notin overlapped /\ c \in registered' => accepted[c] <= signCount'[c]
      BY <2>2, <3>1, <3>2
    <3> QED
      BY <2>2, <2>10, <3>1, <3>3
  <2>12. GenuineOK'
    BY <1>2, <2>2, <2>5 DEF Inv, GenuineOK
  <2> QED
    BY <2>6, <2>7, <2>8, <2>9, <2>11, <2>12 DEF Inv
<1> QED
  BY <1>1, <1>3, <1>4 DEF Add

LEMMA UpdateSignCountInv == ASSUME Inv, NEW p \in Proc, UpdateSignCount(p) PROVE Inv'
<1>1. PICK a : a = call[p].answer
  OBVIOUS
<1>2. UNCHANGED <<now, ceremony, used, counter, clone, answers, overlapped, deleted>> /\ Return(p)
  BY DEF UpdateSignCount, ceremonies, devices
<1>3. CASE Failed /\ UNCHANGED accepted
  BY <1>2, <1>3, ReturnInv DEF UpdateSignCount, Failed, history
<1>4. CASE ~requireOneRow(a.cred) /\ Done /\ UNCHANGED <<signCount, accepted>>
  BY <1>2, <1>4, ReturnInv DEF UpdateSignCount, history
<1>5. CASE /\ requireOneRow(a.cred) /\ SetCount(a.cred, a.count)
           /\ \/ Done /\ accepted' = [accepted EXCEPT ![a.cred] = IF @ > a.count THEN @ ELSE a.count]
              \/ Lost /\ UNCHANGED accepted
  <2>1. call[p].pc = "update" /\ call[p].pc # "idle"
    BY DEF UpdateSignCount
  <2>2. /\ a \in answers /\ a \in Answer /\ a.cred \in Cred /\ a.count \in Nat /\ a.challenge \in used
        /\ signCount' \in [Cred -> Nat \cup {-1}] /\ signCount'[a.cred] = a.count
        /\ \A b \in Cred \ {a.cred} : signCount'[b] = signCount[b]
        /\ registered' = registered \cup {a.cred} /\ known' = known \cup {a.cred}
        /\ call' \in [Proc -> Frame] /\ call'[p].pc = "idle" /\ \A q \in Proc \ {p} : call'[q] = call[q]
        /\ \A q \in Proc : FrameOK(call[q])'
        /\ \A c \in registered' : \E x \in answers : x.cred = c /\ x.count = signCount'[c]
    BY <1>1, <1>2, <1>5, <2>1, StoreMeaning DEF SetCount, Stored
  <2>3. a.cred \in registered /\ registered' = registered /\ a.cred \in known /\ known' = known
    BY <1>5, <2>2 DEF requireOneRow, known
  <2>4. faults' \in 0..MaxFaults
    BY <1>5, ConstantsAssumption DEF Done, Lost, Inv, TypeInv, TypeOK
  <2>5. \A q \in Proc : call'[q].pc # "idle" => q # p /\ call'[q] = call[q]
    BY <2>2
  <2>6. /\ accepted' \in [Cred -> Nat \cup {-1}]
        /\ \A b \in Cred \ {a.cred} : accepted'[b] = accepted[b]
        /\ accepted'[a.cred] \in {accepted[a.cred], a.count}
        /\ accepted[a.cred] <= a.count => accepted'[a.cred] <= a.count
    <3>1. accepted \in [Cred -> Nat \cup {-1}]
      BY DEF Inv, TypeInv, TypeOK
    <3>2. PICK n \in {accepted[a.cred], a.count} :
            /\ n = IF accepted[a.cred] > a.count THEN accepted[a.cred] ELSE a.count
            /\ accepted[a.cred] <= a.count => n <= a.count
      BY <2>2, <3>1
    <3>3. accepted' = accepted \/ accepted' = [accepted EXCEPT ![a.cred] = n]
      BY <1>5, <2>2, <3>1, <3>2
    <3> QED
      BY <2>2, <3>1, <3>2, <3>3
  <2>7. TypeInv'
    BY <1>2, <2>2, <2>4, <2>6 DEF Inv, TypeInv, TypeOK
  <2>8. MadeOnce'
    BY <1>2, <2>3 DEF Inv, MadeOnce
  <2>9. AddedOnce'
    <3>1. \A q \in Proc : Adds(q)' => Adds(q) /\ call'[q] = call[q]
      BY <2>5 DEF Adds
    <3> QED
      BY <1>2, <2>3, <3>1 DEF Inv, AddedOnce
  <2>10. DeletedStaysOut'
    BY <1>2, <2>3 DEF Inv, DeletedStaysOut
  <2>11. \A q \in Proc, c \in Cred : LogsInWith(q, c)' => LogsInWith(q, c) /\ q # p /\ call'[q] = call[q]
    BY <2>5 DEF LogsInWith
  <2>12. LogsInWith(p, a.cred)
    BY <1>1, <2>1 DEF LogsInWith
  <2>13. LoginsOK'
    <3> SUFFICES ASSUME NEW c \in Cred
                 PROVE  /\ accepted'[c] # -1 => c \in known
                        /\ \A q \in Proc : LogsInWith(q, c)' /\ (call'[q].pc = "validate" => call'[q].row # -1) => c \in known
                        /\ c \notin overlapped =>
                             /\ c \in registered => accepted'[c] <= signCount'[c]
                             /\ \A q, r \in Proc : LogsInWith(q, c)' /\ LogsInWith(r, c)' => q = r
                             /\ \A q \in Proc : LogsInWith(q, c)' =>
                                  IF call'[q].pc = "validate" THEN call'[q].row # -1 => accepted'[c] <= call'[q].row
                                  ELSE Follows(call'[q].answer.count, accepted'[c])
      BY <1>2, <2>3 DEF LoginsOK
    <3>1. /\ accepted[c] # -1 => c \in known
          /\ \A q \in Proc : LogsInWith(q, c) /\ (call[q].pc = "validate" => call[q].row # -1) => c \in known
          /\ c \notin overlapped =>
               /\ c \in registered => accepted[c] <= signCount[c]
               /\ \A q, r \in Proc : LogsInWith(q, c) /\ LogsInWith(r, c) => q = r
               /\ \A q \in Proc : LogsInWith(q, c) =>
                    IF call[q].pc = "validate" THEN call[q].row # -1 => accepted[c] <= call[q].row
                    ELSE Follows(call[q].answer.count, accepted[c])
      BY DEF Inv, LoginsOK
    <3>2. CASE c # a.cred
      BY <2>2, <2>6, <2>11, <3>1, <3>2
    <3>3. CASE c = a.cred /\ c \notin overlapped
      <4>1. Follows(a.count, accepted[c])
        BY <1>1, <2>1, <2>12, <3>1, <3>3
      <4>2. accepted[c] <= a.count
        BY <2>2, <4>1 DEF Follows, Inv, TypeInv, TypeOK
      <4>3. accepted'[c] <= signCount'[c]
        BY <2>2, <2>6, <3>3, <4>2
      <4>4. \A q \in Proc : ~LogsInWith(q, c)'
        BY <2>11, <2>12, <3>1, <3>3
      <4> QED
        BY <2>3, <3>3, <4>3, <4>4
    <3>4. CASE c = a.cred /\ c \in overlapped
      BY <2>3, <3>4
    <3> QED
      BY <3>2, <3>3, <3>4
  <2>14. GenuineOK'
    BY <1>2, <2>2, <2>3, <2>5 DEF Inv, GenuineOK
  <2> QED
    BY <2>7, <2>8, <2>9, <2>10, <2>13, <2>14 DEF Inv
<1> QED
  BY <1>1, <1>3, <1>4, <1>5 DEF UpdateSignCount

LEMMA InvNext == Inv /\ [Next]_vars => Inv'
<1> SUFFICES ASSUME Inv, [Next]_vars PROVE Inv'
  OBVIOUS
<1>1. now \in Nat /\ ceremony \in [Challenge -> SessionData \cup {None}]
  BY DEF Inv, TypeInv, TypeOK
<1>2. CASE UNCHANGED vars
  BY <1>1, <1>2, NothingFinishesInv DEF vars, ceremonies
<1>3. CASE Tick
  BY <1>1, <1>3, NothingFinishesInv DEF Tick, ceremonies
<1>4. ASSUME NEW h \in Registration, BeginRegistration(h) \/ \E c \in Cred : Create(h, c) PROVE Inv'
  BY <1>4, SealInv, CreateInv DEF BeginRegistration, Challenge
<1>5. ASSUME NEW h \in Login, BeginLogin(h) \/ \E c \in Cred : Get(h, c) \/ GetByClone(h, c) PROVE Inv'
  <2>1. registered \in SUBSET Cred /\ h \in Challenge
    BY DEF registered, Challenge
  <2> QED
    BY <1>5, <2>1, SealInv, GetInv, GetByCloneInv DEF BeginLogin
<1>6. ASSUME NEW p \in Proc, Crash(p) PROVE Inv'
  BY <1>6, ReturnInv DEF Crash
<1> QED
  BY <1>2, <1>3, <1>4, <1>5, <1>6, CloneInv, DeleteInv, FinishRegistrationInv, FinishLoginInv,
     AddInv, ValidateLoginInv, UpdateSignCountInv DEF Next

LEMMA Invariance == Spec => []Inv
  BY InvInit, InvNext, PTL DEF Spec
-----------------------------------------------------------------------------
(* The theorems.                                                           *)

(* The table holds counts that an authenticator answered with, and no more *)
(* calls fail than may.                                                    *)
THEOREM TypeCorrect == Spec => []TypeOK
<1>1. Inv => TypeOK
  BY DEF Inv, TypeInv
<1> QED
  BY <1>1, Invariance, PTL

(* A passkey its owner removed with Delete is not brought back, by a       *)
(* FinishLogin or by a FinishRegistration that is under way.               *)
THEOREM DeletedIsGone == Spec => []DeletedStaysOut
<1>1. Inv => DeletedStaysOut
  BY DEF Inv
<1> QED
  BY <1>1, Invariance, PTL

(* FinishLogin of goroutine p can only end in UpdateSignCount, and in      *)
(* ErrCredentialCloned only in ValidateLogin.                              *)
LEMMA EndsOfLogin ==
  ASSUME Inv, [Next]_vars, NEW p \in Proc
  PROVE  /\ LogsIn(p) => UpdateSignCount(p) /\ call[p].answer.cred \in Cred /\ call[p].answer \in answers
         /\ Alarms(p) => ValidateLogin(p) /\ call[p].answer.cred \in Cred
<1>1. call[p].pc # "idle" => call[p].answer \in answers /\ call[p].answer.cred \in Cred
  BY DEF Inv, TypeInv, TypeOK, FrameOK, Answer
<1> SUFFICES ASSUME call[p].pc \in {"validate", "update"}, call'[p].pc = "idle", faults' = faults
             PROVE  \/ call[p].pc = "update" /\ UpdateSignCount(p)
                    \/ call[p].pc = "validate" /\ ValidateLogin(p)
  BY <1>1 DEF LogsIn, Alarms
<1>2. call' # call
  OBVIOUS
<1>3. faults \in Nat
  BY ConstantsAssumption DEF Inv, TypeInv, TypeOK
<1>4. ~Tick /\ ~UNCHANGED vars
  BY <1>2 DEF Tick, vars
<1>5. \A h \in Registration : ~BeginRegistration(h) /\ \A c \in Cred : ~Create(h, c)
  BY <1>2 DEF BeginRegistration, Seal, Create
<1>6. \A h \in Login : ~BeginLogin(h) /\ \A c \in Cred : ~Get(h, c) /\ ~GetByClone(h, c)
  BY <1>2 DEF BeginLogin, Seal, Get, GetByClone
<1>7. \A c \in Cred : ~Clone(c) /\ ~Delete(c)
  BY <1>2 DEF Clone, Delete
<1>8. PICK q \in Proc :
        \/ \E a \in answers : FinishRegistration(q, a) \/ FinishLogin(q, a)
        \/ Add(q) \/ ValidateLogin(q) \/ UpdateSignCount(q) \/ Crash(q)
  <2>1. ~\E h \in Registration : BeginRegistration(h) \/ \E c \in Cred : Create(h, c)
    BY <1>5
  <2>2. ~\E h \in Login : BeginLogin(h) \/ \E c \in Cred : Get(h, c) \/ GetByClone(h, c)
    BY <1>6
  <2>3. ~\E c \in Cred : Clone(c) \/ Delete(c)
    BY <1>7
  <2> QED
    BY <1>4, <2>1, <2>2, <2>3 DEF Next
<1>9. ~Crash(q)
  BY <1>3 DEF Crash, Lost
<1>10. q # p => call'[p] = call[p]
  <2>1. call' = call \/ \E fr : call' = [call EXCEPT ![q] = fr]
    <3>1. CASE \E a \in answers : FinishRegistration(q, a) \/ FinishLogin(q, a)
      BY <3>1 DEF FinishRegistration, FinishLogin, Begin
    <3>2. CASE Add(q) \/ UpdateSignCount(q)
      BY <3>2 DEF Add, UpdateSignCount, Return
    <3>3. CASE ValidateLogin(q)
      BY <3>3 DEF ValidateLogin, Return
    <3> QED
      BY <1>8, <1>9, <3>1, <3>2, <3>3
  <2> QED
    BY <2>1 DEF Inv, TypeInv, TypeOK
<1>11. q = p
  BY <1>10
<1>12. \A a \in answers : ~FinishRegistration(p, a) /\ ~FinishLogin(p, a)
  BY DEF FinishRegistration, FinishLogin, Begin
<1> QED
  BY <1>8, <1>9, <1>11, <1>12 DEF Add, ValidateLogin, UpdateSignCount

(* Of an authenticator and its copy, only one logs in with each count, in  *)
(* ascending order, unless ListByUser and UpdateSignCount of two logins    *)
(* with the credential overlapped.                                         *)
THEOREM LoginsAscend == Spec => CountsAdvance
<1>1. Inv /\ [Next]_vars => [\A p \in Proc : AdvancesTheCount(p)]_vars
  <2> SUFFICES ASSUME Inv, [Next]_vars, NEW p \in Proc, LogsIn(p), call[p].answer.cred \notin overlapped
               PROVE  \/ accepted[call[p].answer.cred] < call[p].answer.count
                      \/ accepted[call[p].answer.cred] = 0 /\ call[p].answer.count = 0
    BY DEF AdvancesTheCount
  <2>1. PICK c \in Cred : c = call[p].answer.cred
    BY EndsOfLogin
  <2>2. LogsInWith(p, c) /\ call[p].pc = "update"
    BY <2>1 DEF LogsIn, LogsInWith
  <2>3. Follows(call[p].answer.count, accepted[c])
    BY <2>1, <2>2 DEF Inv, LoginsOK
  <2> QED
    BY <2>1, <2>3 DEF Follows
<1> QED
  BY <1>1, Invariance, PTL DEF Spec, CountsAdvance

(* ErrCredentialCloned is never the answer to the newest count of an       *)
(* authenticator that was not copied, whatever overlapped, failed or was   *)
(* lost before.                                                            *)
THEOREM AlarmsAreGenuine == Spec => NoFalseAlarm
<1>1. Inv /\ [Next]_vars => [\A p \in Proc : AlarmsForAReason(p)]_vars
  <2> SUFFICES ASSUME Inv, [Next]_vars, NEW p \in Proc, Alarms(p), clone[call[p].answer.cred] = -1
               PROVE  call[p].answer.count < counter[call[p].answer.cred]
    BY DEF AlarmsForAReason
  <2>1. PICK c \in Cred, a \in answers : a = call[p].answer /\ c = a.cred
    BY EndsOfLogin DEF Alarms, Inv, TypeInv, FrameOK
  <2>2. a.count \in Nat
    BY DEF Inv, TypeInv, TypeOK, Answer
  <2>3. call[p] \in Frame /\ call[p].pc = "validate" /\ call[p].row # -1
    BY DEF Alarms, Refuses, Inv, TypeInv, TypeOK
  <2>4. call[p].row \in Nat
    BY <2>3 DEF Frame
  <2>5. CloneWarning(a.count, call[p].row)
    <3>1. ValidateLogin(p) /\ ~Refuses(call[p])
      BY EndsOfLogin DEF Alarms
    <3>2. ASSUME call' = [call EXCEPT ![p].pc = "update", ![p].row = -1] PROVE FALSE
      <4>1. call'[p] = [call[p] EXCEPT !.pc = "update", !.row = -1]
        BY <3>2 DEF Inv, TypeInv, TypeOK
      <4>2. call'[p].pc = "update"
        BY <2>3, <4>1 DEF Frame
      <4> QED
        BY <4>2 DEF Alarms
    <3> QED
      BY <2>1, <3>1, <3>2 DEF ValidateLogin
  <2>6. ~Follows(a.count, call[p].row)
    BY <2>2, <2>4, <2>5 DEF CloneWarning, Follows
  <2>7. a.count < counter[c]
    BY <2>1, <2>3, <2>6 DEF Inv, GenuineOK
  <2> QED
    BY <2>1, <2>7
<1> QED
  BY <1>1, Invariance, PTL DEF Spec, NoFalseAlarm
=============================================================================
