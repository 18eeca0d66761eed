--------------------------- MODULE ExhibitsProofs ---------------------------
(***************************************************************************)
(* What retention keeps for any exhibits, cases, approvals and calls in    *)
(* progress: IInv of ExhibitsProps is inductive, and every promise there   *)
(* but ReusedIsLive, which the code breaks, follows from it.               *)
(***************************************************************************)
EXTENDS ExhibitsProps, TLAPS, FiniteSetTheorems

-----------------------------------------------------------------------------
(* Row locks *)

\* A lock is its holder, its row and its mode: SELECT ... FOR UPDATE of one row
\* by one transaction is told from every other.
LEMMA LockIs == ASSUME NEW p, NEW r, NEW m
                PROVE /\ \A q, s, n : Lock(p, r, m) = Lock(q, s, n) <=> p = q /\ r = s /\ m = n
                      /\ Lock(p, r, m).proc = p /\ Lock(p, r, m).row = r /\ Lock(p, r, m).mode = m
<1>1. Lock(p, r, m).proc = p /\ Lock(p, r, m).row = r /\ Lock(p, r, m).mode = m
  BY DEF Lock
<1>2. ASSUME NEW q, NEW s, NEW n, Lock(p, r, m) = Lock(q, s, n) PROVE p = q /\ r = s /\ m = n
  <2>1. Lock(q, s, n).proc = q /\ Lock(q, s, n).row = s /\ Lock(q, s, n).mode = n
    BY DEF Lock
  <2>2. QED
    BY <1>1, <1>2, <2>1, Zenon
<1>3. \A q, s, n : p = q /\ r = s /\ m = n => Lock(p, r, m) = Lock(q, s, n)
  OBVIOUS
<1>4. QED
  BY <1>1, <1>2, <1>3, Zenon

\* A row of one table is no row of another, and a row is its id.
LEMMA RowIs == /\ \A x, y : ExhibitRow(x) = ExhibitRow(y) <=> x = y
               /\ \A x, y : CaseRow(x) = CaseRow(y) <=> x = y
               /\ \A x, y : ApprovalRow(x) = ApprovalRow(y) <=> x = y
               /\ \A x, y : /\ ExhibitRow(x) # CaseRow(y) /\ ExhibitRow(x) # ApprovalRow(y)
                            /\ CaseRow(x) # ApprovalRow(y)
<1>1. \A a, b, c, d : <<a, b>> = <<c, d>> => a = c /\ b = d
  OBVIOUS
<1>2. QED
  BY <1>1 DEF ExhibitRow, CaseRow, ApprovalRow

\* Every lock held is of a row there is, by a call, and its record.
LEMMA LockType == ASSUME LockTypes, NEW l \in locks
                  PROVE /\ l.proc \in Calls /\ l.row \in Rows /\ l.mode \in {"share", "update"}
                        /\ l = Lock(l.proc, l.row, l.mode) /\ Holds(l.proc, l.row, l.mode)
  BY DEF LockTypes, Lock, Holds

\* A statement that locks a row leaves every other lock as it was.
LEMMA Locking == ASSUME NEW p, NEW r, NEW m, locks' = locks \cup {Lock(p, r, m)}
                 PROVE \A q, s, n : Holds(q, s, n)' <=> Holds(q, s, n) \/ (q = p /\ s = r /\ n = m)
  BY LockIs DEF Holds

\* An approval's lock is no other row's ...
LEMMA LockingApproval ==
    ASSUME NEW p, NEW r, NEW m, locks' = locks \cup {Lock(p, ApprovalRow(r), m)}
    PROVE  /\ \A q, a, n : Holds(q, ApprovalRow(a), n)' <=> Holds(q, ApprovalRow(a), n) \/ (q = p /\ a = r /\ n = m)
           /\ \A q, b, n : Holds(q, CaseRow(b), n)' <=> Holds(q, CaseRow(b), n)
           /\ \A q, c, n : Holds(q, ExhibitRow(c), n)' <=> Holds(q, ExhibitRow(c), n)
  BY Locking, RowIs
\* ... nor is a case's ...
LEMMA LockingCase ==
    ASSUME NEW p, NEW k, NEW m, locks' = locks \cup {Lock(p, CaseRow(k), m)}
    PROVE  /\ \A q, a, n : Holds(q, ApprovalRow(a), n)' <=> Holds(q, ApprovalRow(a), n)
           /\ \A q, b, n : Holds(q, CaseRow(b), n)' <=> Holds(q, CaseRow(b), n) \/ (q = p /\ b = k /\ n = m)
           /\ \A q, c, n : Holds(q, ExhibitRow(c), n)' <=> Holds(q, ExhibitRow(c), n)
  BY Locking, RowIs
\* ... nor an exhibit's.
LEMMA LockingExhibit ==
    ASSUME NEW p, NEW x, NEW m, locks' = locks \cup {Lock(p, ExhibitRow(x), m)}
    PROVE  /\ \A q, a, n : Holds(q, ApprovalRow(a), n)' <=> Holds(q, ApprovalRow(a), n)
           /\ \A q, b, n : Holds(q, CaseRow(b), n)' <=> Holds(q, CaseRow(b), n)
           /\ \A q, c, n : Holds(q, ExhibitRow(c), n)' <=> Holds(q, ExhibitRow(c), n) \/ (q = p /\ c = x /\ n = m)
  BY Locking, RowIs

\* A commit or rollback leaves the other transactions' locks.
LEMMA Releasing == ASSUME NEW p, Release(p)
                   PROVE \A q, s, n : Holds(q, s, n)' <=> Holds(q, s, n) /\ q # p
  BY LockIs DEF Holds, Release, LocksOf

\* Locks stay of rows there are, whether one more is taken or all of a call's go.
LEMMA LockingTypes == ASSUME LockTypes, NEW p \in Calls, NEW r \in Rows, NEW m \in {"share", "update"},
                             locks' = locks \cup {Lock(p, r, m)}
                      PROVE LockTypes'
  BY DEF LockTypes, Lock, Rows, CaseRow, ExhibitRow, ApprovalRow
LEMMA ReleasingTypes == ASSUME LockTypes, NEW p, Release(p)
                        PROVE LockTypes'
  BY DEF LockTypes, Release, Rows, CaseRow, ExhibitRow, ApprovalRow

\* A row locked FOR UPDATE was locked by nobody else.
LEMMA GrantedAlone == ASSUME NEW p, NEW r, Granted(p, r, "update")
                      PROVE \A q, n : Holds(q, r, n) => q = p
  BY LockIs DEF Holds, Granted

\* A row locked FOR SHARE was locked FOR UPDATE by nobody else.
LEMMA GrantedShare == ASSUME NEW p, NEW r, Granted(p, r, "share")
                      PROVE \A q : Holds(q, r, "update") => q = p
  BY LockIs DEF Holds, Granted

-----------------------------------------------------------------------------
(* The order of ids *)

\* A set of naturals that has a member has a least one.
LEMMA LeastNat == ASSUME NEW X, X \subseteq Nat, X # {}
                  PROVE \E n \in X : \A m \in X : n <= m
<1>1. PICK x \in X : x \in Nat
  OBVIOUS
<1> DEFINE T == {0..k : k \in {k \in X : k <= x}}
<1>2. IsFiniteSet(0..x)
  BY <1>1, FS_Interval
<1>3. IsWellFoundedOn(StrictSubsetOrdering(0..x), FiniteSubsetsOf(0..x))
  BY <1>2, FS_StrictSubsetOrderingWellFounded
<1>4. T \subseteq FiniteSubsetsOf(0..x) /\ T # {}
  <2>1. \A k \in Nat : IsFiniteSet(0..k)
    BY FS_Interval
  <2>2. QED
    BY <1>1, <2>1 DEF FiniteSubsetsOf
<1>5. PICK t \in T : \A u \in T : <<u, t>> \notin StrictSubsetOrdering(0..x)
  BY <1>3, <1>4, WFMin, Zenon
<1>6. PICK n \in X : n <= x /\ t = 0..n
  OBVIOUS
<1>7. SUFFICES ASSUME NEW m \in X, m < n PROVE FALSE
  BY <1>6
<1>8. 0..m \in T /\ 0..m \subseteq t /\ 0..m # t
  BY <1>1, <1>6, <1>7
<1>9. 0..m \in SUBSET (0..x) /\ t \in SUBSET (0..x)
  BY <1>1, <1>6, <1>7
<1>10. \A A, B \in SUBSET (0..x) : A \subseteq B /\ A # B
            => <<A, B>> \in StrictSubsetOrdering(0..x)
  BY Zenon DEF StrictSubsetOrdering
<1>11. <<0..m, t>> \in StrictSubsetOrdering(0..x)
  BY <1>8, <1>9, <1>10, Zenon
<1>12. QED
  BY <1>5, <1>8, <1>11, Zenon

-----------------------------------------------------------------------------
(* What a step does not touch *)

\* A step that writes no exhibit, marks none and moves no hold leaves what is
\* recorded of them as true as it was.
LEMMA QuietStep ==
    ASSUME IInv, UNCHANGED <<custody, holds, approval, destroyed, marked, faults>>
    PROVE  /\ Missing' /\ Tally' /\ Spent' /\ HeldIsThere' /\ AlarmIsTrue'
           /\ (Cardinality(Lost) <= faults)'
  BY DEF IInv, Missing, Tally, Spent, HeldIsThere, AlarmIsTrue, Lost, custody, holds

\* A step that destroys no exhibit, and lets none out of a sweep's hands that
\* it does not mark, loses none.
LEMMA LostStays ==
    ASSUME IInv, GhostTypes', faults <= faults',
           \A y \in Exhibits : y \in Lost' => y \in Lost
    PROVE  (Cardinality(Lost) <= faults)'
<1>1. Lost \subseteq Exhibits /\ Lost' \subseteq Lost
  BY DEF Lost
<1>2. IsFiniteSet(Lost)
  BY <1>1, FiniteAssumption, FS_Subset
<1>3. Cardinality(Lost') \in Nat /\ Cardinality(Lost) \in Nat /\ Cardinality(Lost') <= Cardinality(Lost)
  BY <1>1, <1>2, FS_Subset, FS_CardinalityType
<1>4. faults \in Nat /\ faults' \in Nat
  BY ActorAssumption DEF IInv, TypeOK, GhostTypes
<1>5. QED
  BY <1>3, <1>4 DEF IInv

\* A fault pays for one exhibit lost.
LEMMA LostOneMore ==
    ASSUME IInv, GhostTypes', faults' = faults + 1, NEW x \in Exhibits, Lost' \subseteq Lost \cup {x}
    PROVE  (Cardinality(Lost) <= faults)'
<1>1. Lost \subseteq Exhibits
  BY DEF Lost
<1>2. IsFiniteSet(Lost) /\ IsFiniteSet(Lost \cup {x})
  BY <1>1, FiniteAssumption, FS_Subset, FS_AddElement
<1>3. Cardinality(Lost \cup {x}) <= Cardinality(Lost) + 1 /\ Cardinality(Lost) \in Nat
  <2>1. Cardinality(Lost) \in Nat
    BY <1>2, FS_CardinalityType
  <2>2. QED
    BY <2>1, <1>2, FS_AddElement
<1>4. Cardinality(Lost') \in Nat /\ Cardinality(Lost') <= Cardinality(Lost \cup {x})
      /\ Cardinality(Lost \cup {x}) \in Nat
  BY <1>2, FS_Subset, FS_CardinalityType
<1>5. faults \in Nat /\ faults' \in Nat
  BY ActorAssumption DEF IInv, TypeOK, GhostTypes
<1>6. QED
  BY <1>3, <1>4, <1>5 DEF IInv

\* The exhibit whose row comes next is one of those left to lock.
LEMMA LeastIs == ASSUME NEW S, S \subseteq Exhibits, S # {}, NEW p
                 PROVE InOrder(p, S) \in S /\ \A y \in S : InOrder(p, S) <= y
<1>1. PICK x \in S : \A y \in S : x <= y
  BY ExhibitAssumption, LeastNat
<1>2. QED
  BY <1>1 DEF InOrder, Least

\* An exhibit in a purge's hands is in no other's, and no sweep has marked it:
\* its row is locked and its purged_at is not written yet.
LEMMA InOneHand ==
    ASSUME IInv, NEW p \in Calls, NEW x \in Dying(p)
    PROVE  /\ x \in Exhibits /\ row[x] = "live" /\ ~Held(x) /\ Holds(p, ExhibitRow(x), "update")
           /\ \A q \in Calls : x \in Dying(q) => q = p
           /\ \A q \in Calls : x \notin marked[q]
<1>1. x \in Exhibits /\ row[x] = "live" /\ ~Held(x) /\ Holds(p, ExhibitRow(x), "update")
  BY DEF IInv, Fated, TypeOK, ListTypes, Dying, LocksFor
<1>2. ASSUME NEW q \in Calls, x \in Dying(q) PROVE q = p
  <2>1. Holds(q, ExhibitRow(x), "update") /\ ExhibitRow(x) \in Rows
    BY <1>1, <1>2 DEF IInv, LocksFor, Rows
  <2>2. QED
    BY <1>1, <2>1 DEF IInv, Exclusive
<1>3. \A q \in Calls : x \notin marked[q]
  BY <1>1 DEF IInv, Tally
<1>4. QED
  BY <1>1, <1>2, <1>3

\* A step that gives no call more to destroy leaves it what it was about, if what
\* is lodged stays lodged and the desk's calls know their exhibits.
LEMMA AimFrom ==
    ASSUME IInv,
           \A q \in Calls : /\ task'[q] = task[q] \/ task'[q] = Nobody
                            /\ Dying(q)' \subseteq Dying(q) /\ todo'[q] \subseteq todo[q],
           \A x \in Exhibits : row[x] \in {"live", "purged"} => row'[x] \in {"live", "purged"},
           \A q \in Calls :
             /\ pc'[q] \in {"fetch", "ask", "reacquire"} => row'[item'[q]] \in {"live", "purged"}
             /\ pc'[q] = "ask" => bytes'[item'[q]] # "stored"
             /\ pc'[q] = "put" => row'[item'[q]] = "open" /\ bytes'[item'[q]] = "none"
             /\ pc'[q] = "lodge" => row'[item'[q]] = "open" /\ bytes'[item'[q]] = "stored"
    PROVE  Aim'
<1>1. ASSUME NEW q \in Calls, task'[q] \in Cases
      PROVE  /\ \A x \in todo'[q] \cup Dying(q)' : CaseOf[x] = task'[q]
             /\ \A x, y \in Dying(q)' : x = y
  BY <1>1, ActorAssumption DEF IInv, Aim
<1>2. ASSUME NEW q \in Calls, task'[q] \in Requests
      PROVE  /\ todo'[q] \cup Dying(q)' \subseteq Batch[task'[q]]
             /\ \A x \in Batch[task'[q]] : row'[x] \in {"live", "purged"}
  <2>1. task'[q] = task[q] /\ Batch[task[q]] \subseteq Exhibits
    BY <1>2, ActorAssumption, RequestAssumption
  <2>2. QED
    BY <1>2, <2>1 DEF IInv, Aim
<1>3. ASSUME NEW q \in Calls PROVE \A x \in todo'[q] : row'[x] \in {"live", "purged"}
  BY <1>3 DEF IInv, Aim, TypeOK, ListTypes
<1>4. QED
  BY <1>1, <1>2, <1>3 DEF Aim

\* A step that only destroys or marks what is live leaves every call about what it
\* was about.
LEMMA AimStays ==
    ASSUME IInv, item' = item,
           \A q \in Calls : /\ task'[q] = task[q] \/ task'[q] = Nobody
                            /\ Dying(q)' \subseteq Dying(q) /\ todo'[q] \subseteq todo[q]
                            /\ pc'[q] = pc[q] \/ pc'[q] \notin {"fetch", "ask", "reacquire", "put", "lodge"},
           \A x \in Exhibits : /\ row'[x] = row[x] \/ (row[x] = "live" /\ row'[x] = "purged")
                               /\ bytes'[x] = bytes[x] \/ (row[x] = "live" /\ bytes'[x] = "gone")
    PROVE  Aim'
<1>1. ASSUME NEW q \in Calls, pc'[q] \in {"fetch", "ask", "reacquire", "put", "lodge"}
      PROVE  item[q] \in Exhibits /\ pc'[q] = pc[q]
  BY <1>1 DEF IInv, Duty, AtDesk
<1>2. ASSUME NEW q \in Calls
      PROVE  /\ pc'[q] \in {"fetch", "ask", "reacquire"} => row'[item'[q]] \in {"live", "purged"}
             /\ pc'[q] = "ask" => bytes'[item'[q]] # "stored"
             /\ pc'[q] = "put" => row'[item'[q]] = "open" /\ bytes'[item'[q]] = "none"
             /\ pc'[q] = "lodge" => row'[item'[q]] = "open" /\ bytes'[item'[q]] = "stored"
  BY <1>1 DEF IInv, Aim
<1>3. QED
  BY <1>2, AimFrom

\* What a lodging is answered with is live when it is looked up.
LEMMA TwinIs == ASSUME NEW x, Twin(x, "live")
                PROVE  TwinOf(x) \in Exhibits /\ row[TwinOf(x)] = "live"
  BY DEF Twin, TwinOf

-----------------------------------------------------------------------------
(* Legal holds *)

\* A hold goes onto a row nobody has locked, so one that no purge is destroying.
LEMMA SetHoldInv == ASSUME IInv, NEW x \in Exhibits, NEW on \in BOOLEAN, SetHold(x, on)
                    PROVE  IInv'
<1>1. \A q \in Calls : x \notin Dying(q)
  <2> SUFFICES ASSUME NEW q \in Calls, x \in Dying(q) PROVE FALSE
    OBVIOUS
  <2>1. Holds(q, ExhibitRow(x), "update")
    BY InOneHand
  <2>2. QED
    BY <2>1 DEF SetHold, Holds, Lock
<1>2. row[x] = "live" /\ (bytes[x] = "stored" \/ x \in spoilt)
  BY <1>1 DEF SetHold, IInv, Missing, Dying
<1>3. RowTypes'
  BY <1>1 DEF IInv, TypeOK, RowTypes, SetHold, custody, local, rest
<1>4. LockTypes'
  BY <1>1 DEF IInv, TypeOK, LockTypes, Rows, Lock, SetHold, custody, local, rest
<1>5. CallTypes'
  BY <1>1 DEF IInv, TypeOK, CallTypes, SetHold, custody, local, rest
<1>6. ListTypes'
  BY <1>1 DEF IInv, TypeOK, ListTypes, CallTypes, SetHold, custody, local, rest
<1>7. GhostTypes'
  BY <1>1 DEF IInv, TypeOK, GhostTypes, CallTypes, SetHold, custody, local, rest
<1>8. Duty'
  BY <1>1, ActorAssumption DEF IInv, TypeOK, CallTypes, ListTypes, Duty, AtDesk, InStore, SetHold,
     custody, local, rest
<1>9. Aim'
  BY <1>1, ActorAssumption DEF IInv, TypeOK, CallTypes, ListTypes, Duty, Aim, Dying, AtDesk,
     InStore, SetHold, custody, local, rest
<1>10. \A q, s, n : Holds(q, s, n)' <=> Holds(q, s, n)
  BY DEF Holds, Lock, SetHold
<1>11. Exclusive'
  BY <1>1, <1>10 DEF IInv, Exclusive
<1>12. LocksAt'
  BY <1>1, <1>10 DEF IInv, TypeOK, CallTypes, ListTypes, Duty, LocksAt, Rows, AtDesk, InStore,
     SetHold, custody, local, rest
<1>13. LocksFor'
  BY <1>1, <1>10, ActorAssumption DEF IInv, TypeOK, CallTypes, ListTypes, Duty, Aim, LocksFor,
     Dying, AtDesk, InStore, SetHold, custody, local, rest
<1>14. Fated'
  BY <1>1 DEF IInv, TypeOK, CallTypes, ListTypes, Duty, Fated, Dying, Held, AtDesk, InStore,
     SetHold, custody, local, rest
<1>15. Missing'
  BY <1>1, ActorAssumption DEF IInv, TypeOK, CallTypes, ListTypes, Missing, Fated, Dying, Held, Aim,
     Duty, AtDesk, InStore, SetHold, custody, local, rest
<1>16. Tally'
  BY <1>1 DEF IInv, TypeOK, CallTypes, ListTypes, Tally, Fated, Dying, Duty, AtDesk, InStore,
     SetHold, custody, local, rest
<1>17. Spent'
  BY <1>1, ActorAssumption DEF IInv, TypeOK, CallTypes, ListTypes, Spent, Fated, Dying, Held, Aim,
     Missing, Duty, AtDesk, InStore, SetHold, custody, local, rest
<1>18. HeldIsThere'
  BY <1>2 DEF SetHold, IInv, HeldIsThere, custody
<1>19. AlarmIsTrue'
  BY <1>1 DEF IInv, TypeOK, CallTypes, ListTypes, AlarmIsTrue, Fated, Dying, Held, Aim, Missing,
     Duty, AtDesk, InStore, SetHold, custody, local, rest
<1>20. \A y \in Exhibits : y \in Lost' => y \in Lost
  BY <1>1 DEF IInv, TypeOK, CallTypes, ListTypes, Lost, Fated, Dying, Missing, Duty, AtDesk,
     InStore, SetHold, custody, local, rest
<1>21. (Cardinality(Lost) <= faults)'
  BY <1>20, <1>7, LostStays DEF IInv, TypeOK, GhostTypes, SetHold
<1>22. QED
  BY <1>3, <1>4, <1>5, <1>6, <1>7, <1>8, <1>9, <1>11, <1>12, <1>13, <1>14, <1>15, <1>16, <1>17,
     <1>18, <1>19, <1>20, <1>21 DEF IInv, TypeOK

\* A case's hold waits for the purges that have locked it.
LEMMA SetCaseHoldInv == ASSUME IInv, NEW k \in Cases, NEW on \in BOOLEAN, SetCaseHold(k, on)
                        PROVE  IInv'
<1>1. \A q \in Calls : \A x \in Dying(q) : CaseOf[x] # k
  <2> SUFFICES ASSUME NEW q \in Calls, NEW x \in Dying(q), CaseOf[x] = k PROVE FALSE
    OBVIOUS
  <2>1. Holds(q, CaseRow(k), "share")
    BY ActorAssumption DEF IInv, TypeOK, CallTypes, Duty, Dying, InStore, AtDesk, Aim, LocksFor
  <2>2. QED
    BY <2>1 DEF SetCaseHold, Holds, Lock
<1>2. RowTypes'
  BY <1>1 DEF IInv, TypeOK, RowTypes, SetCaseHold, custody, local, rest
<1>3. LockTypes'
  BY <1>1 DEF IInv, TypeOK, LockTypes, Rows, Lock, SetCaseHold, custody, local, rest
<1>4. CallTypes'
  BY <1>1 DEF IInv, TypeOK, CallTypes, SetCaseHold, custody, local, rest
<1>5. ListTypes'
  BY <1>1 DEF IInv, TypeOK, ListTypes, CallTypes, SetCaseHold, custody, local, rest
<1>6. GhostTypes'
  BY <1>1 DEF IInv, TypeOK, GhostTypes, CallTypes, SetCaseHold, custody, local, rest
<1>7. Duty'
  BY <1>1, ActorAssumption DEF IInv, TypeOK, CallTypes, ListTypes, Duty, AtDesk, InStore,
     SetCaseHold, custody, local, rest
<1>8. Aim'
  BY <1>1, ActorAssumption DEF IInv, TypeOK, CallTypes, ListTypes, Duty, Aim, Dying, AtDesk,
     InStore, SetCaseHold, custody, local, rest
<1>9. \A q, s, n : Holds(q, s, n)' <=> Holds(q, s, n)
  BY DEF Holds, Lock, SetCaseHold
<1>10. Exclusive'
  BY <1>1, <1>9 DEF IInv, Exclusive
<1>11. LocksAt'
  BY <1>1, <1>9 DEF IInv, TypeOK, CallTypes, ListTypes, Duty, LocksAt, Rows, AtDesk, InStore,
     SetCaseHold, custody, local, rest
<1>12. LocksFor'
  BY <1>1, <1>9, ActorAssumption DEF IInv, TypeOK, CallTypes, ListTypes, Duty, Aim, LocksFor, Dying,
     AtDesk, InStore, SetCaseHold, custody, local, rest
<1>13. Fated'
  BY <1>1 DEF IInv, TypeOK, CallTypes, ListTypes, Duty, Fated, Dying, Held, AtDesk, InStore,
     SetCaseHold, custody, local, rest
<1>14. Missing'
  BY <1>1, ActorAssumption DEF IInv, TypeOK, CallTypes, ListTypes, Missing, Fated, Dying, Held, Aim,
     Duty, AtDesk, InStore, SetCaseHold, custody, local, rest
<1>15. Tally'
  BY <1>1 DEF IInv, TypeOK, CallTypes, ListTypes, Tally, Fated, Dying, Duty, AtDesk, InStore,
     SetCaseHold, custody, local, rest
<1>16. Spent'
  BY <1>1, ActorAssumption DEF IInv, TypeOK, CallTypes, ListTypes, Spent, Fated, Dying, Held, Aim,
     Missing, Duty, AtDesk, InStore, SetCaseHold, custody, local, rest
<1>17. HeldIsThere'
  BY <1>1 DEF IInv, TypeOK, CallTypes, ListTypes, HeldIsThere, Fated, Dying, Held, Aim, Duty,
     AtDesk, InStore, SetCaseHold, custody, local, rest
<1>18. AlarmIsTrue'
  BY <1>1 DEF IInv, TypeOK, CallTypes, ListTypes, AlarmIsTrue, Fated, Dying, Held, Aim, Missing,
     Duty, AtDesk, InStore, SetCaseHold, custody, local, rest
<1>19. \A y \in Exhibits : y \in Lost' => y \in Lost
  BY <1>1 DEF IInv, TypeOK, CallTypes, ListTypes, Lost, Fated, Dying, Missing, Duty, AtDesk,
     InStore, SetCaseHold, custody, local, rest
<1>20. (Cardinality(Lost) <= faults)'
  BY <1>19, <1>6, LostStays DEF IInv, TypeOK, GhostTypes, SetCaseHold
<1>21. QED
  BY <1>2, <1>3, <1>4, <1>5, <1>6, <1>7, <1>8, <1>10, <1>11, <1>12, <1>13, <1>14, <1>15, <1>16,
     <1>17, <1>18, <1>19, <1>20 DEF IInv, TypeOK

-----------------------------------------------------------------------------
(* Sweeps of what is due *)

\* A sweep begins with what is due and not held, and nothing locked.
LEMMA BeginSweepInv == ASSUME IInv, NEW p \in Calls, NEW k \in Cases, BeginSweep(p, k)
                       PROVE  IInv'
<1>1. RowTypes'
  BY DEF IInv, TypeOK, RowTypes, BeginSweep, Goto, Set, custody, holds
<1>2. LockTypes'
  BY DEF IInv, TypeOK, LockTypes, Rows, Lock, BeginSweep, Goto, Set, custody, holds
<1>3. CallTypes'
  BY DEF IInv, TypeOK, CallTypes, BeginSweep, Goto, Set, custody, holds
<1>4. ListTypes'
  BY DEF IInv, TypeOK, ListTypes, CallTypes, BeginSweep, Goto, Set, custody, holds
<1>5. GhostTypes'
  BY DEF IInv, TypeOK, GhostTypes, CallTypes, BeginSweep, Goto, Set, custody, holds
<1>6. Duty'
  BY ActorAssumption DEF IInv, TypeOK, CallTypes, ListTypes, Duty, AtDesk, InStore, BeginSweep,
     Goto, Set, custody, holds
<1>7. Aim'
  BY ActorAssumption DEF IInv, TypeOK, CallTypes, ListTypes, Duty, Aim, Dying, AtDesk, InStore,
     BeginSweep, Goto, Set, custody, holds
<1>8. \A q, s, n : Holds(q, s, n)' <=> Holds(q, s, n)
  BY DEF Holds, Lock, BeginSweep
<1>9. Exclusive'
  BY <1>8 DEF IInv, Exclusive
<1>10. LocksAt'
  BY <1>8 DEF IInv, TypeOK, CallTypes, ListTypes, Duty, LocksAt, Rows, AtDesk, InStore, BeginSweep,
     Goto, Set, custody, holds
<1>11. LocksFor'
  BY <1>8, ActorAssumption DEF IInv, TypeOK, CallTypes, ListTypes, Duty, Aim, LocksFor, Dying,
     AtDesk, InStore, BeginSweep, Goto, Set, custody, holds
<1>12. Fated'
  BY DEF IInv, TypeOK, CallTypes, ListTypes, Duty, Fated, Dying, Held, AtDesk, InStore, BeginSweep,
     Goto, Set, custody, holds
<1>13. /\ Missing' /\ Tally' /\ Spent' /\ HeldIsThere' /\ AlarmIsTrue'
      /\ (Cardinality(Lost) <= faults)'
  BY QuietStep DEF IInv, BeginSweep, custody, holds
<1>14. QED
  BY <1>1, <1>2, <1>3, <1>4, <1>5, <1>6, <1>7, <1>9, <1>10, <1>11, <1>12, <1>13 DEF IInv, TypeOK

\* The case is locked before its exhibit.
LEMMA ClaimCaseInv == ASSUME IInv, NEW p \in Calls, ClaimCase(p)
                      PROVE  IInv'
<1>1. task[p] \in Cases /\ CaseRow(task[p]) \in Rows
  BY ActorAssumption DEF ClaimCase, IInv, TypeOK, CallTypes, Duty, AtDesk, InStore, Rows
<1>2. \A q : Holds(q, CaseRow(task[p]), "update") => q = p
  BY GrantedShare DEF ClaimCase, Take
<1>3. RowTypes'
  BY <1>1 DEF IInv, TypeOK, RowTypes, ClaimCase, Goto, custody, holds, local, rest
<1>4. LockTypes'
  BY <1>1, LockingTypes DEF ClaimCase, Take, IInv, TypeOK
<1>5. CallTypes'
  BY <1>1 DEF IInv, TypeOK, CallTypes, ClaimCase, Goto, custody, holds, local, rest
<1>6. ListTypes'
  BY <1>1 DEF IInv, TypeOK, ListTypes, CallTypes, ClaimCase, Goto, custody, holds, local, rest
<1>7. GhostTypes'
  BY <1>1 DEF IInv, TypeOK, GhostTypes, CallTypes, ClaimCase, Goto, custody, holds, local, rest
<1>8. Duty'
  BY <1>1, ActorAssumption DEF IInv, TypeOK, CallTypes, ListTypes, Duty, AtDesk, InStore, ClaimCase,
     Goto, custody, holds, local, rest
<1>9. Aim'
  BY <1>1, ActorAssumption DEF IInv, TypeOK, CallTypes, ListTypes, Duty, Aim, Dying, AtDesk,
     InStore, ClaimCase, Goto, custody, holds, local, rest
<1>10. \A q, s, n : Holds(q, s, n)' <=> Holds(q, s, n) \/ (q = p /\ s = CaseRow(task[p]) /\ n = "share")
  BY Locking DEF ClaimCase, Take
<1>11. /\ \A q, a, n : Holds(q, ApprovalRow(a), n)' <=> Holds(q, ApprovalRow(a), n)
       /\ \A q, b, n : Holds(q, CaseRow(b), n)' <=>
           Holds(q, CaseRow(b), n) \/ (q = p /\ b = task[p] /\ n = "share")
       /\ \A q, c, n : Holds(q, ExhibitRow(c), n)' <=> Holds(q, ExhibitRow(c), n)
  BY LockingCase DEF ClaimCase, Take
<1>12. Exclusive'
  BY <1>1, <1>10, <1>2 DEF IInv, Exclusive
<1>13. LocksAt'
  BY <1>1, <1>11 DEF IInv, TypeOK, CallTypes, ListTypes, Duty, LocksAt, Rows, AtDesk, InStore,
     ClaimCase, Goto, custody, holds, local, rest
<1>14. LocksFor'
  BY <1>1, <1>11, ActorAssumption DEF IInv, TypeOK, CallTypes, ListTypes, Duty, Aim, LocksFor,
     Dying, AtDesk, InStore, ClaimCase, Goto, custody, holds, local, rest
<1>15. Fated'
  BY <1>1 DEF IInv, TypeOK, CallTypes, ListTypes, Duty, Fated, Dying, Held, AtDesk, InStore,
     ClaimCase, Goto, custody, holds, local, rest
<1>16. /\ Missing' /\ Tally' /\ Spent' /\ HeldIsThere' /\ AlarmIsTrue'
      /\ (Cardinality(Lost) <= faults)'
  BY QuietStep DEF IInv, ClaimCase, custody, holds, local, rest
<1>17. QED
  BY <1>3, <1>4, <1>5, <1>6, <1>7, <1>8, <1>9, <1>12, <1>13, <1>14, <1>15, <1>16 DEF IInv, TypeOK

\* The exhibit is locked and asked about again; one that came under a hold is let
\* go.
LEMMA ClaimExhibitInv == ASSUME IInv, NEW p \in Calls, ClaimExhibit(p)
                         PROVE  IInv'
<1> DEFINE x == InOrder(p, todo[p])
<1>1. x \in todo[p] /\ x \in Exhibits /\ ExhibitRow(x) \in Rows
  BY LeastIs DEF ClaimExhibit, IInv, TypeOK, ListTypes, Duty, Rows
<1>2. \A q, n : Holds(q, ExhibitRow(x), n) => q = p
  BY GrantedAlone DEF ClaimExhibit
<1>3. task[p] \in Cases /\ destroyed[p] = {} /\ doomed[p] = {} /\ row[x] # "absent"
  BY <1>1, ActorAssumption DEF ClaimExhibit, IInv, TypeOK, CallTypes, Duty, AtDesk, InStore, Aim
<1> HIDE DEF x
<1>4. RowTypes'
  BY <1>1, <1>3 DEF IInv, TypeOK, RowTypes, ClaimExhibit, Release, Goto, Set, Claimed, MayDestroy,
     custody, holds, x
<1>5. LockTypes'
  <2>1. CASE MayDestroy(x)
    BY <2>1, <1>1, LockingTypes DEF ClaimExhibit, IInv, TypeOK, x
  <2>2. CASE ~MayDestroy(x)
    BY <2>2, ReleasingTypes DEF ClaimExhibit, IInv, TypeOK, x
  <2>3. QED
    BY <2>1, <2>2
<1>6. CallTypes'
  BY <1>1, <1>3 DEF IInv, TypeOK, CallTypes, ClaimExhibit, Release, Goto, Set, Claimed, MayDestroy,
     custody, holds, x
<1>7. ListTypes'
  BY <1>1, <1>3 DEF IInv, TypeOK, ListTypes, CallTypes, ClaimExhibit, Release, Goto, Set, Claimed,
     MayDestroy, custody, holds, x
<1>8. GhostTypes'
  BY <1>1, <1>3 DEF IInv, TypeOK, GhostTypes, CallTypes, ClaimExhibit, Release, Goto, Set, Claimed,
     MayDestroy, custody, holds, x
<1>9. Duty'
  BY <1>1, <1>3, ActorAssumption DEF IInv, TypeOK, CallTypes, ListTypes, Duty, AtDesk, InStore,
     ClaimExhibit, Release, Goto, Set, Claimed, MayDestroy, custody, holds, x
<1>10. Aim'
  BY <1>1, <1>3, ActorAssumption DEF IInv, TypeOK, CallTypes, ListTypes, Duty, Aim, Dying, AtDesk,
     InStore, ClaimExhibit, Release, Goto, Set, Claimed, MayDestroy, custody, holds, x
<1>11. \A q, s, n : Holds(q, s, n)' <=>
        IF MayDestroy(x) THEN Holds(q, s, n) \/ (q = p /\ s = ExhibitRow(x) /\ n = "update")
        ELSE Holds(q, s, n) /\ q # p
  <2>1. CASE MayDestroy(x)
    BY <2>1, Locking DEF ClaimExhibit, x
  <2>2. CASE ~MayDestroy(x)
    BY <2>2, Releasing DEF ClaimExhibit, x
  <2>3. QED
    BY <2>1, <2>2
<1>12. /\ \A q, a, n : Holds(q, ApprovalRow(a), n)' <=>
           Holds(q, ApprovalRow(a), n) /\ (MayDestroy(x) \/ q # p)
       /\ \A q, b, n : Holds(q, CaseRow(b), n)' <=>
           Holds(q, CaseRow(b), n) /\ (MayDestroy(x) \/ q # p)
       /\ \A q, c, n : Holds(q, ExhibitRow(c), n)' <=>
           IF MayDestroy(x) THEN Holds(q, ExhibitRow(c), n) \/ (q = p /\ c = x /\ n = "update")
           ELSE Holds(q, ExhibitRow(c), n) /\ q # p
  <2>1. CASE MayDestroy(x)
    BY <2>1, LockingExhibit DEF ClaimExhibit, x
  <2>2. CASE ~MayDestroy(x)
    BY <2>2, Releasing DEF ClaimExhibit, x
  <2>3. QED
    BY <2>1, <2>2
<1>13. Exclusive'
  BY <1>1, <1>3, <1>11, <1>2 DEF IInv, Exclusive
<1>14. LocksAt'
  BY <1>1, <1>3, <1>12 DEF IInv, TypeOK, CallTypes, ListTypes, Duty, LocksAt, Rows, AtDesk, InStore,
     ClaimExhibit, Release, Goto, Set, Claimed, MayDestroy, custody, holds, x
<1>15. LocksFor'
  BY <1>1, <1>3, <1>12, ActorAssumption DEF IInv, TypeOK, CallTypes, ListTypes, Duty, Aim, LocksFor,
     Dying, AtDesk, InStore, ClaimExhibit, Release, Goto, Set, Claimed, MayDestroy, custody,
     holds, x
<1>16. Fated'
  BY <1>1, <1>3 DEF IInv, TypeOK, CallTypes, ListTypes, Duty, Fated, Dying, Held, AtDesk, InStore,
     ClaimExhibit, Release, Goto, Set, Claimed, MayDestroy, custody, holds, x
<1>17. /\ Missing' /\ Tally' /\ Spent' /\ HeldIsThere' /\ AlarmIsTrue'
      /\ (Cardinality(Lost) <= faults)'
  BY QuietStep DEF IInv, ClaimExhibit, custody, holds
<1>18. QED
  BY <1>4, <1>5, <1>6, <1>7, <1>8, <1>9, <1>10, <1>13, <1>14, <1>15, <1>16, <1>17 DEF IInv, TypeOK

\* A sweep's mark records what the store destroyed under the exhibit's lock.
LEMMA MarkExhibitInv == ASSUME IInv, NEW p \in Calls, MarkExhibit(p)
                        PROVE  IInv'
<1>1. /\ task[p] \in Cases /\ task[p] \notin Requests /\ task[p] # Nobody /\ doomed[p] = {}
      /\ pc[p] = "mark" /\ marked'[p] = marked[p] \cup destroyed[p]
      /\ todo' = todo /\ pc'[p] = "next" /\ destroyed'[p] = {}
  BY ActorAssumption DEF MarkExhibit, Sweeping, IInv, TypeOK, CallTypes, ListTypes, Duty, Goto, Set, Confirmed
<1>2. \A x \in destroyed[p] : /\ x \in Exhibits /\ row[x] = "live" /\ ~Held(x) /\ bytes[x] = "gone"
                              /\ by[x] = task[p]
                              /\ \A q \in Calls : x \notin marked[q] /\ (x \in Dying(q) => q = p)
  BY InOneHand DEF IInv, Fated, Dying
<1>3. /\ \A x \in Exhibits : row'[x] = IF x \in destroyed[p] THEN "purged" ELSE row[x]
      /\ \A q \in Calls : /\ q # p => pc'[q] = pc[q] /\ marked'[q] = marked[q] /\ destroyed'[q] = destroyed[q]
                         /\ Dying(q)' \subseteq Dying(q) /\ marked'[q] \in SUBSET Exhibits
      /\ bytes' = bytes /\ stones' = stones /\ spoilt' = spoilt /\ task' = task /\ item' = item
  BY DEF MarkExhibit, Mark, Confirmed, Dying, IInv, TypeOK, CallTypes, ListTypes, Goto, Set
<1>4. RowTypes'
  BY <1>1, <1>2 DEF IInv, TypeOK, RowTypes, MarkExhibit, Release, Goto, Set, Mark, Confirmed, holds
<1>5. LockTypes'
  BY ReleasingTypes DEF MarkExhibit, IInv, TypeOK
<1>6. CallTypes'
  BY <1>1, <1>2 DEF IInv, TypeOK, CallTypes, MarkExhibit, Release, Goto, Set, Mark, Confirmed, holds
<1>7. ListTypes'
  BY <1>1, <1>2 DEF IInv, TypeOK, ListTypes, CallTypes, MarkExhibit, Release, Goto, Set, Mark,
     Confirmed, holds
<1>8. GhostTypes'
  BY <1>1, <1>2 DEF IInv, TypeOK, GhostTypes, CallTypes, MarkExhibit, Release, Goto, Set, Mark,
     Confirmed, holds
<1>9. Duty'
  BY <1>1, <1>2, ActorAssumption DEF IInv, TypeOK, CallTypes, ListTypes, Duty, AtDesk, InStore,
     MarkExhibit, Release, Goto, Set, Mark, Confirmed, holds
<1>10. Aim'
  BY <1>1, <1>2, <1>3, AimStays
<1>11. \A q, s, n : Holds(q, s, n)' <=> Holds(q, s, n) /\ q # p
  BY Releasing DEF MarkExhibit
<1>12. Exclusive'
  BY <1>1, <1>2, <1>11 DEF IInv, Exclusive
<1>13. LocksAt'
  BY <1>1, <1>2, <1>11 DEF IInv, TypeOK, CallTypes, ListTypes, Duty, LocksAt, Rows, AtDesk, InStore,
     MarkExhibit, Release, Goto, Set, Mark, Confirmed, holds
<1>14. LocksFor'
  BY <1>1, <1>2, <1>11, ActorAssumption DEF IInv, TypeOK, CallTypes, ListTypes, Duty, Aim, LocksFor,
     Dying, AtDesk, InStore, MarkExhibit, Release, Goto, Set, Mark, Confirmed, holds
<1>15. Fated'
  BY <1>1, <1>2 DEF IInv, TypeOK, CallTypes, ListTypes, Duty, Fated, Dying, Held, AtDesk, InStore,
     MarkExhibit, Release, Goto, Set, Mark, Confirmed, holds
<1>16. Missing'
  BY <1>1, <1>2, ActorAssumption DEF IInv, TypeOK, CallTypes, ListTypes, Missing, Fated, Dying,
     Held, Aim, Duty, AtDesk, InStore, MarkExhibit, Release, Goto, Set, Mark, Confirmed, holds
<1>17. Tally'
  <2>1. \A x \in Exhibits : stones'[x] <= 1 /\ (stones'[x] = 1 => row'[x] = "purged")
    BY <1>3 DEF IInv, Tally
  <2>2. \A q \in Calls : \A x \in marked'[q] : row'[x] = "purged" /\ stones'[x] = 0
    <3>1. \A x \in destroyed[p] : row'[x] = "purged" /\ stones'[x] = 0
      BY <1>2, <1>3 DEF IInv, Tally, TypeOK, RowTypes
    <3>2. \A q \in Calls : \A x \in marked[q] : row'[x] = "purged" /\ stones'[x] = 0
      BY <1>3 DEF IInv, Tally, TypeOK, ListTypes
    <3>3. QED
      BY <1>1, <1>3, <3>1, <3>2
  <2>3. \A q, w \in Calls : q # w => marked'[q] \cap marked'[w] = {}
    <3>1. \A q, w \in Calls : q # w => marked[q] \cap marked[w] = {}
      BY DEF IInv, Tally
    <3>2. \A q \in Calls : destroyed[p] \cap marked[q] = {}
      BY <1>2
    <3>3. \A q \in Calls : marked'[q] = IF q = p THEN marked[p] \cup destroyed[p] ELSE marked[q]
      BY <1>1, <1>3
    <3>4. QED
      BY <3>1, <3>2, <3>3
  <2>4. ASSUME NEW x \in Exhibits, row'[x] = "purged", stones'[x] = 0
        PROVE  x \in spoilt' \/ \E q \in Calls : x \in marked'[q]
    <3>1. CASE x \in destroyed[p]
      BY <1>1, <3>1
    <3>2. CASE x \notin destroyed[p]
      <4>1. x \in spoilt \/ \E q \in Calls : x \in marked[q]
        BY <1>3, <2>4, <3>2 DEF IInv, Tally
      <4>2. \A q \in Calls : marked[q] \subseteq marked'[q]
        BY <1>1, <1>3
      <4>3. QED
        BY <1>3, <4>1, <4>2
    <3>3. QED
      BY <3>1, <3>2
  <2>5. QED
    BY <2>1, <2>2, <2>3, <2>4 DEF Tally
<1>18. Spent'
  BY <1>1, <1>2, ActorAssumption DEF IInv, TypeOK, CallTypes, ListTypes, Spent, Fated, Dying, Held,
     Aim, Missing, Duty, AtDesk, InStore, MarkExhibit, Release, Goto, Set, Mark, Confirmed, holds
<1>19. HeldIsThere'
  BY <1>2 DEF IInv, HeldIsThere, TypeOK, RowTypes, Held, MarkExhibit, Mark, Confirmed, holds
<1>20. AlarmIsTrue'
  BY <1>1, <1>2 DEF IInv, TypeOK, CallTypes, ListTypes, AlarmIsTrue, Fated, Dying, Held, Aim,
     Missing, Duty, AtDesk, InStore, MarkExhibit, Release, Goto, Set, Mark, Confirmed, holds
<1>21. \A y \in Exhibits : y \in Lost' => y \in Lost
  BY <1>1, <1>2 DEF IInv, TypeOK, CallTypes, ListTypes, Lost, Fated, Dying, Missing, Duty, AtDesk,
     InStore, MarkExhibit, Release, Goto, Set, Mark, Confirmed, holds
<1>22. (Cardinality(Lost) <= faults)'
  BY <1>21, <1>8, LostStays DEF IInv, TypeOK, GhostTypes, MarkExhibit
<1>23. QED
  BY <1>4, <1>5, <1>6, <1>7, <1>8, <1>9, <1>10, <1>12, <1>13, <1>14, <1>15, <1>16, <1>17, <1>18,
     <1>19, <1>20, <1>21, <1>22 DEF IInv, TypeOK

\* The tombstone counts what the sweep has marked, once.
LEMMA WriteTombstoneInv == ASSUME IInv, NEW p \in Calls, WriteTombstone(p)
                           PROVE  IInv'
<1>1. RowTypes'
  BY DEF IInv, TypeOK, RowTypes, WriteTombstone, Goto, Set, Counted, holds
<1>2. LockTypes'
  BY DEF IInv, TypeOK, LockTypes, Rows, Lock, WriteTombstone, Goto, Set, Counted, holds
<1>3. CallTypes'
  BY DEF IInv, TypeOK, CallTypes, WriteTombstone, Goto, Set, Counted, holds
<1>4. ListTypes'
  BY DEF IInv, TypeOK, ListTypes, CallTypes, WriteTombstone, Goto, Set, Counted, holds
<1>5. GhostTypes'
  BY DEF IInv, TypeOK, GhostTypes, CallTypes, WriteTombstone, Goto, Set, Counted, holds
<1>6. Duty'
  BY ActorAssumption DEF IInv, TypeOK, CallTypes, ListTypes, Duty, AtDesk, InStore, WriteTombstone,
     Goto, Set, Counted, holds
<1>7. Aim'
  BY ActorAssumption DEF IInv, TypeOK, CallTypes, ListTypes, Duty, Aim, Dying, AtDesk, InStore,
     WriteTombstone, Goto, Set, Counted, holds
<1>8. \A q, s, n : Holds(q, s, n)' <=> Holds(q, s, n)
  BY DEF Holds, Lock, WriteTombstone
<1>9. Exclusive'
  BY <1>8 DEF IInv, Exclusive
<1>10. LocksAt'
  BY <1>8 DEF IInv, TypeOK, CallTypes, ListTypes, Duty, LocksAt, Rows, AtDesk, InStore,
     WriteTombstone, Goto, Set, Counted, holds
<1>11. LocksFor'
  BY <1>8, ActorAssumption DEF IInv, TypeOK, CallTypes, ListTypes, Duty, Aim, LocksFor, Dying,
     AtDesk, InStore, WriteTombstone, Goto, Set, Counted, holds
<1>12. Fated'
  BY DEF IInv, TypeOK, CallTypes, ListTypes, Duty, Fated, Dying, Held, AtDesk, InStore,
     WriteTombstone, Goto, Set, Counted, holds
<1>13. Missing'
  BY ActorAssumption DEF IInv, TypeOK, CallTypes, ListTypes, Missing, Fated, Dying, Held, Aim, Duty,
     AtDesk, InStore, WriteTombstone, Goto, Set, Counted, holds
<1>14. Tally'
  BY DEF IInv, TypeOK, CallTypes, ListTypes, Tally, Fated, Dying, Duty, AtDesk, InStore,
     WriteTombstone, Goto, Set, Counted, holds
<1>15. Spent'
  BY ActorAssumption DEF IInv, TypeOK, CallTypes, ListTypes, Spent, Fated, Dying, Held, Aim,
     Missing, Duty, AtDesk, InStore, WriteTombstone, Goto, Set, Counted, holds
<1>16. HeldIsThere'
  BY DEF IInv, TypeOK, CallTypes, ListTypes, HeldIsThere, Fated, Dying, Held, Aim, Duty, AtDesk,
     InStore, WriteTombstone, Goto, Set, Counted, holds
<1>17. AlarmIsTrue'
  BY DEF IInv, TypeOK, CallTypes, ListTypes, AlarmIsTrue, Fated, Dying, Held, Aim, Missing, Duty,
     AtDesk, InStore, WriteTombstone, Goto, Set, Counted, holds
<1>18. \A y \in Exhibits : y \in Lost' => y \in Lost
  BY DEF IInv, TypeOK, CallTypes, ListTypes, Lost, Fated, Dying, Missing, Duty, AtDesk, InStore,
     WriteTombstone, Goto, Set, Counted, holds
<1>19. (Cardinality(Lost) <= faults)'
  BY <1>18, <1>5, LostStays DEF IInv, TypeOK, GhostTypes, WriteTombstone
<1>20. QED
  BY <1>1, <1>2, <1>3, <1>4, <1>5, <1>6, <1>7, <1>9, <1>10, <1>11, <1>12, <1>13, <1>14, <1>15,
     <1>16, <1>17, <1>18, <1>19 DEF IInv, TypeOK

\* The case's records are emptied under its own lock, of the last transaction of a
\* sweep.
LEMMA EmptyRecordsInv == ASSUME IInv, NEW p \in Calls, EmptyRecords(p)
                         PROVE  IInv'
<1>1. task[p] \in Cases
  BY ActorAssumption DEF EmptyRecords, IInv, TypeOK, CallTypes, Duty, AtDesk, InStore
<1>2. RowTypes'
  BY <1>1 DEF IInv, TypeOK, RowTypes, EmptyRecords, Set, Answered, Goto, custody, holds
<1>3. LockTypes'
  BY <1>1 DEF IInv, TypeOK, LockTypes, Rows, Lock, EmptyRecords, Set, Answered, Goto, custody, holds
<1>4. CallTypes'
  BY <1>1 DEF IInv, TypeOK, CallTypes, EmptyRecords, Set, Answered, Goto, custody, holds
<1>5. ListTypes'
  BY <1>1 DEF IInv, TypeOK, ListTypes, CallTypes, EmptyRecords, Set, Answered, Goto, custody, holds
<1>6. GhostTypes'
  BY <1>1 DEF IInv, TypeOK, GhostTypes, CallTypes, EmptyRecords, Set, Answered, Goto, custody, holds
<1>7. Duty'
  BY <1>1, ActorAssumption DEF IInv, TypeOK, CallTypes, ListTypes, Duty, AtDesk, InStore,
     EmptyRecords, Set, Answered, Goto, custody, holds
<1>8. Aim'
  BY <1>1, ActorAssumption DEF IInv, TypeOK, CallTypes, ListTypes, Duty, Aim, Dying, AtDesk,
     InStore, EmptyRecords, Set, Answered, Goto, custody, holds
<1>9. \A q, s, n : Holds(q, s, n)' <=> Holds(q, s, n)
  BY DEF Holds, Lock, EmptyRecords
<1>10. Exclusive'
  BY <1>1, <1>9 DEF IInv, Exclusive
<1>11. LocksAt'
  BY <1>1, <1>9 DEF IInv, TypeOK, CallTypes, ListTypes, Duty, LocksAt, Rows, AtDesk, InStore,
     EmptyRecords, Set, Answered, Goto, custody, holds
<1>12. LocksFor'
  BY <1>1, <1>9, ActorAssumption DEF IInv, TypeOK, CallTypes, ListTypes, Duty, Aim, LocksFor, Dying,
     AtDesk, InStore, EmptyRecords, Set, Answered, Goto, custody, holds
<1>13. Fated'
  BY <1>1 DEF IInv, TypeOK, CallTypes, ListTypes, Duty, Fated, Dying, Held, AtDesk, InStore,
     EmptyRecords, Set, Answered, Goto, custody, holds
<1>14. /\ Missing' /\ Tally' /\ Spent' /\ HeldIsThere' /\ AlarmIsTrue'
      /\ (Cardinality(Lost) <= faults)'
  BY QuietStep DEF IInv, EmptyRecords, Answered, custody, holds
<1>15. QED
  BY <1>2, <1>3, <1>4, <1>5, <1>6, <1>7, <1>8, <1>10, <1>11, <1>12, <1>13, <1>14 DEF IInv, TypeOK

-----------------------------------------------------------------------------
(* Purges under an approval *)

\* A purge begins with what its approval names, and nothing locked.
LEMMA BeginPurgeInv == ASSUME IInv, NEW p \in Calls, NEW r \in Requests, BeginPurge(p, r)
                       PROVE  IInv'
<1>1. RowTypes'
  BY DEF IInv, TypeOK, RowTypes, BeginPurge, Goto, Set, custody, holds, local, rest
<1>2. LockTypes'
  BY DEF IInv, TypeOK, LockTypes, Rows, Lock, BeginPurge, Goto, Set, custody, holds, local, rest
<1>3. CallTypes'
  BY DEF IInv, TypeOK, CallTypes, BeginPurge, Goto, Set, custody, holds, local, rest
<1>4. ListTypes'
  BY DEF IInv, TypeOK, ListTypes, CallTypes, BeginPurge, Goto, Set, custody, holds, local, rest
<1>5. GhostTypes'
  BY DEF IInv, TypeOK, GhostTypes, CallTypes, BeginPurge, Goto, Set, custody, holds, local, rest
<1>6. Duty'
  BY ActorAssumption DEF IInv, TypeOK, CallTypes, ListTypes, Duty, AtDesk, InStore, BeginPurge,
     Goto, Set, custody, holds, local, rest
<1>7. Aim'
  BY ActorAssumption DEF IInv, TypeOK, CallTypes, ListTypes, Duty, Aim, Dying, AtDesk, InStore,
     BeginPurge, Goto, Set, custody, holds, local, rest
<1>8. \A q, s, n : Holds(q, s, n)' <=> Holds(q, s, n)
  BY DEF Holds, Lock, BeginPurge
<1>9. Exclusive'
  BY <1>8 DEF IInv, Exclusive
<1>10. LocksAt'
  BY <1>8 DEF IInv, TypeOK, CallTypes, ListTypes, Duty, LocksAt, Rows, AtDesk, InStore, BeginPurge,
     Goto, Set, custody, holds, local, rest
<1>11. LocksFor'
  BY <1>8, ActorAssumption DEF IInv, TypeOK, CallTypes, ListTypes, Duty, Aim, LocksFor, Dying,
     AtDesk, InStore, BeginPurge, Goto, Set, custody, holds, local, rest
<1>12. Fated'
  BY DEF IInv, TypeOK, CallTypes, ListTypes, Duty, Fated, Dying, Held, AtDesk, InStore, BeginPurge,
     Goto, Set, custody, holds, local, rest
<1>13. /\ Missing' /\ Tally' /\ Spent' /\ HeldIsThere' /\ AlarmIsTrue'
      /\ (Cardinality(Lost) <= faults)'
  BY QuietStep DEF IInv, BeginPurge, custody, holds, local, rest
<1>14. QED
  BY <1>1, <1>2, <1>3, <1>4, <1>5, <1>6, <1>7, <1>9, <1>10, <1>11, <1>12, <1>13 DEF IInv, TypeOK

\* A spent approval is turned away; another is locked.
LEMMA LockApprovalInv == ASSUME IInv, NEW p \in Calls, LockApproval(p)
                         PROVE  IInv'
<1>1. task[p] \in Requests /\ ApprovalRow(task[p]) \in Rows
  BY ActorAssumption DEF LockApproval, IInv, TypeOK, CallTypes, Duty, AtDesk, InStore, Rows
<1>2. \A q, n : Holds(q, ApprovalRow(task[p]), n) => q = p
  BY GrantedAlone DEF LockApproval
<1>3. RowTypes'
  BY <1>1 DEF IInv, TypeOK, RowTypes, LockApproval, Goto, Answered, Set, Unspent, custody, holds,
     local, rest
<1>4. LockTypes'
  <2>1. CASE Unspent(task[p])
    BY <1>1, <2>1, LockingTypes DEF LockApproval, IInv, TypeOK
  <2>2. CASE ~Unspent(task[p])
    BY <2>2 DEF LockApproval, IInv, TypeOK, LockTypes, Rows, CaseRow, ExhibitRow, ApprovalRow
  <2>3. QED
    BY <2>1, <2>2
<1>5. CallTypes'
  BY <1>1 DEF IInv, TypeOK, CallTypes, LockApproval, Goto, Answered, Set, Unspent, custody, holds,
     local, rest
<1>6. ListTypes'
  BY <1>1 DEF IInv, TypeOK, ListTypes, CallTypes, LockApproval, Goto, Answered, Set, Unspent,
     custody, holds, local, rest
<1>7. GhostTypes'
  BY <1>1 DEF IInv, TypeOK, GhostTypes, CallTypes, LockApproval, Goto, Answered, Set, Unspent,
     custody, holds, local, rest
<1>8. Duty'
  BY <1>1, ActorAssumption DEF IInv, TypeOK, CallTypes, ListTypes, Duty, AtDesk, InStore,
     LockApproval, Goto, Answered, Set, Unspent, custody, holds, local, rest
<1>9. Aim'
  BY <1>1, ActorAssumption DEF IInv, TypeOK, CallTypes, ListTypes, Duty, Aim, Dying, AtDesk,
     InStore, LockApproval, Goto, Answered, Set, Unspent, custody, holds, local, rest
<1>10. \A q, s, n : Holds(q, s, n)' <=>
        Holds(q, s, n) \/ (q = p /\ s = ApprovalRow(task[p]) /\ n = "update" /\ Unspent(task[p]))
  <2>1. CASE Unspent(task[p])
    BY <2>1, Locking DEF LockApproval
  <2>2. CASE ~Unspent(task[p])
    BY <2>2 DEF LockApproval, Holds, Lock
  <2>3. QED
    BY <2>1, <2>2
<1>11. /\ \A q, a, n : Holds(q, ApprovalRow(a), n)' <=>
           Holds(q, ApprovalRow(a), n) \/ (q = p /\ a = task[p] /\ n = "update" /\ Unspent(task[p]))
       /\ \A q, b, n : Holds(q, CaseRow(b), n)' <=> Holds(q, CaseRow(b), n)
       /\ \A q, c, n : Holds(q, ExhibitRow(c), n)' <=> Holds(q, ExhibitRow(c), n)
  <2>1. CASE Unspent(task[p])
    BY <2>1, LockingApproval DEF LockApproval
  <2>2. CASE ~Unspent(task[p])
    BY <2>2 DEF LockApproval, Holds, Lock
  <2>3. QED
    BY <2>1, <2>2
<1>12. Exclusive'
  BY <1>1, <1>10, <1>2 DEF IInv, Exclusive
<1>13. LocksAt'
  BY <1>1, <1>11 DEF IInv, TypeOK, CallTypes, ListTypes, Duty, LocksAt, Rows, AtDesk, InStore,
     LockApproval, Goto, Answered, Set, Unspent, custody, holds, local, rest
<1>14. LocksFor'
  BY <1>1, <1>11, ActorAssumption DEF IInv, TypeOK, CallTypes, ListTypes, Duty, Aim, LocksFor,
     Dying, AtDesk, InStore, LockApproval, Goto, Answered, Set, Unspent, custody, holds, local,
     rest
<1>15. Fated'
  BY <1>1 DEF IInv, TypeOK, CallTypes, ListTypes, Duty, Fated, Dying, Held, AtDesk, InStore,
     LockApproval, Goto, Answered, Set, Unspent, custody, holds, local, rest
<1>16. /\ Missing' /\ Tally' /\ Spent' /\ HeldIsThere' /\ AlarmIsTrue'
      /\ (Cardinality(Lost) <= faults)'
  BY QuietStep DEF IInv, LockApproval, Answered, custody, holds, local, rest
<1>17. QED
  BY <1>3, <1>4, <1>5, <1>6, <1>7, <1>8, <1>9, <1>12, <1>13, <1>14, <1>15, <1>16 DEF IInv, TypeOK

\* A purge locks its exhibits' one case after its approval.
LEMMA LockCaseInv == ASSUME IInv, NEW p \in Calls, LockCase(p)
                     PROVE  IInv'
<1> DEFINE k == CaseOf[CHOOSE x \in Batch[task[p]] : TRUE]
<1>1. task[p] \in Requests /\ k \in Cases /\ CaseRow(k) \in Rows /\ Batch[task[p]] \in SUBSET Exhibits
      /\ \A x \in Batch[task[p]] : CaseOf[x] = k
  <2>1. task[p] \in Requests
    BY ActorAssumption DEF LockCase, IInv, TypeOK, CallTypes, Duty, AtDesk, InStore
  <2>2. Batch[task[p]] # {} /\ Batch[task[p]] \in SUBSET Exhibits
    BY <2>1, RequestAssumption
  <2>3. (CHOOSE x \in Batch[task[p]] : TRUE) \in Batch[task[p]]
    BY <2>2
  <2>4. QED
    BY <2>1, <2>2, <2>3, RequestAssumption, ExhibitAssumption DEF Rows
<1>2. \A q : Holds(q, CaseRow(k), "update") => q = p
  BY GrantedShare DEF LockCase, Take
<1> HIDE DEF k
<1>3. RowTypes'
  BY <1>1 DEF IInv, TypeOK, RowTypes, LockCase, Goto, Set, custody, holds
<1>4. LockTypes'
  BY <1>1, LockingTypes DEF LockCase, Take, IInv, TypeOK, k
<1>5. CallTypes'
  BY <1>1 DEF IInv, TypeOK, CallTypes, LockCase, Goto, Set, custody, holds
<1>6. ListTypes'
  BY <1>1 DEF IInv, TypeOK, ListTypes, CallTypes, LockCase, Goto, Set, custody, holds
<1>7. GhostTypes'
  BY <1>1 DEF IInv, TypeOK, GhostTypes, CallTypes, LockCase, Goto, Set, custody, holds
<1>8. Duty'
  BY <1>1, ActorAssumption DEF IInv, TypeOK, CallTypes, ListTypes, Duty, AtDesk, InStore, LockCase,
     Goto, Set, custody, holds
<1>9. Aim'
  BY <1>1, ActorAssumption DEF IInv, TypeOK, CallTypes, ListTypes, Duty, Aim, Dying, AtDesk,
     InStore, LockCase, Goto, Set, custody, holds
<1>10. \A q, s, n : Holds(q, s, n)' <=> Holds(q, s, n) \/ (q = p /\ s = CaseRow(k) /\ n = "share")
  BY Locking DEF LockCase, k, Take
<1>11. /\ \A q, a, n : Holds(q, ApprovalRow(a), n)' <=> Holds(q, ApprovalRow(a), n)
       /\ \A q, b, n : Holds(q, CaseRow(b), n)' <=>
           Holds(q, CaseRow(b), n) \/ (q = p /\ b = k /\ n = "share")
       /\ \A q, c, n : Holds(q, ExhibitRow(c), n)' <=> Holds(q, ExhibitRow(c), n)
  BY <1>10, RowIs
<1>12. Exclusive'
  BY <1>1, <1>10, <1>2 DEF IInv, Exclusive
<1>13. LocksAt'
  BY <1>1, <1>11 DEF IInv, TypeOK, CallTypes, ListTypes, Duty, LocksAt, Rows, AtDesk, InStore,
     LockCase, Goto, Set, custody, holds
<1>14. LocksFor'
  BY <1>1, <1>11, ActorAssumption DEF IInv, TypeOK, CallTypes, ListTypes, Duty, Aim, LocksFor,
     Dying, AtDesk, InStore, LockCase, Goto, Set, custody, holds
<1>15. Fated'
  BY <1>1 DEF IInv, TypeOK, CallTypes, ListTypes, Duty, Fated, Dying, Held, AtDesk, InStore,
     LockCase, Goto, Set, custody, holds
<1>16. /\ Missing' /\ Tally' /\ Spent' /\ HeldIsThere' /\ AlarmIsTrue'
      /\ (Cardinality(Lost) <= faults)'
  BY QuietStep DEF IInv, LockCase, custody, holds
<1>17. QED
  BY <1>3, <1>4, <1>5, <1>6, <1>7, <1>8, <1>9, <1>12, <1>13, <1>14, <1>15, <1>16 DEF IInv, TypeOK

\* A purge locks the exhibits of its batch in the order of their ids.
LEMMA LockRowInv == ASSUME IInv, NEW p \in Calls, LockRow(p)
                    PROVE  IInv'
<1> DEFINE x == InOrder(p, todo[p])
<1>1. x \in todo[p] /\ x \in Exhibits /\ ExhibitRow(x) \in Rows /\ \A y \in todo[p] \ {x} : x < y
  <2>1. x \in todo[p] /\ todo[p] \subseteq Exhibits /\ \A y \in todo[p] : x <= y
    BY LeastIs DEF LockRow, IInv, TypeOK, ListTypes
  <2>2. \A y \in todo[p] : y \in Nat
    BY <2>1, ExhibitAssumption
  <2>3. QED
    BY <2>1, <2>2 DEF Rows
<1>2. \A q, n : Holds(q, ExhibitRow(x), n) => q = p
  BY GrantedAlone DEF LockRow, Take
<1>3. task[p] \in Requests /\ row[x] # "absent"
  BY <1>1, ActorAssumption DEF LockRow, IInv, TypeOK, CallTypes, Duty, AtDesk, InStore, Aim
<1> HIDE DEF x
<1>4. RowTypes'
  BY <1>1, <1>3 DEF IInv, TypeOK, RowTypes, LockRow, Set, custody, holds, x
<1>5. LockTypes'
  BY <1>1, LockingTypes DEF LockRow, Take, IInv, TypeOK, x
<1>6. CallTypes'
  BY <1>1, <1>3 DEF IInv, TypeOK, CallTypes, LockRow, Set, custody, holds, x
<1>7. ListTypes'
  BY <1>1, <1>3 DEF IInv, TypeOK, ListTypes, CallTypes, LockRow, Set, custody, holds, x
<1>8. GhostTypes'
  BY <1>1, <1>3 DEF IInv, TypeOK, GhostTypes, CallTypes, LockRow, Set, custody, holds, x
<1>9. Duty'
  BY <1>1, <1>3, ActorAssumption DEF IInv, TypeOK, CallTypes, ListTypes, Duty, AtDesk, InStore,
     LockRow, Set, custody, holds, x
<1>10. Aim'
  BY <1>1, <1>3, ActorAssumption DEF IInv, TypeOK, CallTypes, ListTypes, Duty, Aim, Dying, AtDesk,
     InStore, LockRow, Set, custody, holds, x
<1>11. \A q, s, n : Holds(q, s, n)' <=> Holds(q, s, n) \/ (q = p /\ s = ExhibitRow(x) /\ n = "update")
  BY Locking DEF LockRow, x, Take
<1>12. /\ \A q, a, n : Holds(q, ApprovalRow(a), n)' <=> Holds(q, ApprovalRow(a), n)
       /\ \A q, b, n : Holds(q, CaseRow(b), n)' <=> Holds(q, CaseRow(b), n)
       /\ \A q, c, n : Holds(q, ExhibitRow(c), n)' <=>
           Holds(q, ExhibitRow(c), n) \/ (q = p /\ c = x /\ n = "update")
  BY LockingExhibit DEF LockRow, Take, x
<1>13. Exclusive'
  BY <1>1, <1>3, <1>11, <1>2 DEF IInv, Exclusive
<1>14. LocksAt'
  BY <1>1, <1>3, <1>12 DEF IInv, TypeOK, CallTypes, ListTypes, Duty, LocksAt, Rows, AtDesk, InStore,
     LockRow, Set, custody, holds, x
<1>15. LocksFor'
  BY <1>1, <1>3, <1>12, ActorAssumption DEF IInv, TypeOK, CallTypes, ListTypes, Duty, Aim, LocksFor,
     Dying, AtDesk, InStore, LockRow, Set, custody, holds, x
<1>16. Fated'
  BY <1>1, <1>3 DEF IInv, TypeOK, CallTypes, ListTypes, Duty, Fated, Dying, Held, AtDesk, InStore,
     LockRow, Set, custody, holds, x
<1>17. /\ Missing' /\ Tally' /\ Spent' /\ HeldIsThere' /\ AlarmIsTrue'
      /\ (Cardinality(Lost) <= faults)'
  BY QuietStep DEF IInv, LockRow, custody, holds
<1>18. QED
  BY <1>4, <1>5, <1>6, <1>7, <1>8, <1>9, <1>10, <1>13, <1>14, <1>15, <1>16, <1>17 DEF IInv, TypeOK

\* The holds are read again under the locks: one held exhibit ends the purge, and
\* else what is live is doomed.
LEMMA RereadHoldsInv == ASSUME IInv, NEW p \in Calls, RereadHolds(p)
                        PROVE  IInv'
<1>1. /\ task[p] \in Requests /\ Batch[task[p]] \in SUBSET Exhibits /\ destroyed[p] = {} /\ doomed[p] = {}
      /\ \A x \in Batch[task[p]] : Holds(p, ExhibitRow(x), "update")
  BY RequestAssumption, ActorAssumption DEF RereadHolds, IInv, TypeOK, CallTypes, Duty, AtDesk, InStore, LocksFor
<1> DEFINE left == {x \in Batch[task[p]] : row[x] = "live"}
           held == \E x \in left : ~MayDestroy(x)
<1>2. /\ held => Release(p) /\ UNCHANGED doomed
      /\ ~held => /\ \A x \in left : row[x] = "live" /\ ~Held(x)
                  /\ UNCHANGED <<task, locks>>
  BY DEF RereadHolds, MayDestroy
<1> HIDE DEF held
<1>3. RowTypes'
  BY <1>1, <1>2 DEF IInv, TypeOK, RowTypes, RereadHolds, Release, Goto, Set, Answered, MayDestroy,
     custody, holds, held
<1>4. LockTypes'
  <2>1. CASE held
    BY <1>2, <2>1, ReleasingTypes DEF IInv, TypeOK
  <2>2. CASE ~held
    BY <1>2, <2>2 DEF IInv, TypeOK, LockTypes, Rows, CaseRow, ExhibitRow, ApprovalRow
  <2>3. QED
    BY <2>1, <2>2
<1>5. CallTypes'
  BY <1>1, <1>2 DEF IInv, TypeOK, CallTypes, RereadHolds, Release, Goto, Set, Answered, MayDestroy,
     custody, holds, held
<1>6. ListTypes'
  BY <1>1, <1>2 DEF IInv, TypeOK, ListTypes, CallTypes, RereadHolds, Release, Goto, Set, Answered,
     MayDestroy, custody, holds, held
<1>7. GhostTypes'
  BY <1>1, <1>2 DEF IInv, TypeOK, GhostTypes, CallTypes, RereadHolds, Release, Goto, Set, Answered,
     MayDestroy, custody, holds, held
<1>8. Duty'
  BY <1>1, <1>2, ActorAssumption DEF IInv, TypeOK, CallTypes, ListTypes, Duty, AtDesk, InStore,
     RereadHolds, Release, Goto, Set, Answered, MayDestroy, custody, holds, held
<1>9. Aim'
  BY <1>1, <1>2, ActorAssumption DEF IInv, TypeOK, CallTypes, ListTypes, Duty, Aim, Dying, AtDesk,
     InStore, RereadHolds, Release, Goto, Set, Answered, MayDestroy, custody, holds, held
<1>10. \A q, s, n : Holds(q, s, n)' <=> Holds(q, s, n) /\ (held => q # p)
  <2>1. CASE held
    BY <1>2, <2>1, Releasing
  <2>2. CASE ~held
    BY <1>2, <2>2 DEF Holds, Lock
  <2>3. QED
    BY <2>1, <2>2
<1>11. Exclusive'
  BY <1>1, <1>2, <1>10 DEF IInv, Exclusive
<1>12. LocksAt'
  BY <1>1, <1>2, <1>10 DEF IInv, TypeOK, CallTypes, ListTypes, Duty, LocksAt, Rows, AtDesk, InStore,
     RereadHolds, Release, Goto, Set, Answered, MayDestroy, custody, holds, held
<1>13. LocksFor'
  BY <1>1, <1>2, <1>10, ActorAssumption DEF IInv, TypeOK, CallTypes, ListTypes, Duty, Aim, LocksFor,
     Dying, AtDesk, InStore, RereadHolds, Release, Goto, Set, Answered, MayDestroy, custody,
     holds, held
<1>14. Fated'
  BY <1>1, <1>2 DEF IInv, TypeOK, CallTypes, ListTypes, Duty, Fated, Dying, Held, AtDesk, InStore,
     RereadHolds, Release, Goto, Set, Answered, MayDestroy, custody, holds, held
<1>15. /\ Missing' /\ Tally' /\ Spent' /\ HeldIsThere' /\ AlarmIsTrue'
      /\ (Cardinality(Lost) <= faults)'
  BY QuietStep DEF IInv, RereadHolds, Answered, custody, holds
<1>16. QED
  BY <1>3, <1>4, <1>5, <1>6, <1>7, <1>8, <1>9, <1>11, <1>12, <1>13, <1>14, <1>15 DEF IInv, TypeOK

\* The marks of a purge, its approval's spending and its tombstone are one commit.
LEMMA SpendInv == ASSUME IInv, NEW p \in Calls, Spend(p)
                  PROVE  IInv'
<1>1. /\ task[p] \in Requests /\ task[p] \notin Cases /\ task[p] # Nobody /\ doomed[p] = {}
      /\ pc[p] = "mark" /\ todo' = todo /\ pc'[p] = "idle" /\ destroyed'[p] = {}
      /\ todo[p] = {} /\ marked[p] = {} /\ destroyed[p] \subseteq Batch[task[p]]
  BY ActorAssumption DEF Spend, Sweeping, IInv, TypeOK, CallTypes, ListTypes, Duty, AtDesk, InStore,
     Goto, Set, Answered, Aim, Dying
<1>2. \A x \in destroyed[p] : /\ x \in Exhibits /\ row[x] = "live" /\ ~Held(x) /\ bytes[x] = "gone"
                              /\ by[x] = task[p]
                              /\ \A q \in Calls : x \notin marked[q] /\ (x \in Dying(q) => q = p)
  BY InOneHand DEF IInv, Fated, Dying
<1>3. /\ \A x \in Exhibits : /\ row'[x] = IF x \in destroyed[p] THEN "purged" ELSE row[x]
                            /\ stones'[x] = IF x \in destroyed[p] THEN stones[x] + 1 ELSE stones[x]
      /\ \A q \in Calls : /\ q # p => pc'[q] = pc[q] /\ task'[q] = task[q] /\ destroyed'[q] = destroyed[q]
                         /\ Dying(q)' \subseteq Dying(q)
      /\ task'[p] = Nobody
      /\ bytes' = bytes /\ marked' = marked /\ spoilt' = spoilt /\ item' = item
  BY DEF Spend, Mark, Confirmed, Counted, Dying, IInv, TypeOK, CallTypes, ListTypes, Goto, Set, Answered
<1>4. \A q \in Calls : task[q] = task[p] /\ q # p => pc[q] = "approval"
  <2>1. ApprovalRow(task[p]) \in Rows /\ Holds(p, ApprovalRow(task[p]), "update")
    BY <1>1 DEF IInv, LocksFor, Rows, InStore
  <2>2. ASSUME NEW q \in Calls, task[q] = task[p], pc[q] # "approval" PROVE q = p
    <3>1. pc[q] \in {"case", "rows"} \cup InStore
      BY <1>1, <2>2 DEF IInv, Duty
    <3>2. Holds(q, ApprovalRow(task[p]), "update")
      BY <1>1, <2>2, <3>1 DEF IInv, LocksFor
    <3>3. QED
      BY <2>1, <3>2 DEF IInv, Exclusive
  <2>3. QED
    BY <2>2
<1>5. \A r \in Requests : approval'[r] = IF r = task[p] THEN "CONSUMED" ELSE approval[r]
  BY <1>1 DEF Spend, Set, IInv, TypeOK, RowTypes
<1>6. RowTypes'
  BY <1>1, <1>2, <1>3, <1>4, <1>5 DEF IInv, TypeOK, RowTypes, Spend, Release, Set, Answered, Goto,
     Mark, Confirmed, Counted, holds
<1>7. LockTypes'
  BY ReleasingTypes DEF Spend, IInv, TypeOK
<1>8. CallTypes'
  BY <1>1, <1>2, <1>3, <1>4, <1>5 DEF IInv, TypeOK, CallTypes, Spend, Release, Set, Answered, Goto,
     Mark, Confirmed, Counted, holds
<1>9. ListTypes'
  BY <1>1, <1>2, <1>3, <1>4, <1>5 DEF IInv, TypeOK, ListTypes, CallTypes, Spend, Release, Set,
     Answered, Goto, Mark, Confirmed, Counted, holds
<1>10. GhostTypes'
  BY <1>1, <1>2, <1>3, <1>4, <1>5 DEF IInv, TypeOK, GhostTypes, CallTypes, Spend, Release, Set,
     Answered, Goto, Mark, Confirmed, Counted, holds
<1>11. Duty'
  BY <1>1, <1>2, <1>3, <1>4, <1>5, ActorAssumption DEF IInv, TypeOK, CallTypes, ListTypes, Duty,
     AtDesk, InStore, Spend, Release, Set, Answered, Goto, Mark, Confirmed, Counted, holds
<1>12. Aim'
  BY <1>1, <1>2, <1>3, AimStays
<1>13. \A q, s, n : Holds(q, s, n)' <=> Holds(q, s, n) /\ q # p
  BY Releasing DEF Spend
<1>14. Exclusive'
  BY <1>1, <1>2, <1>3, <1>4, <1>5, <1>13 DEF IInv, Exclusive
<1>15. LocksAt'
  BY <1>1, <1>2, <1>3, <1>4, <1>5, <1>13 DEF IInv, TypeOK, CallTypes, ListTypes, Duty, LocksAt,
     Rows, AtDesk, InStore, Spend, Release, Set, Answered, Goto, Mark, Confirmed, Counted, holds
<1>16. LocksFor'
  BY <1>1, <1>2, <1>3, <1>4, <1>5, <1>13, ActorAssumption DEF IInv, TypeOK, CallTypes, ListTypes,
     Duty, Aim, LocksFor, Dying, AtDesk, InStore, Spend, Release, Set, Answered, Goto, Mark,
     Confirmed, Counted, holds
<1>17. Fated'
  BY <1>1, <1>2, <1>3, <1>4, <1>5 DEF IInv, TypeOK, CallTypes, ListTypes, Duty, Fated, Dying, Held,
     AtDesk, InStore, Spend, Release, Set, Answered, Goto, Mark, Confirmed, Counted, holds
<1>18. Missing'
  BY <1>1, <1>2, <1>3, <1>4, <1>5, ActorAssumption DEF IInv, TypeOK, CallTypes, ListTypes, Missing,
     Fated, Dying, Held, Aim, Duty, AtDesk, InStore, Spend, Release, Set, Answered, Goto, Mark,
     Confirmed, Counted, holds
<1>19. Tally'
  <2>1. \A x \in Exhibits : stones[x] \in Nat /\ (row[x] = "live" => stones[x] = 0)
    BY DEF IInv, Tally, TypeOK, RowTypes
  <2>2. \A x \in Exhibits : stones'[x] <= 1 /\ (stones'[x] = 1 => row'[x] = "purged")
    BY <1>2, <1>3, <2>1 DEF IInv, Tally
  <2>3. \A q \in Calls : \A x \in marked'[q] : row'[x] = "purged" /\ stones'[x] = 0
    <3>1. \A q \in Calls : \A x \in marked[q] : x \in Exhibits /\ x \notin destroyed[p]
      BY <1>2 DEF IInv, TypeOK, ListTypes
    <3>2. QED
      BY <1>3, <3>1 DEF IInv, Tally
  <2>4. \A q, w \in Calls : q # w => marked'[q] \cap marked'[w] = {}
    BY <1>3 DEF IInv, Tally
  <2>5. \A x \in Exhibits : row'[x] = "purged" /\ stones'[x] = 0 =>
           x \in spoilt' \/ \E q \in Calls : x \in marked'[q]
    BY <1>2, <1>3, <2>1 DEF IInv, Tally
  <2>6. QED
    BY <2>2, <2>3, <2>4, <2>5 DEF Tally
<1>20. Spent'
  <2> SUFFICES ASSUME NEW x \in Exhibits, row'[x] = "purged", by[x] \in Requests
               PROVE  x \in Batch[by[x]] /\ approval'[by[x]] = "CONSUMED"
    BY DEF Spent, Spend
  <2>1. CASE x \in destroyed[p]
    BY <1>1, <1>2, <1>5, <2>1
  <2>2. CASE x \notin destroyed[p]
    BY <1>3, <1>5, <2>2 DEF IInv, Spent
  <2>3. QED
    BY <2>1, <2>2
<1>21. HeldIsThere'
  BY <1>2 DEF IInv, HeldIsThere, TypeOK, RowTypes, Held, Spend, Mark, Confirmed, holds
<1>22. AlarmIsTrue'
  BY <1>1, <1>2, <1>3, <1>4, <1>5 DEF IInv, TypeOK, CallTypes, ListTypes, AlarmIsTrue, Fated, Dying,
     Held, Aim, Missing, Duty, AtDesk, InStore, Spend, Release, Set, Answered, Goto, Mark,
     Confirmed, Counted, holds
<1>23. \A y \in Exhibits : y \in Lost' => y \in Lost
  BY <1>1, <1>2, <1>3, <1>4, <1>5 DEF IInv, TypeOK, CallTypes, ListTypes, Lost, Fated, Dying,
     Missing, Duty, AtDesk, InStore, Spend, Release, Set, Answered, Goto, Mark, Confirmed,
     Counted, holds
<1>24. (Cardinality(Lost) <= faults)'
  BY <1>23, <1>10, LostStays DEF IInv, TypeOK, GhostTypes, Spend
<1>25. QED
  BY <1>6, <1>7, <1>8, <1>9, <1>10, <1>11, <1>12, <1>14, <1>15, <1>16, <1>17, <1>18, <1>19,
     <1>20, <1>21, <1>22, <1>23, <1>24 DEF IInv, TypeOK

-----------------------------------------------------------------------------
(* The store *)

\* The store destroys one live exhibit nobody holds; its answer may be lost.
LEMMA StoreDestroysInv == ASSUME IInv, NEW p \in Calls, StoreDestroys(p)
                          PROVE  IInv'
<1> DEFINE x == InOrder(p, doomed[p])
<1>1. x \in doomed[p] /\ x \in Dying(p) /\ task[p] # Nobody /\ x \notin destroyed[p]
  <2>1. x \in doomed[p] /\ task[p] # Nobody
    BY LeastIs DEF StoreDestroys, IInv, TypeOK, ListTypes, Duty, AtDesk
  <2>2. x \notin destroyed[p]
    BY DEF StoreDestroys, IInv, Fated
  <2>3. QED
    BY <2>1, <2>2 DEF Dying
<1>2. /\ x \in Exhibits /\ row[x] = "live" /\ ~Held(x)
      /\ \A q \in Calls : x \notin marked[q] /\ (x \in Dying(q) => q = p)
  BY <1>1, InOneHand
<1> HIDE DEF x
<1>3. /\ bytes[x] = "stored" /\ bytes' = [bytes EXCEPT ![x] = "gone"] /\ by' = [by EXCEPT ![x] = task[p]]
      /\ doomed' = [doomed EXCEPT ![p] = doomed[p] \ {x}] /\ \A q \in Calls : q # p => pc'[q] = pc[q]
      /\ pc[p] = "delete" /\ pc'[p] = IF doomed[p] = {x} THEN "mark" ELSE "delete"
      /\ UNCHANGED <<row, stones, orphans, alarms, misled, hold, caseHold, approval, task, item, todo, marked>>
      /\ \/ destroyed' = [destroyed EXCEPT ![p] = destroyed[p] \cup {x}] /\ UNCHANGED <<spoilt, faults>>
         \/ /\ faults < MaxFaults /\ faults' = faults + 1 /\ spoilt' = spoilt \cup {x}
            /\ UNCHANGED destroyed
  BY DEF StoreDestroys, AfterDelete, Goto, Set, x, IInv, TypeOK, CallTypes, holds
<1>4. \A q \in Calls : /\ q # p => destroyed'[q] = destroyed[q] /\ doomed'[q] = doomed[q]
                       /\ destroyed[q] \subseteq destroyed'[q]
  BY <1>3 DEF IInv, TypeOK, ListTypes
<1>5. destroyed'[p] \subseteq destroyed[p] \cup {x} /\ doomed'[p] \subseteq doomed[p]
  BY <1>3 DEF IInv, TypeOK, ListTypes
<1>6. \A q \in Calls : Dying(q)' \subseteq Dying(q)
  BY <1>1, <1>4, <1>5 DEF Dying
<1>7. \A y \in Exhibits : /\ bytes'[y] = IF y = x THEN "gone" ELSE bytes[y]
                          /\ by'[y] = IF y = x THEN task[p] ELSE by[y]
  BY <1>3 DEF IInv, TypeOK, RowTypes, GhostTypes
<1>8. \A y \in Exhibits : Held(y)' <=> Held(y)
  BY <1>3 DEF Held
<1>9. RowTypes'
  BY <1>1, <1>2, <1>3 DEF IInv, TypeOK, RowTypes, StoreDestroys, Set, AfterDelete, Goto, holds, x
<1>10. LockTypes'
  BY <1>1, <1>2, <1>3 DEF IInv, TypeOK, LockTypes, Rows, Lock, StoreDestroys, Set, AfterDelete,
     Goto, holds, x
<1>11. CallTypes'
  BY <1>1, <1>2, <1>3 DEF IInv, TypeOK, CallTypes, StoreDestroys, Set, AfterDelete, Goto, holds, x
<1>12. ListTypes'
  BY <1>1, <1>2, <1>3 DEF IInv, TypeOK, ListTypes, CallTypes, StoreDestroys, Set, AfterDelete, Goto,
     holds, x
<1>13. GhostTypes'
  BY <1>1, <1>2, <1>3, ActorAssumption DEF IInv, TypeOK, GhostTypes, CallTypes, StoreDestroys, Set,
     AfterDelete, Goto, holds, x
<1>14. Duty'
  BY <1>1, <1>2, <1>3, ActorAssumption DEF IInv, TypeOK, CallTypes, ListTypes, Duty, AtDesk,
     InStore, StoreDestroys, Set, AfterDelete, Goto, holds, x
<1>15. Aim'
  BY <1>1, <1>2, <1>3, ActorAssumption DEF IInv, TypeOK, CallTypes, ListTypes, Duty, Aim, Dying,
     AtDesk, InStore, StoreDestroys, Set, AfterDelete, Goto, holds, x
<1>16. \A q, s, n : Holds(q, s, n)' <=> Holds(q, s, n)
  BY DEF Holds, Lock, StoreDestroys, AfterDelete
<1>17. Exclusive'
  BY <1>1, <1>2, <1>3, <1>16 DEF IInv, Exclusive
<1>18. LocksAt'
  BY <1>1, <1>2, <1>3, <1>16 DEF IInv, TypeOK, CallTypes, ListTypes, Duty, LocksAt, Rows, AtDesk,
     InStore, StoreDestroys, Set, AfterDelete, Goto, holds, x
<1>19. LocksFor'
  BY <1>1, <1>2, <1>3, <1>16, ActorAssumption DEF IInv, TypeOK, CallTypes, ListTypes, Duty, Aim,
     LocksFor, Dying, AtDesk, InStore, StoreDestroys, Set, AfterDelete, Goto, holds, x
<1>20. Fated'
  <2>1. ASSUME NEW q \in Calls, NEW y \in Dying(q)' PROVE row'[y] = "live" /\ ~Held(y)'
    BY <1>3, <1>6, <1>8, InOneHand
  <2>2. ASSUME NEW q \in Calls, NEW y \in destroyed'[q] PROVE bytes'[y] = "gone" /\ by'[y] = task'[q]
    <3>1. CASE y = x
      <4>1. q = p
        BY <1>1, <1>2, <1>4, <2>2, <3>1 DEF Dying
      <4>2. QED
        BY <1>2, <1>3, <1>7, <3>1, <4>1
    <3>2. CASE y # x
      <4>1. y \in destroyed[q] /\ y \in Exhibits
        BY <1>4, <1>5, <2>2, <3>2 DEF IInv, TypeOK, ListTypes
      <4>2. QED
        BY <1>3, <1>7, <3>2, <4>1 DEF IInv, Fated
    <3>3. QED
      BY <3>1, <3>2
  <2>3. QED
    BY <2>1, <2>2 DEF Fated
<1>21. Missing'
  <2> SUFFICES ASSUME NEW y \in Exhibits
               PROVE  /\ row[y] = "absent" => bytes'[y] = "none"
                      /\ row[y] = "purged" => bytes'[y] = "gone"
                      /\ row[y] = "void" /\ bytes'[y] = "stored" => y \in orphans \cup spoilt'
                      /\ row[y] = "live" /\ bytes'[y] # "stored" =>
                           y \in spoilt' \/ \E q \in Calls : y \in destroyed'[q]
                      /\ by'[y] # Nobody => bytes'[y] = "gone" /\ row[y] \in {"live", "purged"}
    BY <1>3 DEF Missing
  <2>1. CASE y = x
    <3>1. y \in spoilt' \/ \E q \in Calls : y \in destroyed'[q]
      BY <1>3, <2>1 DEF IInv, TypeOK, ListTypes
    <3>2. QED
      BY <1>2, <1>7, <2>1, <3>1
  <2>2. CASE y # x
    <3>1. spoilt \subseteq spoilt' /\ \A q \in Calls : y \in destroyed[q] => y \in destroyed'[q]
      BY <1>3, <1>4
    <3>2. bytes'[y] = bytes[y] /\ by'[y] = by[y]
      BY <1>7, <2>2
    <3>3. QED
      BY <3>1, <3>2 DEF IInv, Missing
  <2>3. QED
    BY <2>1, <2>2
<1>22. Tally'
  BY <1>1, <1>2, <1>3 DEF IInv, TypeOK, CallTypes, ListTypes, Tally, Fated, Dying, Duty, AtDesk,
     InStore, StoreDestroys, Set, AfterDelete, Goto, holds, x
<1>23. Spent'
  BY <1>1, <1>2, <1>3, ActorAssumption DEF IInv, TypeOK, CallTypes, ListTypes, Spent, Fated, Dying,
     Held, Aim, Missing, Duty, AtDesk, InStore, StoreDestroys, Set, AfterDelete, Goto, holds, x
<1>24. HeldIsThere'
  BY <1>1, <1>2, <1>3 DEF IInv, TypeOK, CallTypes, ListTypes, HeldIsThere, Fated, Dying, Held, Aim,
     Duty, AtDesk, InStore, StoreDestroys, Set, AfterDelete, Goto, holds, x
<1>25. AlarmIsTrue'
  BY <1>1, <1>2, <1>3 DEF IInv, TypeOK, CallTypes, ListTypes, AlarmIsTrue, Fated, Dying, Held, Aim,
     Missing, Duty, AtDesk, InStore, StoreDestroys, Set, AfterDelete, Goto, holds, x
<1>26. (Cardinality(Lost) <= faults)'
  <2>1. Lost' \subseteq Lost \cup {x}
    BY <1>3, <1>4, <1>7 DEF Lost
  <2>2. CASE faults' = faults + 1
    BY <1>2, <1>13, <2>1, <2>2, LostOneMore
  <2>3. CASE faults' # faults + 1
    <3>1. x \in destroyed'[p] /\ faults' = faults /\ faults \in Nat
      BY <1>3, <2>3, ActorAssumption DEF IInv, TypeOK, ListTypes, GhostTypes
    <3>2. \A y \in Exhibits : y \in Lost' => y \in Lost
      BY <2>1, <3>1 DEF Lost
    <3>3. QED
      BY <1>13, <3>1, <3>2, LostStays
  <2>4. QED
    BY <2>2, <2>3
<1>27. QED
  BY <1>9, <1>10, <1>11, <1>12, <1>13, <1>14, <1>15, <1>17, <1>18, <1>19, <1>20, <1>21, <1>22,
     <1>23, <1>24, <1>25, <1>26 DEF IInv, TypeOK

\* What the store would not delete is let go of, and stays as it was.
LEMMA StoreRefusesInv == ASSUME IInv, NEW p \in Calls, StoreRefuses(p)
                         PROVE  IInv'
<1> DEFINE x == InOrder(p, doomed[p])
<1>1. x \in doomed[p] /\ task[p] # Nobody
  BY LeastIs DEF StoreRefuses, IInv, TypeOK, ListTypes, Duty, AtDesk
<1> HIDE DEF x
<1>2. RowTypes'
  BY <1>1 DEF IInv, TypeOK, RowTypes, StoreRefuses, AfterDelete, Goto, Set, holds, x
<1>3. LockTypes'
  BY <1>1 DEF IInv, TypeOK, LockTypes, Rows, Lock, StoreRefuses, AfterDelete, Goto, Set, holds, x
<1>4. CallTypes'
  BY <1>1 DEF IInv, TypeOK, CallTypes, StoreRefuses, AfterDelete, Goto, Set, holds, x
<1>5. ListTypes'
  BY <1>1 DEF IInv, TypeOK, ListTypes, CallTypes, StoreRefuses, AfterDelete, Goto, Set, holds, x
<1>6. GhostTypes'
  BY <1>1 DEF IInv, TypeOK, GhostTypes, CallTypes, StoreRefuses, AfterDelete, Goto, Set, holds, x
<1>7. Duty'
  BY <1>1, ActorAssumption DEF IInv, TypeOK, CallTypes, ListTypes, Duty, AtDesk, InStore,
     StoreRefuses, AfterDelete, Goto, Set, holds, x
<1>8. Aim'
  BY <1>1, ActorAssumption DEF IInv, TypeOK, CallTypes, ListTypes, Duty, Aim, Dying, AtDesk,
     InStore, StoreRefuses, AfterDelete, Goto, Set, holds, x
<1>9. \A q, s, n : Holds(q, s, n)' <=> Holds(q, s, n)
  BY DEF Holds, Lock, StoreRefuses, AfterDelete
<1>10. Exclusive'
  BY <1>1, <1>9 DEF IInv, Exclusive
<1>11. LocksAt'
  BY <1>1, <1>9 DEF IInv, TypeOK, CallTypes, ListTypes, Duty, LocksAt, Rows, AtDesk, InStore,
     StoreRefuses, AfterDelete, Goto, Set, holds, x
<1>12. LocksFor'
  BY <1>1, <1>9, ActorAssumption DEF IInv, TypeOK, CallTypes, ListTypes, Duty, Aim, LocksFor, Dying,
     AtDesk, InStore, StoreRefuses, AfterDelete, Goto, Set, holds, x
<1>13. Fated'
  BY <1>1 DEF IInv, TypeOK, CallTypes, ListTypes, Duty, Fated, Dying, Held, AtDesk, InStore,
     StoreRefuses, AfterDelete, Goto, Set, holds, x
<1>14. /\ Missing' /\ Tally' /\ Spent' /\ HeldIsThere' /\ AlarmIsTrue'
      /\ (Cardinality(Lost) <= faults)'
  BY QuietStep DEF StoreRefuses, AfterDelete, custody
<1>15. QED
  BY <1>2, <1>3, <1>4, <1>5, <1>6, <1>7, <1>8, <1>10, <1>11, <1>12, <1>13, <1>14 DEF IInv, TypeOK

\* A call that dies gives up its locks and its lists; what it caught halfway is a
\* fault.
LEMMA CrashInv == ASSUME IInv, NEW p \in Calls, Crash(p)
                  PROVE  IInv'
<1> DEFINE halfway == destroyed[p] \cup marked[p]
<1>1. /\ task[p] # Nobody /\ pc[p] \notin AtDesk /\ pc'[p] = "idle" /\ task'[p] = Nobody
      /\ todo'[p] = {} /\ doomed'[p] = {} /\ destroyed'[p] = {} /\ marked'[p] = {}
  BY DEF Crash, IInv, TypeOK, CallTypes, ListTypes, Duty, Goto, Set, Answered
<1>2. /\ spoilt' = spoilt \cup halfway
      /\ \/ halfway = {} /\ faults' = faults
         \/ faults < MaxFaults /\ faults' = faults + 1
  BY DEF Crash
<1>3. /\ UNCHANGED <<row, bytes, stones, orphans, alarms, by, misled, hold, caseHold, approval, item>>
      /\ \A q \in Calls : /\ q # p => /\ pc'[q] = pc[q] /\ task'[q] = task[q] /\ todo'[q] = todo[q]
                                      /\ doomed'[q] = doomed[q] /\ destroyed'[q] = destroyed[q]
                                      /\ marked'[q] = marked[q] /\ Dying(q)' = Dying(q)
  BY DEF Crash, IInv, TypeOK, CallTypes, ListTypes, Goto, Set, Answered, holds, Dying
<1>4. Dying(p)' = {} /\ task'[p] \notin Cases /\ task'[p] \notin Requests
  BY <1>1, ActorAssumption DEF Dying
<1>5. RowTypes'
  BY <1>1, <1>2, <1>3, <1>4 DEF IInv, TypeOK, RowTypes, Crash, Release, Set, Answered, Goto, holds
<1>6. LockTypes'
  BY ReleasingTypes DEF Crash, IInv, TypeOK
<1>7. CallTypes'
  BY <1>1, <1>2, <1>3, <1>4 DEF IInv, TypeOK, CallTypes, Crash, Release, Set, Answered, Goto, holds
<1>8. ListTypes'
  BY <1>1, <1>2, <1>3, <1>4 DEF IInv, TypeOK, ListTypes, CallTypes, Crash, Release, Set, Answered,
     Goto, holds
<1>9. GhostTypes'
  BY <1>2, ActorAssumption DEF IInv, TypeOK, ListTypes, GhostTypes, Crash
<1>10. Duty'
  BY <1>1, <1>2, <1>3, <1>4, ActorAssumption DEF IInv, TypeOK, CallTypes, ListTypes, Duty, AtDesk,
     InStore, Crash, Release, Set, Answered, Goto, holds
<1>11. Aim'
  BY <1>1, <1>3, <1>4, AimStays DEF AtDesk
<1>12. \A q, s, n : Holds(q, s, n)' <=> Holds(q, s, n) /\ q # p
  BY Releasing DEF Crash
<1>13. Exclusive'
  BY <1>1, <1>2, <1>3, <1>4, <1>12 DEF IInv, Exclusive
<1>14. LocksAt'
  BY <1>1, <1>2, <1>3, <1>4, <1>12 DEF IInv, TypeOK, CallTypes, ListTypes, Duty, LocksAt, Rows,
     AtDesk, InStore, Crash, Release, Set, Answered, Goto, holds
<1>15. LocksFor'
  BY <1>1, <1>2, <1>3, <1>4, <1>12, ActorAssumption DEF IInv, TypeOK, CallTypes, ListTypes, Duty,
     Aim, LocksFor, Dying, AtDesk, InStore, Crash, Release, Set, Answered, Goto, holds
<1>16. Fated'
  BY <1>1, <1>2, <1>3, <1>4 DEF IInv, TypeOK, CallTypes, ListTypes, Duty, Fated, Dying, Held,
     AtDesk, InStore, Crash, Release, Set, Answered, Goto, holds
<1>17. Missing'
  BY <1>1, <1>2, <1>3, <1>4, ActorAssumption DEF IInv, TypeOK, CallTypes, ListTypes, Missing, Fated,
     Dying, Held, Aim, Duty, AtDesk, InStore, Crash, Release, Set, Answered, Goto, holds
<1>18. Tally'
  BY <1>1, <1>2, <1>3, <1>4 DEF IInv, TypeOK, CallTypes, ListTypes, Tally, Fated, Dying, Duty,
     AtDesk, InStore, Crash, Release, Set, Answered, Goto, holds
<1>19. Spent'
  BY <1>1, <1>2, <1>3, <1>4, ActorAssumption DEF IInv, TypeOK, CallTypes, ListTypes, Spent, Fated,
     Dying, Held, Aim, Missing, Duty, AtDesk, InStore, Crash, Release, Set, Answered, Goto, holds
<1>20. HeldIsThere'
  BY <1>1, <1>2, <1>3, <1>4 DEF IInv, TypeOK, CallTypes, ListTypes, HeldIsThere, Fated, Dying, Held,
     Aim, Duty, AtDesk, InStore, Crash, Release, Set, Answered, Goto, holds
<1>21. AlarmIsTrue'
  BY <1>1, <1>2, <1>3, <1>4 DEF IInv, TypeOK, CallTypes, ListTypes, AlarmIsTrue, Fated, Dying, Held,
     Aim, Missing, Duty, AtDesk, InStore, Crash, Release, Set, Answered, Goto, holds
<1>22. (Cardinality(Lost) <= faults)'
  <2>1. \A y \in Lost' : y \in Lost \/ (y \in destroyed[p] /\ task[p] \in Cases)
    BY <1>1, <1>3 DEF Lost, IInv, Fated
  <2>2. CASE destroyed[p] = {} \/ task[p] \notin Cases
    <3>1. faults <= faults'
      BY <1>2, ActorAssumption DEF IInv, TypeOK, GhostTypes
    <3>2. QED
      BY <1>9, <2>1, <2>2, <3>1, LostStays
  <2>3. CASE destroyed[p] # {} /\ task[p] \in Cases
    <3>1. PICK x \in destroyed[p] : x \in Exhibits
      BY <2>3 DEF IInv, TypeOK, ListTypes
    <3>2. destroyed[p] \subseteq {x}
      BY <2>3, <3>1 DEF IInv, Aim, Dying
    <3>3. faults' = faults + 1
      BY <1>2, <2>3
    <3>4. QED
      BY <1>9, <2>1, <3>1, <3>2, <3>3, LostOneMore
  <2>4. QED
    BY <2>2, <2>3
<1>23. QED
  BY <1>5, <1>6, <1>7, <1>8, <1>9, <1>10, <1>11, <1>13, <1>14, <1>15, <1>16, <1>17, <1>18,
     <1>19, <1>20, <1>21, <1>22 DEF IInv, TypeOK

-----------------------------------------------------------------------------
(* Readings *)

\* A reader begins with a live exhibit.
LEMMA BeginReadInv == ASSUME IInv, NEW p \in Calls, NEW x \in Exhibits, BeginRead(p, x)
                      PROVE  IInv'
<1>1. RowTypes'
  BY DEF IInv, TypeOK, RowTypes, BeginRead, Goto, Set, custody, holds, rest
<1>2. LockTypes'
  BY DEF IInv, TypeOK, LockTypes, Rows, Lock, BeginRead, Goto, Set, custody, holds, rest
<1>3. CallTypes'
  BY DEF IInv, TypeOK, CallTypes, BeginRead, Goto, Set, custody, holds, rest
<1>4. ListTypes'
  BY DEF IInv, TypeOK, ListTypes, CallTypes, BeginRead, Goto, Set, custody, holds, rest
<1>5. GhostTypes'
  BY DEF IInv, TypeOK, GhostTypes, CallTypes, BeginRead, Goto, Set, custody, holds, rest
<1>6. Duty'
  BY ActorAssumption DEF IInv, TypeOK, CallTypes, ListTypes, Duty, AtDesk, InStore, BeginRead, Goto,
     Set, custody, holds, rest
<1>7. Aim'
  BY ActorAssumption DEF IInv, TypeOK, CallTypes, ListTypes, Duty, Aim, Dying, AtDesk, InStore,
     BeginRead, Goto, Set, custody, holds, rest
<1>8. \A q, s, n : Holds(q, s, n)' <=> Holds(q, s, n)
  BY DEF Holds, Lock, BeginRead
<1>9. Exclusive'
  BY <1>8 DEF IInv, Exclusive
<1>10. LocksAt'
  BY <1>8 DEF IInv, TypeOK, CallTypes, ListTypes, Duty, LocksAt, Rows, AtDesk, InStore, BeginRead,
     Goto, Set, custody, holds, rest
<1>11. LocksFor'
  BY <1>8, ActorAssumption DEF IInv, TypeOK, CallTypes, ListTypes, Duty, Aim, LocksFor, Dying,
     AtDesk, InStore, BeginRead, Goto, Set, custody, holds, rest
<1>12. Fated'
  BY DEF IInv, TypeOK, CallTypes, ListTypes, Duty, Fated, Dying, Held, AtDesk, InStore, BeginRead,
     Goto, Set, custody, holds, rest
<1>13. /\ Missing' /\ Tally' /\ Spent' /\ HeldIsThere' /\ AlarmIsTrue'
      /\ (Cardinality(Lost) <= faults)'
  BY QuietStep DEF IInv, BeginRead, custody, holds, rest
<1>14. QED
  BY <1>1, <1>2, <1>3, <1>4, <1>5, <1>6, <1>7, <1>9, <1>10, <1>11, <1>12, <1>13 DEF IInv, TypeOK

\* A reader that finds the object is done; else it has seen that the object is gone.
LEMMA FetchInv == ASSUME IInv, NEW p \in Calls, Fetch(p)
                  PROVE  IInv'
<1>1. RowTypes'
  BY DEF IInv, TypeOK, RowTypes, Fetch, Goto, Done, Set, custody, holds, rest
<1>2. LockTypes'
  BY DEF IInv, TypeOK, LockTypes, Rows, Lock, Fetch, Goto, Done, Set, custody, holds, rest
<1>3. CallTypes'
  BY DEF IInv, TypeOK, CallTypes, Fetch, Goto, Done, Set, custody, holds, rest
<1>4. ListTypes'
  BY DEF IInv, TypeOK, ListTypes, CallTypes, Fetch, Goto, Done, Set, custody, holds, rest
<1>5. GhostTypes'
  BY DEF IInv, TypeOK, GhostTypes, CallTypes, Fetch, Goto, Done, Set, custody, holds, rest
<1>6. Duty'
  BY ActorAssumption DEF IInv, TypeOK, CallTypes, ListTypes, Duty, AtDesk, InStore, Fetch, Goto,
     Done, Set, custody, holds, rest
<1>7. Aim'
  BY ActorAssumption DEF IInv, TypeOK, CallTypes, ListTypes, Duty, Aim, Dying, AtDesk, InStore,
     Fetch, Goto, Done, Set, custody, holds, rest
<1>8. \A q, s, n : Holds(q, s, n)' <=> Holds(q, s, n)
  BY DEF Holds, Lock, Fetch
<1>9. Exclusive'
  BY <1>8 DEF IInv, Exclusive
<1>10. LocksAt'
  BY <1>8 DEF IInv, TypeOK, CallTypes, ListTypes, Duty, LocksAt, Rows, AtDesk, InStore, Fetch, Goto,
     Done, Set, custody, holds, rest
<1>11. LocksFor'
  BY <1>8, ActorAssumption DEF IInv, TypeOK, CallTypes, ListTypes, Duty, Aim, LocksFor, Dying,
     AtDesk, InStore, Fetch, Goto, Done, Set, custody, holds, rest
<1>12. Fated'
  BY DEF IInv, TypeOK, CallTypes, ListTypes, Duty, Fated, Dying, Held, AtDesk, InStore, Fetch, Goto,
     Done, Set, custody, holds, rest
<1>13. /\ Missing' /\ Tally' /\ Spent' /\ HeldIsThere' /\ AlarmIsTrue'
      /\ (Cardinality(Lost) <= faults)'
  BY QuietStep DEF IInv, Fetch, Done, custody, holds, rest
<1>14. QED
  BY <1>1, <1>2, <1>3, <1>4, <1>5, <1>6, <1>7, <1>9, <1>10, <1>11, <1>12, <1>13 DEF IInv, TypeOK

\* A reader asks whether a purge has the row, or had it.
LEMMA AskRetentionInv == ASSUME IInv, NEW p \in Calls, AskRetention(p)
                         PROVE  IInv'
<1>1. item[p] \in Exhibits /\ row[item[p]] \in {"live", "purged"} /\ bytes[item[p]] # "stored"
  BY DEF AskRetention, IInv, Duty, Aim, AtDesk
<1>2. row[item[p]] = "live" /\ ~BeingDestroyed(item[p]) => item[p] \in spoilt
  <2> SUFFICES ASSUME row[item[p]] = "live", NEW q \in Calls, item[p] \in destroyed[q]
               PROVE  BeingDestroyed(item[p])
    BY <1>1 DEF IInv, Missing
  <2>1. Holds(q, ExhibitRow(item[p]), "update")
    BY InOneHand DEF Dying
  <2>2. QED
    BY <2>1 DEF Holds, Lock, BeingDestroyed
<1>3. RowTypes'
  BY <1>1 DEF IInv, TypeOK, RowTypes, AskRetention, Done, Goto, Set, holds, rest
<1>4. LockTypes'
  BY <1>1 DEF IInv, TypeOK, LockTypes, Rows, Lock, AskRetention, Done, Goto, Set, holds, rest
<1>5. CallTypes'
  BY <1>1 DEF IInv, TypeOK, CallTypes, AskRetention, Done, Goto, Set, holds, rest
<1>6. ListTypes'
  BY <1>1 DEF IInv, TypeOK, ListTypes, CallTypes, AskRetention, Done, Goto, Set, holds, rest
<1>7. GhostTypes'
  BY <1>1 DEF IInv, TypeOK, GhostTypes, CallTypes, AskRetention, Done, Goto, Set, holds, rest
<1>8. Duty'
  BY <1>1, ActorAssumption DEF IInv, TypeOK, CallTypes, ListTypes, Duty, AtDesk, InStore,
     AskRetention, Done, Goto, Set, holds, rest
<1>9. Aim'
  BY <1>1, ActorAssumption DEF IInv, TypeOK, CallTypes, ListTypes, Duty, Aim, Dying, AtDesk,
     InStore, AskRetention, Done, Goto, Set, holds, rest
<1>10. \A q, s, n : Holds(q, s, n)' <=> Holds(q, s, n)
  BY DEF Holds, Lock, AskRetention
<1>11. Exclusive'
  BY <1>1, <1>10 DEF IInv, Exclusive
<1>12. LocksAt'
  BY <1>1, <1>10 DEF IInv, TypeOK, CallTypes, ListTypes, Duty, LocksAt, Rows, AtDesk, InStore,
     AskRetention, Done, Goto, Set, holds, rest
<1>13. LocksFor'
  BY <1>1, <1>10, ActorAssumption DEF IInv, TypeOK, CallTypes, ListTypes, Duty, Aim, LocksFor,
     Dying, AtDesk, InStore, AskRetention, Done, Goto, Set, holds, rest
<1>14. Fated'
  BY <1>1 DEF IInv, TypeOK, CallTypes, ListTypes, Duty, Fated, Dying, Held, AtDesk, InStore,
     AskRetention, Done, Goto, Set, holds, rest
<1>15. Missing'
  BY <1>1, ActorAssumption DEF IInv, TypeOK, CallTypes, ListTypes, Missing, Fated, Dying, Held, Aim,
     Duty, AtDesk, InStore, AskRetention, Done, Goto, Set, holds, rest
<1>16. Tally'
  BY <1>1 DEF IInv, TypeOK, CallTypes, ListTypes, Tally, Fated, Dying, Duty, AtDesk, InStore,
     AskRetention, Done, Goto, Set, holds, rest
<1>17. Spent'
  BY <1>1, ActorAssumption DEF IInv, TypeOK, CallTypes, ListTypes, Spent, Fated, Dying, Held, Aim,
     Missing, Duty, AtDesk, InStore, AskRetention, Done, Goto, Set, holds, rest
<1>18. HeldIsThere'
  BY <1>1 DEF IInv, TypeOK, CallTypes, ListTypes, HeldIsThere, Fated, Dying, Held, Aim, Duty,
     AtDesk, InStore, AskRetention, Done, Goto, Set, holds, rest
<1>19. AlarmIsTrue'
  BY <1>1, <1>2 DEF AskRetention, IInv, AlarmIsTrue
<1>20. \A y \in Exhibits : y \in Lost' => y \in Lost
  BY <1>1 DEF IInv, TypeOK, CallTypes, ListTypes, Lost, Fated, Dying, Missing, Duty, AtDesk,
     InStore, AskRetention, Done, Goto, Set, holds, rest
<1>21. (Cardinality(Lost) <= faults)'
  BY <1>20, <1>7, LostStays DEF IInv, TypeOK, GhostTypes, AskRetention
<1>22. QED
  BY <1>3, <1>4, <1>5, <1>6, <1>7, <1>8, <1>9, <1>11, <1>12, <1>13, <1>14, <1>15, <1>16, <1>17,
     <1>18, <1>19, <1>20, <1>21 DEF IInv, TypeOK

-----------------------------------------------------------------------------
(* Lodgings *)

\* A lodging begins with bytes nobody has, or is answered with the exhibit that has
\* them.
LEMMA BeginLodgeInv == ASSUME IInv, NEW p \in Calls, NEW x \in Exhibits, BeginLodge(p, x)
                       PROVE  IInv'
<1>1. Twin(x, "live") => TwinOf(x) \in Exhibits /\ row[TwinOf(x)] = "live"
  BY TwinIs
<1>2. RowTypes'
  BY <1>1 DEF IInv, TypeOK, RowTypes, BeginLodge, Goto, Set, Reuse, TwinOf, Twin, custody, holds,
     rest
<1>3. LockTypes'
  BY <1>1 DEF IInv, TypeOK, LockTypes, Rows, Lock, BeginLodge, Goto, Set, Reuse, TwinOf, Twin,
     custody, holds, rest
<1>4. CallTypes'
  BY <1>1 DEF IInv, TypeOK, CallTypes, BeginLodge, Goto, Set, Reuse, TwinOf, Twin, custody, holds,
     rest
<1>5. ListTypes'
  BY <1>1 DEF IInv, TypeOK, ListTypes, CallTypes, BeginLodge, Goto, Set, Reuse, TwinOf, Twin,
     custody, holds, rest
<1>6. GhostTypes'
  BY <1>1 DEF IInv, TypeOK, GhostTypes, CallTypes, BeginLodge, Goto, Set, Reuse, TwinOf, Twin,
     custody, holds, rest
<1>7. Duty'
  BY <1>1, ActorAssumption DEF IInv, TypeOK, CallTypes, ListTypes, Duty, AtDesk, InStore,
     BeginLodge, Goto, Set, Reuse, TwinOf, Twin, custody, holds, rest
<1>8. Aim'
  BY <1>1, ActorAssumption DEF IInv, TypeOK, CallTypes, ListTypes, Duty, Aim, Dying, AtDesk,
     InStore, BeginLodge, Goto, Set, Reuse, TwinOf, Twin, custody, holds, rest
<1>9. \A q, s, n : Holds(q, s, n)' <=> Holds(q, s, n)
  BY DEF Holds, Lock, BeginLodge
<1>10. Exclusive'
  BY <1>1, <1>9 DEF IInv, Exclusive
<1>11. LocksAt'
  BY <1>1, <1>9 DEF IInv, TypeOK, CallTypes, ListTypes, Duty, LocksAt, Rows, AtDesk, InStore,
     BeginLodge, Goto, Set, Reuse, TwinOf, Twin, custody, holds, rest
<1>12. LocksFor'
  BY <1>1, <1>9, ActorAssumption DEF IInv, TypeOK, CallTypes, ListTypes, Duty, Aim, LocksFor, Dying,
     AtDesk, InStore, BeginLodge, Goto, Set, Reuse, TwinOf, Twin, custody, holds, rest
<1>13. Fated'
  BY <1>1 DEF IInv, TypeOK, CallTypes, ListTypes, Duty, Fated, Dying, Held, AtDesk, InStore,
     BeginLodge, Goto, Set, Reuse, TwinOf, Twin, custody, holds, rest
<1>14. /\ Missing' /\ Tally' /\ Spent' /\ HeldIsThere' /\ AlarmIsTrue'
      /\ (Cardinality(Lost) <= faults)'
  BY QuietStep DEF IInv, BeginLodge, Reuse, custody, holds, rest
<1>15. QED
  BY <1>2, <1>3, <1>4, <1>5, <1>6, <1>7, <1>8, <1>10, <1>11, <1>12, <1>13, <1>14 DEF IInv, TypeOK

\* A row is inserted, and its index entry locked, where no live or uncommitted row
\* has the bytes.
LEMMA InsertRowInv == ASSUME IInv, NEW p \in Calls, InsertRow(p)
                      PROVE  IInv'
<1> DEFINE x == item[p]
          live == Indexed(x, "live")
<1>1. /\ x \in Exhibits /\ ExhibitRow(x) \in Rows /\ row[x] = "absent" /\ bytes[x] = "none"
      /\ pc[p] = "insert" /\ task[p] = Nobody /\ by[x] = Nobody
  BY DEF InsertRow, IInv, Duty, AtDesk, Rows, Missing
<1>2. \A q, n : q \in Calls /\ n \in {"share", "update"} => ~Holds(q, ExhibitRow(x), n)
  BY <1>1 DEF IInv, LocksAt
<1>3. /\ live => pc' = [pc EXCEPT ![p] = "look"] /\ UNCHANGED <<row, locks, item>>
      /\ ~live => /\ row' = [row EXCEPT ![x] = "open"] /\ pc' = [pc EXCEPT ![p] = "put"]
                  /\ locks' = locks \cup {Lock(p, ExhibitRow(x), "update")} /\ UNCHANGED item
      /\ UNCHANGED <<bytes, stones, orphans, alarms, by, spoilt, misled, hold, caseHold, approval, emptied,
                     task, todo, doomed, destroyed, marked, records, faults>>
  BY DEF InsertRow, Goto, Set, holds, rest
<1>4. \A y \in Exhibits : row'[y] = row[y] \/ (y = x /\ row'[y] = "open")
  BY <1>1, <1>3 DEF IInv, TypeOK, RowTypes
<1>5. \A q \in Calls : q # p => pc'[q] = pc[q]
  BY <1>3 DEF IInv, TypeOK, CallTypes
<1>6. /\ ~live => pc'[p] = "put" /\ row'[x] = "open"
      /\ live => pc'[p] = "look"
  BY <1>1, <1>3 DEF IInv, TypeOK, CallTypes, RowTypes
<1> HIDE DEF live
<1>7. RowTypes'
  BY <1>1, <1>3, <1>4, <1>5, <1>6 DEF IInv, TypeOK, RowTypes
<1>8. LockTypes'
  <2>1. CASE ~live
    BY <1>1, <1>3, <2>1, LockingTypes DEF IInv, TypeOK
  <2>2. CASE live
    BY <1>3, <2>2 DEF IInv, TypeOK, LockTypes, Rows, CaseRow, ExhibitRow, ApprovalRow
  <2>3. QED
    BY <2>1, <2>2
<1>9. CallTypes'
  BY <1>1, <1>3, <1>4, <1>5, <1>6 DEF IInv, TypeOK, CallTypes
<1>10. ListTypes'
  BY <1>1, <1>3, <1>4, <1>5, <1>6 DEF IInv, TypeOK, ListTypes, CallTypes
<1>11. GhostTypes'
  BY <1>1, <1>3, <1>4, <1>5, <1>6 DEF IInv, TypeOK, GhostTypes, CallTypes
<1>12. Duty'
  BY <1>1, <1>3, <1>4, <1>5, <1>6, ActorAssumption DEF IInv, TypeOK, CallTypes, ListTypes, Duty,
     AtDesk, InStore
<1>13. Aim'
  <2>1. \A q \in Calls : Dying(q)' = Dying(q) /\ task'[q] = task[q] /\ todo'[q] = todo[q]
    BY <1>3 DEF Dying
  <2>2. \A y \in Exhibits : row[y] \in {"live", "purged"} => row'[y] = row[y]
    BY <1>1, <1>4
  <2>3. ASSUME NEW q \in Calls, q # p
        PROVE  /\ pc'[q] \in {"fetch", "ask", "reacquire"} => row'[item'[q]] \in {"live", "purged"}
               /\ pc'[q] = "ask" => bytes'[item'[q]] # "stored"
               /\ pc'[q] = "put" => row'[item'[q]] = "open" /\ bytes'[item'[q]] = "none"
               /\ pc'[q] = "lodge" => row'[item'[q]] = "open" /\ bytes'[item'[q]] = "stored"
    <3>1. pc'[q] = pc[q] /\ item'[q] = item[q] /\ bytes' = bytes
      BY <1>3, <1>5, <2>3
    <3>2. pc[q] \in AtDesk \ {"idle"} => item[q] \in Exhibits
      BY DEF IInv, Duty
    <3>3. pc[q] \in {"fetch", "ask", "reacquire", "put", "lodge"} => row'[item[q]] = row[item[q]]
      BY <1>1, <1>4, <3>2 DEF IInv, Aim, AtDesk
    <3>4. QED
      BY <3>1, <3>3 DEF IInv, Aim
  <2>4. /\ pc'[p] \in {"look", "put"}
        /\ pc'[p] = "put" => item'[p] = x /\ row'[x] = "open" /\ bytes'[x] = "none"
    BY <1>1, <1>3, <1>6
  <2>5. QED
    BY <2>1, <2>2, <2>3, <2>4, AimFrom
<1>14. \A q, s, n : Holds(q, s, n)' <=> Holds(q, s, n) \/ (~live /\ q = p /\ s = ExhibitRow(x) /\ n = "update")
  <2>1. CASE ~live
    BY <1>3, <2>1, Locking
  <2>2. CASE live
    BY <1>3, <2>2 DEF Holds, Lock
  <2>3. QED
    BY <2>1, <2>2
<1>15. /\ \A q, a, n : Holds(q, ApprovalRow(a), n)' <=> Holds(q, ApprovalRow(a), n)
       /\ \A q, b, n : Holds(q, CaseRow(b), n)' <=> Holds(q, CaseRow(b), n)
       /\ \A q, c, n : Holds(q, ExhibitRow(c), n)' <=>
           Holds(q, ExhibitRow(c), n) \/ (q = p /\ c = x /\ n = "update" /\ ~live)
  BY <1>14, RowIs
<1>16. Exclusive'
  BY <1>1, <1>3, <1>4, <1>5, <1>6, <1>14, <1>2 DEF IInv, Exclusive
<1>17. LocksAt'
  BY <1>1, <1>3, <1>4, <1>5, <1>6, <1>15 DEF IInv, TypeOK, CallTypes, ListTypes, Duty, LocksAt,
     Rows, AtDesk, InStore
<1>18. LocksFor'
  BY <1>1, <1>3, <1>4, <1>5, <1>6, <1>15, ActorAssumption DEF IInv, TypeOK, CallTypes, ListTypes,
     Duty, Aim, LocksFor, Dying, AtDesk, InStore
<1>19. Fated'
  BY <1>1, <1>3, <1>4, <1>5, <1>6 DEF IInv, TypeOK, CallTypes, ListTypes, Duty, Fated, Dying, Held,
     AtDesk, InStore
<1>20. Missing'
  BY <1>1, <1>3, <1>4 DEF IInv, Missing
<1>21. Tally'
  BY <1>1, <1>3, <1>4 DEF IInv, Tally, TypeOK, ListTypes
<1>22. Spent'
  BY <1>1, <1>3, <1>4 DEF IInv, Spent
<1>23. HeldIsThere'
  BY <1>1, <1>3, <1>4 DEF IInv, HeldIsThere, TypeOK, RowTypes
<1>24. AlarmIsTrue'
  BY <1>3 DEF IInv, AlarmIsTrue
<1>25. \A y \in Exhibits : y \in Lost' => y \in Lost
  BY <1>1, <1>3, <1>4, <1>5, <1>6 DEF IInv, TypeOK, CallTypes, ListTypes, Lost, Fated, Dying,
     Missing, Duty, AtDesk, InStore
<1>26. (Cardinality(Lost) <= faults)'
  BY <1>3, <1>25, <1>11, LostStays DEF IInv, TypeOK, GhostTypes
<1>27. QED
  BY <1>7, <1>8, <1>9, <1>10, <1>11, <1>12, <1>13, <1>16, <1>17, <1>18, <1>19, <1>20, <1>21,
     <1>22, <1>23, <1>24, <1>25, <1>26 DEF IInv, TypeOK

\* A lodging the index refused is answered with the exhibit that won, tried again
\* or given up.
LEMMA LookAgainInv == ASSUME IInv, NEW p \in Calls, LookAgain(p)
                      PROVE  IInv'
<1>1. Twin(item[p], "live") => TwinOf(item[p]) \in Exhibits /\ row[TwinOf(item[p])] = "live"
  BY TwinIs
<1>2. RowTypes'
  BY <1>1 DEF IInv, TypeOK, RowTypes, LookAgain, Goto, Done, Set, Reuse, TwinOf, Twin, custody,
     holds, rest
<1>3. LockTypes'
  BY <1>1 DEF IInv, TypeOK, LockTypes, Rows, Lock, LookAgain, Goto, Done, Set, Reuse, TwinOf, Twin,
     custody, holds, rest
<1>4. CallTypes'
  BY <1>1 DEF IInv, TypeOK, CallTypes, LookAgain, Goto, Done, Set, Reuse, TwinOf, Twin, custody,
     holds, rest
<1>5. ListTypes'
  BY <1>1 DEF IInv, TypeOK, ListTypes, CallTypes, LookAgain, Goto, Done, Set, Reuse, TwinOf, Twin,
     custody, holds, rest
<1>6. GhostTypes'
  BY <1>1 DEF IInv, TypeOK, GhostTypes, CallTypes, LookAgain, Goto, Done, Set, Reuse, TwinOf, Twin,
     custody, holds, rest
<1>7. Duty'
  BY <1>1, ActorAssumption DEF IInv, TypeOK, CallTypes, ListTypes, Duty, AtDesk, InStore, LookAgain,
     Goto, Done, Set, Reuse, TwinOf, Twin, custody, holds, rest
<1>8. Aim'
  BY <1>1, ActorAssumption DEF IInv, TypeOK, CallTypes, ListTypes, Duty, Aim, Dying, AtDesk,
     InStore, LookAgain, Goto, Done, Set, Reuse, TwinOf, Twin, custody, holds, rest
<1>9. \A q, s, n : Holds(q, s, n)' <=> Holds(q, s, n)
  BY DEF Holds, Lock, LookAgain
<1>10. Exclusive'
  BY <1>1, <1>9 DEF IInv, Exclusive
<1>11. LocksAt'
  BY <1>1, <1>9 DEF IInv, TypeOK, CallTypes, ListTypes, Duty, LocksAt, Rows, AtDesk, InStore,
     LookAgain, Goto, Done, Set, Reuse, TwinOf, Twin, custody, holds, rest
<1>12. LocksFor'
  BY <1>1, <1>9, ActorAssumption DEF IInv, TypeOK, CallTypes, ListTypes, Duty, Aim, LocksFor, Dying,
     AtDesk, InStore, LookAgain, Goto, Done, Set, Reuse, TwinOf, Twin, custody, holds, rest
<1>13. Fated'
  BY <1>1 DEF IInv, TypeOK, CallTypes, ListTypes, Duty, Fated, Dying, Held, AtDesk, InStore,
     LookAgain, Goto, Done, Set, Reuse, TwinOf, Twin, custody, holds, rest
<1>14. /\ Missing' /\ Tally' /\ Spent' /\ HeldIsThere' /\ AlarmIsTrue'
      /\ (Cardinality(Lost) <= faults)'
  BY QuietStep DEF IInv, LookAgain, Done, Reuse, custody, holds, rest
<1>15. QED
  BY <1>2, <1>3, <1>4, <1>5, <1>6, <1>7, <1>8, <1>10, <1>11, <1>12, <1>13, <1>14 DEF IInv, TypeOK

\* The object is put and found there, or the row is undone and an object that may
\* have been sent is named.
LEMMA PutObjectInv == ASSUME IInv, NEW p \in Calls, PutObject(p)
                      PROVE  IInv'
<1> DEFINE x == item[p]
<1>1. /\ x \in Exhibits /\ row[x] = "open" /\ by[x] = Nobody /\ x \notin hold /\ bytes[x] = "none"
      /\ task[p] = Nobody /\ doomed[p] = {} /\ destroyed[p] = {} /\ marked[p] = {}
      /\ \A q \in Calls : x \notin Dying(q) /\ x \notin marked[q]
  BY DEF PutObject, IInv, Duty, Aim, AtDesk, InStore, Missing, Fated, Tally, HeldIsThere
<1>2. \A q \in Calls : pc[q] \in {"put", "lodge"} /\ item[q] = x => q = p
  <2> SUFFICES ASSUME NEW q \in Calls, pc[q] \in {"put", "lodge"}, item[q] = x PROVE q = p
    OBVIOUS
  <2>1. Holds(p, ExhibitRow(x), "update") /\ Holds(q, ExhibitRow(x), "update") /\ ExhibitRow(x) \in Rows
    BY <1>1 DEF PutObject, IInv, LocksFor, Rows
  <2>2. QED
    BY <2>1 DEF IInv, Exclusive
<1>3. /\ \A y \in Exhibits : y # x => row'[y] = row[y] /\ bytes'[y] = bytes[y]
      /\ \A q \in Calls : q # p => pc'[q] = pc[q] /\ item'[q] = item[q]
      /\ UNCHANGED <<stones, alarms, by, hold, caseHold, approval, task, todo, doomed, destroyed, marked>>
  BY DEF PutObject, Undo, Done, Goto, Set, Release, IInv, TypeOK, CallTypes, RowTypes, holds, rest
<1>4. /\ orphans \subseteq orphans' /\ spoilt \subseteq spoilt'
      /\ \/ pc'[p] = "lodge" /\ item'[p] = x /\ row'[x] = "open" /\ bytes'[x] = "stored" /\ UNCHANGED <<locks, item>>
         \/ pc'[p] = "idle" /\ row'[x] = "void" /\ (bytes'[x] = "stored" => x \in orphans') /\ Release(p)
      /\ faults' = faults
  BY <1>1 DEF PutObject, Undo, Done, Goto, Set, IInv, TypeOK, CallTypes, RowTypes
<1> HIDE DEF x
<1>5. RowTypes'
  BY <1>1 DEF PutObject, Undo, Done, Set, IInv, TypeOK, RowTypes, holds, x
<1>6. LockTypes'
  <2>1. CASE pc'[p] = "idle"
    BY <1>4, <2>1, ReleasingTypes DEF IInv, TypeOK
  <2>2. CASE pc'[p] # "idle"
    BY <1>4, <2>2 DEF IInv, TypeOK, LockTypes, Rows, CaseRow, ExhibitRow, ApprovalRow
  <2>3. QED
    BY <2>1, <2>2
<1>7. CallTypes'
  BY DEF PutObject, Undo, Done, Goto, Set, IInv, TypeOK, CallTypes, rest
<1>8. ListTypes'
  BY DEF PutObject, IInv, TypeOK, ListTypes, rest
<1>9. GhostTypes'
  BY <1>1, ActorAssumption DEF PutObject, IInv, TypeOK, GhostTypes, x
<1>10. Duty'
  BY <1>1, <1>2, <1>3, <1>4, ActorAssumption DEF IInv, TypeOK, CallTypes, ListTypes, Duty, AtDesk,
     InStore
<1>11. Aim'
  <2>1. \A q \in Calls : Dying(q)' = Dying(q) /\ task'[q] = task[q] /\ todo'[q] = todo[q]
    BY <1>3 DEF Dying
  <2>2. \A y \in Exhibits : row[y] \in {"live", "purged"} => row'[y] = row[y]
    BY <1>1, <1>3
  <2>3. ASSUME NEW q \in Calls, q # p
        PROVE  /\ pc'[q] \in {"fetch", "ask", "reacquire"} => row'[item'[q]] \in {"live", "purged"}
               /\ pc'[q] = "ask" => bytes'[item'[q]] # "stored"
               /\ pc'[q] = "put" => row'[item'[q]] = "open" /\ bytes'[item'[q]] = "none"
               /\ pc'[q] = "lodge" => row'[item'[q]] = "open" /\ bytes'[item'[q]] = "stored"
    <3>1. pc'[q] = pc[q] /\ item'[q] = item[q]
      BY <1>3, <2>3
    <3>2. pc[q] \in AtDesk \ {"idle"} => item[q] \in Exhibits
      BY DEF IInv, Duty
    <3>3. pc[q] \in {"fetch", "ask", "reacquire", "put", "lodge"} => item[q] # x
      BY <1>1, <1>2, <2>3 DEF IInv, Aim
    <3>4. QED
      BY <1>3, <3>1, <3>2, <3>3 DEF IInv, Aim, AtDesk
  <2>4. /\ pc'[p] \in {"idle", "lodge"}
        /\ pc'[p] = "lodge" => item'[p] = x /\ row'[x] = "open" /\ bytes'[x] = "stored"
    BY <1>3, <1>4
  <2>5. QED
    BY <2>1, <2>2, <2>3, <2>4, AimFrom
<1>12. \A q, s, n : Holds(q, s, n)' <=> Holds(q, s, n) /\ (pc'[p] = "idle" => q # p)
  <2>1. CASE pc'[p] = "idle"
    BY <1>4, <2>1, Releasing
  <2>2. CASE pc'[p] # "idle"
    BY <1>4, <2>2 DEF Holds, Lock
  <2>3. QED
    BY <2>1, <2>2
<1>13. Exclusive'
  BY <1>1, <1>2, <1>3, <1>4, <1>12 DEF IInv, Exclusive
<1>14. LocksAt'
  BY <1>1, <1>2, <1>3, <1>4, <1>12 DEF IInv, TypeOK, CallTypes, ListTypes, Duty, LocksAt, Rows,
     AtDesk, InStore
<1>15. LocksFor'
  <2> SUFFICES ASSUME NEW q \in Calls
               PROVE  /\ pc'[q] = "claim" \/ (task'[q] \in Cases /\ pc'[q] \in InStore)
                            => Holds(q, CaseRow(task[q]), "share")'
                      /\ task'[q] \in Requests /\ pc'[q] \in {"rows"} \cup InStore =>
                           \A y \in Batch[task'[q]] : Holds(q, CaseRow(CaseOf[y]), "share")'
                      /\ task'[q] \in Requests /\ pc'[q] \in {"case", "rows"} \cup InStore =>
                           Holds(q, ApprovalRow(task[q]), "update")' /\ approval'[task'[q]] = "APPROVED"
                      /\ \A y \in Dying(q)' : Holds(q, ExhibitRow(y), "update")'
                      /\ pc'[q] = "rows" =>
                           \A y \in Batch[task'[q]] \ todo'[q] : Holds(q, ExhibitRow(y), "update")'
                      /\ pc'[q] \in {"put", "lodge"} => Holds(q, ExhibitRow(item[q]), "update")'
    BY DEF LocksFor, InStore
  <2>1. Dying(q)' = Dying(q)
    BY <1>3 DEF Dying
  <2>2. CASE q = p
    <3>1. Holds(p, ExhibitRow(x), "update")
      BY DEF PutObject, IInv, LocksFor, x
    <3>2. Dying(p) = {}
      BY <1>1 DEF Dying
    <3>3. QED
      BY <1>1, <1>3, <1>4, <1>12, <2>1, <2>2, <3>1, <3>2, ActorAssumption DEF InStore
  <2>3. CASE q # p
    <3>1. pc'[q] = pc[q] /\ item'[q] = item[q] /\ \A s, n : Holds(q, s, n)' <=> Holds(q, s, n)
      BY <1>3, <1>12, <2>3
    <3>2. QED
      BY <1>3, <2>1, <3>1 DEF IInv, LocksFor
  <2>4. QED
    BY <2>2, <2>3
<1>16. Fated'
  BY <1>1, <1>2, <1>3, <1>4 DEF IInv, TypeOK, CallTypes, ListTypes, Duty, Fated, Dying, Held,
     AtDesk, InStore
<1>17. Missing'
  BY <1>1, <1>2, <1>3, <1>4, ActorAssumption DEF IInv, TypeOK, CallTypes, ListTypes, Missing, Fated,
     Dying, Held, Aim, Duty, AtDesk, InStore
<1>18. Tally'
  BY <1>1, <1>3, <1>4 DEF IInv, Tally, TypeOK, ListTypes
<1>19. Spent'
  BY <1>1, <1>2, <1>3, <1>4, ActorAssumption DEF IInv, TypeOK, CallTypes, ListTypes, Spent, Fated,
     Dying, Held, Aim, Missing, Duty, AtDesk, InStore
<1>20. HeldIsThere'
  BY <1>1, <1>3, <1>4 DEF IInv, HeldIsThere, TypeOK, RowTypes
<1>21. AlarmIsTrue'
  BY <1>3, <1>4 DEF IInv, AlarmIsTrue
<1>22. \A y \in Exhibits : y \in Lost' => y \in Lost
  BY <1>1, <1>2, <1>3, <1>4 DEF IInv, TypeOK, CallTypes, ListTypes, Lost, Fated, Dying, Missing,
     Duty, AtDesk, InStore
<1>23. (Cardinality(Lost) <= faults)'
  BY <1>3, <1>4, <1>22, <1>9, LostStays DEF IInv, TypeOK, GhostTypes
<1>24. QED
  BY <1>5, <1>6, <1>7, <1>8, <1>9, <1>10, <1>11, <1>13, <1>14, <1>15, <1>16, <1>17, <1>18,
     <1>19, <1>20, <1>21, <1>22, <1>23 DEF IInv, TypeOK

\* The commit makes the row live over bytes the store has; refused, it is undone
\* and the object named.
LEMMA CommitLodgingInv == ASSUME IInv, NEW p \in Calls, CommitLodging(p)
                          PROVE  IInv'
<1> DEFINE x == item[p]
<1>1. /\ x \in Exhibits /\ row[x] = "open" /\ by[x] = Nobody /\ x \notin hold /\ bytes[x] = "stored"
      /\ task[p] = Nobody /\ doomed[p] = {} /\ destroyed[p] = {} /\ marked[p] = {}
      /\ \A q \in Calls : x \notin Dying(q) /\ x \notin marked[q]
  BY DEF CommitLodging, IInv, Duty, Aim, AtDesk, InStore, Missing, Fated, Tally, HeldIsThere
<1>2. \A q \in Calls : pc[q] \in {"put", "lodge"} /\ item[q] = x => q = p
  <2> SUFFICES ASSUME NEW q \in Calls, pc[q] \in {"put", "lodge"}, item[q] = x PROVE q = p
    OBVIOUS
  <2>1. Holds(p, ExhibitRow(x), "update") /\ Holds(q, ExhibitRow(x), "update") /\ ExhibitRow(x) \in Rows
    BY <1>1 DEF CommitLodging, IInv, LocksFor, Rows
  <2>2. QED
    BY <2>1 DEF IInv, Exclusive
<1>3. /\ \A y \in Exhibits : y # x => row'[y] = row[y] /\ bytes'[y] = bytes[y]
      /\ \A q \in Calls : q # p => pc'[q] = pc[q] /\ item'[q] = item[q]
      /\ UNCHANGED <<stones, alarms, by, hold, caseHold, approval, task, todo, doomed, destroyed, marked>>
  BY DEF CommitLodging, Undo, Done, Goto, Set, Release, IInv, TypeOK, CallTypes, RowTypes, holds, rest
<1>4. /\ orphans \subseteq orphans' /\ spoilt \subseteq spoilt'
      /\ pc'[p] = "idle" /\ bytes'[x] = "stored" /\ Release(p)
      /\ row'[x] = "live" \/ (row'[x] = "void" /\ x \in orphans')
      /\ faults' = faults
  BY <1>1 DEF CommitLodging, Undo, Done, Goto, Set, IInv, TypeOK, CallTypes, RowTypes
<1> HIDE DEF x
<1>5. RowTypes'
  BY <1>1 DEF CommitLodging, Undo, Done, Set, IInv, TypeOK, RowTypes, holds, x
<1>6. LockTypes'
  BY <1>4, ReleasingTypes DEF IInv, TypeOK
<1>7. CallTypes'
  BY DEF CommitLodging, Undo, Done, Goto, Set, IInv, TypeOK, CallTypes, rest
<1>8. ListTypes'
  BY DEF CommitLodging, IInv, TypeOK, ListTypes, rest
<1>9. GhostTypes'
  BY <1>1, ActorAssumption DEF CommitLodging, IInv, TypeOK, GhostTypes, x
<1>10. Duty'
  BY <1>1, <1>2, <1>3, <1>4, ActorAssumption DEF IInv, TypeOK, CallTypes, ListTypes, Duty, AtDesk,
     InStore
<1>11. Aim'
  <2>1. \A q \in Calls : Dying(q)' = Dying(q) /\ task'[q] = task[q] /\ todo'[q] = todo[q]
    BY <1>3 DEF Dying
  <2>2. \A y \in Exhibits : row[y] \in {"live", "purged"} => row'[y] = row[y]
    BY <1>1, <1>3
  <2>3. ASSUME NEW q \in Calls, q # p
        PROVE  /\ pc'[q] \in {"fetch", "ask", "reacquire"} => row'[item'[q]] \in {"live", "purged"}
               /\ pc'[q] = "ask" => bytes'[item'[q]] # "stored"
               /\ pc'[q] = "put" => row'[item'[q]] = "open" /\ bytes'[item'[q]] = "none"
               /\ pc'[q] = "lodge" => row'[item'[q]] = "open" /\ bytes'[item'[q]] = "stored"
    <3>1. pc'[q] = pc[q] /\ item'[q] = item[q]
      BY <1>3, <2>3
    <3>2. pc[q] \in AtDesk \ {"idle"} => item[q] \in Exhibits
      BY DEF IInv, Duty
    <3>3. pc[q] \in {"fetch", "ask", "reacquire", "put", "lodge"} => item[q] # x
      BY <1>1, <1>2, <2>3 DEF IInv, Aim
    <3>4. QED
      BY <1>3, <3>1, <3>2, <3>3 DEF IInv, Aim, AtDesk
  <2>4. /\ pc'[p] \in {"idle", "lodge"}
        /\ pc'[p] = "lodge" => item'[p] = x /\ row'[x] = "open" /\ bytes'[x] = "stored"
    BY <1>3, <1>4
  <2>5. QED
    BY <2>1, <2>2, <2>3, <2>4, AimFrom
<1>12. \A q, s, n : Holds(q, s, n)' <=> Holds(q, s, n) /\ q # p
  BY <1>4, Releasing
<1>13. Exclusive'
  BY <1>1, <1>2, <1>3, <1>4, <1>12 DEF IInv, Exclusive
<1>14. LocksAt'
  BY <1>1, <1>2, <1>3, <1>4, <1>12 DEF IInv, TypeOK, CallTypes, ListTypes, Duty, LocksAt, Rows,
     AtDesk, InStore
<1>15. LocksFor'
  BY <1>1, <1>2, <1>3, <1>4, <1>12, ActorAssumption DEF IInv, TypeOK, CallTypes, ListTypes, Duty,
     Aim, LocksFor, Dying, AtDesk, InStore
<1>16. Fated'
  BY <1>1, <1>2, <1>3, <1>4 DEF IInv, TypeOK, CallTypes, ListTypes, Duty, Fated, Dying, Held,
     AtDesk, InStore
<1>17. Missing'
  BY <1>1, <1>2, <1>3, <1>4, ActorAssumption DEF IInv, TypeOK, CallTypes, ListTypes, Missing, Fated,
     Dying, Held, Aim, Duty, AtDesk, InStore
<1>18. Tally'
  BY <1>1, <1>3, <1>4 DEF IInv, Tally, TypeOK, ListTypes
<1>19. Spent'
  BY <1>1, <1>2, <1>3, <1>4, ActorAssumption DEF IInv, TypeOK, CallTypes, ListTypes, Spent, Fated,
     Dying, Held, Aim, Missing, Duty, AtDesk, InStore
<1>20. HeldIsThere'
  BY <1>1, <1>3, <1>4 DEF IInv, HeldIsThere, TypeOK, RowTypes
<1>21. AlarmIsTrue'
  BY <1>3, <1>4 DEF IInv, AlarmIsTrue
<1>22. \A y \in Exhibits : y \in Lost' => y \in Lost
  BY <1>1, <1>2, <1>3, <1>4 DEF IInv, TypeOK, CallTypes, ListTypes, Lost, Fated, Dying, Missing,
     Duty, AtDesk, InStore
<1>23. (Cardinality(Lost) <= faults)'
  BY <1>3, <1>4, <1>22, <1>9, LostStays DEF IInv, TypeOK, GhostTypes
<1>24. QED
  BY <1>5, <1>6, <1>7, <1>8, <1>9, <1>10, <1>11, <1>13, <1>14, <1>15, <1>16, <1>17, <1>18,
     <1>19, <1>20, <1>21, <1>22, <1>23 DEF IInv, TypeOK

\* A lodging that dies between its put and its commit leaves an object no row
\* names: a fault.
LEMMA CrashLodgingInv == ASSUME IInv, NEW p \in Calls, CrashLodging(p)
                         PROVE  IInv'
<1> DEFINE x == item[p]
<1>1. /\ x \in Exhibits /\ row[x] = "open" /\ by[x] = Nobody /\ x \notin hold /\ bytes[x] = "stored"
      /\ task[p] = Nobody /\ doomed[p] = {} /\ destroyed[p] = {} /\ marked[p] = {}
      /\ \A q \in Calls : x \notin Dying(q) /\ x \notin marked[q]
  BY DEF CrashLodging, IInv, Duty, Aim, AtDesk, InStore, Missing, Fated, Tally, HeldIsThere
<1>2. \A q \in Calls : pc[q] \in {"put", "lodge"} /\ item[q] = x => q = p
  <2> SUFFICES ASSUME NEW q \in Calls, pc[q] \in {"put", "lodge"}, item[q] = x PROVE q = p
    OBVIOUS
  <2>1. Holds(p, ExhibitRow(x), "update") /\ Holds(q, ExhibitRow(x), "update") /\ ExhibitRow(x) \in Rows
    BY <1>1 DEF CrashLodging, IInv, LocksFor, Rows
  <2>2. QED
    BY <2>1 DEF IInv, Exclusive
<1>3. /\ \A y \in Exhibits : y # x => row'[y] = row[y] /\ bytes'[y] = bytes[y]
      /\ \A q \in Calls : q # p => pc'[q] = pc[q] /\ item'[q] = item[q]
      /\ UNCHANGED <<stones, alarms, by, hold, caseHold, approval, task, todo, doomed, destroyed, marked>>
  BY DEF CrashLodging, Undo, Done, Goto, Set, Release, IInv, TypeOK, CallTypes, RowTypes, holds, rest
<1>4. /\ orphans \subseteq orphans' /\ spoilt \subseteq spoilt'
      /\ pc'[p] = "idle" /\ row'[x] = "void" /\ x \in spoilt' /\ Release(p) /\ faults' = faults + 1
  BY <1>1 DEF CrashLodging, Undo, Done, Goto, Set, IInv, TypeOK, CallTypes, RowTypes
<1> HIDE DEF x
<1>5. RowTypes'
  BY <1>1 DEF CrashLodging, Undo, Done, Set, IInv, TypeOK, RowTypes, holds, x
<1>6. LockTypes'
  BY <1>4, ReleasingTypes DEF IInv, TypeOK
<1>7. CallTypes'
  BY DEF CrashLodging, Undo, Done, Goto, Set, IInv, TypeOK, CallTypes, rest
<1>8. ListTypes'
  BY DEF CrashLodging, IInv, TypeOK, ListTypes, rest
<1>9. GhostTypes'
  BY <1>1, ActorAssumption DEF CrashLodging, IInv, TypeOK, GhostTypes, x
<1>10. Duty'
  BY <1>1, <1>2, <1>3, <1>4, ActorAssumption DEF IInv, TypeOK, CallTypes, ListTypes, Duty, AtDesk,
     InStore
<1>11. Aim'
  <2>1. \A q \in Calls : Dying(q)' = Dying(q) /\ task'[q] = task[q] /\ todo'[q] = todo[q]
    BY <1>3 DEF Dying
  <2>2. \A y \in Exhibits : row[y] \in {"live", "purged"} => row'[y] = row[y]
    BY <1>1, <1>3
  <2>3. ASSUME NEW q \in Calls, q # p
        PROVE  /\ pc'[q] \in {"fetch", "ask", "reacquire"} => row'[item'[q]] \in {"live", "purged"}
               /\ pc'[q] = "ask" => bytes'[item'[q]] # "stored"
               /\ pc'[q] = "put" => row'[item'[q]] = "open" /\ bytes'[item'[q]] = "none"
               /\ pc'[q] = "lodge" => row'[item'[q]] = "open" /\ bytes'[item'[q]] = "stored"
    <3>1. pc'[q] = pc[q] /\ item'[q] = item[q]
      BY <1>3, <2>3
    <3>2. pc[q] \in AtDesk \ {"idle"} => item[q] \in Exhibits
      BY DEF IInv, Duty
    <3>3. pc[q] \in {"fetch", "ask", "reacquire", "put", "lodge"} => item[q] # x
      BY <1>1, <1>2, <2>3 DEF IInv, Aim
    <3>4. QED
      BY <1>3, <3>1, <3>2, <3>3 DEF IInv, Aim, AtDesk
  <2>4. /\ pc'[p] \in {"idle", "lodge"}
        /\ pc'[p] = "lodge" => item'[p] = x /\ row'[x] = "open" /\ bytes'[x] = "stored"
    BY <1>3, <1>4
  <2>5. QED
    BY <2>1, <2>2, <2>3, <2>4, AimFrom
<1>12. \A q, s, n : Holds(q, s, n)' <=> Holds(q, s, n) /\ q # p
  BY <1>4, Releasing
<1>13. Exclusive'
  BY <1>1, <1>2, <1>3, <1>4, <1>12 DEF IInv, Exclusive
<1>14. LocksAt'
  BY <1>1, <1>2, <1>3, <1>4, <1>12 DEF IInv, TypeOK, CallTypes, ListTypes, Duty, LocksAt, Rows,
     AtDesk, InStore
<1>15. LocksFor'
  BY <1>1, <1>2, <1>3, <1>4, <1>12, ActorAssumption DEF IInv, TypeOK, CallTypes, ListTypes, Duty,
     Aim, LocksFor, Dying, AtDesk, InStore
<1>16. Fated'
  BY <1>1, <1>2, <1>3, <1>4 DEF IInv, TypeOK, CallTypes, ListTypes, Duty, Fated, Dying, Held,
     AtDesk, InStore
<1>17. Missing'
  BY <1>1, <1>2, <1>3, <1>4, ActorAssumption DEF IInv, TypeOK, CallTypes, ListTypes, Missing, Fated,
     Dying, Held, Aim, Duty, AtDesk, InStore
<1>18. Tally'
  BY <1>1, <1>3, <1>4 DEF IInv, Tally, TypeOK, ListTypes
<1>19. Spent'
  BY <1>1, <1>2, <1>3, <1>4, ActorAssumption DEF IInv, TypeOK, CallTypes, ListTypes, Spent, Fated,
     Dying, Held, Aim, Missing, Duty, AtDesk, InStore
<1>20. HeldIsThere'
  BY <1>1, <1>3, <1>4 DEF IInv, HeldIsThere, TypeOK, RowTypes
<1>21. AlarmIsTrue'
  BY <1>3, <1>4 DEF IInv, AlarmIsTrue
<1>22. \A y \in Exhibits : y \in Lost' => y \in Lost
  BY <1>1, <1>2, <1>3, <1>4 DEF IInv, TypeOK, CallTypes, ListTypes, Lost, Fated, Dying, Missing,
     Duty, AtDesk, InStore
<1>23. (Cardinality(Lost) <= faults)'
  BY <1>3, <1>4, <1>22, <1>9, LostStays DEF IInv, TypeOK, GhostTypes
<1>24. QED
  BY <1>5, <1>6, <1>7, <1>8, <1>9, <1>10, <1>11, <1>13, <1>14, <1>15, <1>16, <1>17, <1>18,
     <1>19, <1>20, <1>21, <1>22, <1>23 DEF IInv, TypeOK

\* The custody row of a lodging is of a row no purge has locked.
LEMMA ReacquireInv == ASSUME IInv, NEW p \in Calls, Reacquire(p)
                      PROVE  IInv'
<1>1. item[p] \in Exhibits
  BY DEF Reacquire, IInv, Duty, AtDesk
<1>2. RowTypes'
  BY <1>1 DEF IInv, TypeOK, RowTypes, Reacquire, Done, Goto, Set, holds, rest
<1>3. LockTypes'
  BY <1>1 DEF IInv, TypeOK, LockTypes, Rows, Lock, Reacquire, Done, Goto, Set, holds, rest
<1>4. CallTypes'
  BY <1>1 DEF IInv, TypeOK, CallTypes, Reacquire, Done, Goto, Set, holds, rest
<1>5. ListTypes'
  BY <1>1 DEF IInv, TypeOK, ListTypes, CallTypes, Reacquire, Done, Goto, Set, holds, rest
<1>6. GhostTypes'
  BY <1>1 DEF IInv, TypeOK, GhostTypes, CallTypes, Reacquire, Done, Goto, Set, holds, rest
<1>7. Duty'
  BY <1>1, ActorAssumption DEF IInv, TypeOK, CallTypes, ListTypes, Duty, AtDesk, InStore, Reacquire,
     Done, Goto, Set, holds, rest
<1>8. Aim'
  BY <1>1, ActorAssumption DEF IInv, TypeOK, CallTypes, ListTypes, Duty, Aim, Dying, AtDesk,
     InStore, Reacquire, Done, Goto, Set, holds, rest
<1>9. \A q, s, n : Holds(q, s, n)' <=> Holds(q, s, n)
  BY DEF Holds, Lock, Reacquire
<1>10. Exclusive'
  BY <1>1, <1>9 DEF IInv, Exclusive
<1>11. LocksAt'
  BY <1>1, <1>9 DEF IInv, TypeOK, CallTypes, ListTypes, Duty, LocksAt, Rows, AtDesk, InStore,
     Reacquire, Done, Goto, Set, holds, rest
<1>12. LocksFor'
  BY <1>1, <1>9, ActorAssumption DEF IInv, TypeOK, CallTypes, ListTypes, Duty, Aim, LocksFor, Dying,
     AtDesk, InStore, Reacquire, Done, Goto, Set, holds, rest
<1>13. Fated'
  BY <1>1 DEF IInv, TypeOK, CallTypes, ListTypes, Duty, Fated, Dying, Held, AtDesk, InStore,
     Reacquire, Done, Goto, Set, holds, rest
<1>14. Missing'
  BY <1>1, ActorAssumption DEF IInv, TypeOK, CallTypes, ListTypes, Missing, Fated, Dying, Held, Aim,
     Duty, AtDesk, InStore, Reacquire, Done, Goto, Set, holds, rest
<1>15. Tally'
  BY <1>1 DEF IInv, TypeOK, CallTypes, ListTypes, Tally, Fated, Dying, Duty, AtDesk, InStore,
     Reacquire, Done, Goto, Set, holds, rest
<1>16. Spent'
  BY <1>1, ActorAssumption DEF IInv, TypeOK, CallTypes, ListTypes, Spent, Fated, Dying, Held, Aim,
     Missing, Duty, AtDesk, InStore, Reacquire, Done, Goto, Set, holds, rest
<1>17. HeldIsThere'
  BY <1>1 DEF IInv, TypeOK, CallTypes, ListTypes, HeldIsThere, Fated, Dying, Held, Aim, Duty,
     AtDesk, InStore, Reacquire, Done, Goto, Set, holds, rest
<1>18. AlarmIsTrue'
  BY <1>1 DEF IInv, TypeOK, CallTypes, ListTypes, AlarmIsTrue, Fated, Dying, Held, Aim, Missing,
     Duty, AtDesk, InStore, Reacquire, Done, Goto, Set, holds, rest
<1>19. \A y \in Exhibits : y \in Lost' => y \in Lost
  BY <1>1 DEF IInv, TypeOK, CallTypes, ListTypes, Lost, Fated, Dying, Missing, Duty, AtDesk,
     InStore, Reacquire, Done, Goto, Set, holds, rest
<1>20. (Cardinality(Lost) <= faults)'
  BY <1>19, <1>6, LostStays DEF IInv, TypeOK, GhostTypes, Reacquire
<1>21. QED
  BY <1>2, <1>3, <1>4, <1>5, <1>6, <1>7, <1>8, <1>10, <1>11, <1>12, <1>13, <1>14, <1>15, <1>16,
     <1>17, <1>18, <1>19, <1>20 DEF IInv, TypeOK

-----------------------------------------------------------------------------
(* The induction *)

\* Exhibits lodged and committed, no hold, no call: nothing is in anyone's hands.
LEMMA InitInv == ASSUME Init PROVE IInv
<1>1. RowTypes /\ LockTypes /\ CallTypes /\ ListTypes /\ GhostTypes
  BY ExhibitAssumption, ActorAssumption
     DEF Init, RowTypes, LockTypes, CallTypes, ListTypes, GhostTypes
<1>2. Duty /\ Aim
  BY ActorAssumption DEF Init, Duty, Aim, Dying, AtDesk, InStore
<1>3. Exclusive /\ LocksAt /\ LocksFor
  BY ActorAssumption DEF Init, Exclusive, LocksAt, LocksFor, Holds, Dying, InStore
<1>4. Fated /\ Missing /\ Tally /\ Spent /\ HeldIsThere /\ AlarmIsTrue
  BY DEF Init, Fated, Dying, Missing, Tally, Spent, HeldIsThere, AlarmIsTrue
<1>5. Lost = {}
  BY ActorAssumption DEF Init, Lost
<1>6. Cardinality(Lost) <= faults
  BY <1>5, FS_EmptySet DEF Init
<1>7. QED
  BY <1>1, <1>2, <1>3, <1>4, <1>6 DEF IInv, TypeOK

\* A step nothing takes leaves everything.
LEMMA StutterInv == ASSUME IInv, UNCHANGED vars PROVE IInv'
<1>1. TypeOK'
  BY DEF IInv, vars, TypeOK, RowTypes, LockTypes, CallTypes, ListTypes, GhostTypes,
         Rows, CaseRow, ExhibitRow, ApprovalRow
<1>2. \A q, s, n : Holds(q, s, n)' <=> Holds(q, s, n)
  BY DEF Holds, Lock, vars
<1>3. Duty' /\ Aim' /\ Fated'
  BY DEF IInv, vars, Duty, Aim, Fated, Dying, Held
<1>4. Exclusive' /\ LocksAt'
  BY <1>2 DEF IInv, vars, Exclusive, LocksAt
<1>5. LocksFor'
  BY <1>2 DEF IInv, vars, LocksFor, Dying
<1>6. /\ Missing' /\ Tally' /\ Spent' /\ HeldIsThere' /\ AlarmIsTrue'
      /\ (Cardinality(Lost) <= faults)'
  BY QuietStep DEF vars, custody, holds
<1>7. QED
  BY <1>1, <1>3, <1>4, <1>5, <1>6 DEF IInv

\* Every step of every call, and every hold, keeps the invariant.
LEMMA NextInv == ASSUME IInv, [Next]_vars PROVE IInv'
<1>1. ASSUME NEW p \in Calls, NEW k \in Cases, BeginSweep(p, k) PROVE IInv'
  BY <1>1, BeginSweepInv
<1>2. ASSUME NEW p \in Calls, NEW r \in Requests, BeginPurge(p, r) PROVE IInv'
  BY <1>2, BeginPurgeInv
<1>3. ASSUME NEW p \in Calls, NEW x \in Exhibits, BeginRead(p, x) \/ BeginLodge(p, x) PROVE IInv'
  BY <1>3, BeginReadInv, BeginLodgeInv
<1>4. ASSUME NEW p \in Calls, SweepStep(p) PROVE IInv'
  BY <1>4, ClaimCaseInv, ClaimExhibitInv, MarkExhibitInv, WriteTombstoneInv, EmptyRecordsInv DEF SweepStep
<1>5. ASSUME NEW p \in Calls, PurgeStep(p) PROVE IInv'
  BY <1>5, LockApprovalInv, LockCaseInv, LockRowInv, RereadHoldsInv, SpendInv DEF PurgeStep
<1>6. ASSUME NEW p \in Calls, StoreStep(p) PROVE IInv'
  BY <1>6, StoreDestroysInv, StoreRefusesInv DEF StoreStep
<1>7. ASSUME NEW p \in Calls, DeskStep(p) PROVE IInv'
  BY <1>7, FetchInv, AskRetentionInv, InsertRowInv, LookAgainInv, PutObjectInv, CommitLodgingInv,
     ReacquireInv DEF DeskStep
<1>8. ASSUME NEW p \in Calls, Crash(p) \/ CrashLodging(p) PROVE IInv'
  BY <1>8, CrashInv, CrashLodgingInv
<1>9. ASSUME NEW on \in BOOLEAN, NEW x \in Exhibits, SetHold(x, on) PROVE IInv'
  BY <1>9, SetHoldInv
<1>10. ASSUME NEW on \in BOOLEAN, NEW k \in Cases, SetCaseHold(k, on) PROVE IInv'
  BY <1>10, SetCaseHoldInv
<1>11. CASE UNCHANGED vars
  BY <1>11, StutterInv
<1>12. CASE Next
  BY <1>1, <1>2, <1>3, <1>4, <1>5, <1>6, <1>7, <1>8, <1>9, <1>10, <1>12 DEF Next, OperatorStep
<1>13. QED
  BY <1>11, <1>12

\* What a sweep, a purge, a reader or a lodger may rely on at any of its steps
\* holds throughout.
THEOREM ExhibitsInductive == Spec => []IInv
  BY InitInv, NextInv, PTL DEF Spec

\* Rows, bytes, holds, locks and the calls' lists stay within their types.
THEOREM ExhibitsTypes == Spec => []TypeOK
<1>1. IInv => TypeOK
  BY DEF IInv
<1>2. QED
  BY <1>1, ExhibitsInductive, PTL

-----------------------------------------------------------------------------
(* What follows *)

\* A hold is on an exhibit that is there, unless a fault caught its purge.
THEOREM HeldExhibitIsThere == Spec => []HeldIsThere
<1>1. IInv => HeldIsThere
  BY DEF IInv
<1>2. QED
  BY <1>1, ExhibitsInductive, PTL

\* purged_at, the live row and the void one each say what the store has.
THEOREM RowTellsBytes == Spec => []RowIsTrue
<1>1. ASSUME IInv PROVE RowIsTrue
  <2>1. ASSUME NEW x \in Exhibits, row[x] = "live", bytes[x] # "stored", x \notin spoilt
        PROVE  \E l \in locks : l.row = ExhibitRow(x)
    <3>1. PICK p \in Calls : x \in destroyed[p]
      BY <1>1, <2>1 DEF IInv, Missing
    <3>2. Lock(p, ExhibitRow(x), "update") \in locks
      BY <1>1, <3>1, InOneHand DEF Dying, Holds
    <3>3. QED
      BY <3>2, LockIs
  <2>2. QED
    BY <1>1, <2>1 DEF IInv, Missing, RowIsTrue
<1>2. QED
  BY <1>1, ExhibitsInductive, PTL

\* A purge, done or in progress, is never taken for tampering.
THEOREM NoFalseAlarm == Spec => []AlarmIsTrue
<1>1. IInv => AlarmIsTrue
  BY DEF IInv
<1>2. QED
  BY <1>1, ExhibitsInductive, PTL

\* An exhibit has one tombstone once its purge is over.
THEOREM TombstonesCount == Spec => []CountedOnce
<1>1. IInv => CountedOnce
  BY DEF IInv, Tally, CountedOnce
<1>2. QED
  BY <1>1, ExhibitsInductive, PTL

\* An approval is spent with the destruction it signed, once.
THEOREM ApprovalSpentOnce == Spec => []SpentTogether
<1>1. ASSUME IInv PROVE SpentTogether
  <2>1. ASSUME NEW p \in Calls, NEW r \in Requests, pc[p] \in {"delete", "mark"}, task[p] = r
        PROVE  approval[r] = "APPROVED" /\ Holds(p, ApprovalRow(r), "update") /\ ApprovalRow(r) \in Rows
    BY <1>1, <2>1 DEF IInv, LocksFor, InStore, Rows
  <2>2. ASSUME NEW p \in Calls, NEW q \in Calls, NEW r \in Requests,
               pc[p] \in {"delete", "mark"}, task[p] = r, pc[q] \in {"delete", "mark"}, task[q] = r
        PROVE  p = q
    BY <1>1, <2>1, <2>2 DEF IInv, Exclusive
  <2>3. QED
    BY <1>1, <2>1, <2>2 DEF IInv, Spent, SpentTogether
<1>2. QED
  BY <1>1, ExhibitsInductive, PTL

\* So many faults, so many exhibits destroyed and never marked: each of the others
\* is in the hands of a sweep of its own.
THEOREM SweepLosesOne == Spec => []OneInFlight
<1>1. ASSUME IInv PROVE OneInFlight
  <2> DEFINE All  == {x \in Exhibits : by[x] \in Cases /\ row[x] = "live"}
             Ours == All \ Lost
             Ps   == {p \in Calls : pc[p] \in {"delete", "mark"} /\ Sweeping(p)}
             Hand == [x \in Ours |-> CHOOSE p \in Calls : x \in destroyed[p]]
  <2>1. Lost \subseteq All /\ All \subseteq Exhibits
    BY DEF Lost
  <2>2. ASSUME NEW x \in Ours PROVE Hand[x] \in Ps /\ x \in destroyed[Hand[x]]
    <3>1. \E p \in Calls : x \in destroyed[p]
      BY <2>2 DEF Lost
    <3>2. Hand[x] \in Calls /\ x \in destroyed[Hand[x]]
      BY <2>2, <3>1
    <3>3. by[x] \in Cases /\ by[x] = task[Hand[x]]
      BY <1>1, <2>2, <3>2 DEF IInv, Fated
    <3>4. pc[Hand[x]] \in {"delete", "mark"}
      BY <1>1, <3>2 DEF IInv, Duty, InStore
    <3>5. QED
      BY <3>2, <3>3, <3>4 DEF Sweeping
  <2>3. ASSUME NEW x \in Ours, NEW y \in Ours, Hand[x] = Hand[y] PROVE x = y
    <3>1. x \in Dying(Hand[x]) /\ y \in Dying(Hand[x]) /\ Hand[x] \in Calls /\ task[Hand[x]] \in Cases
      BY <2>2, <2>3 DEF Dying, Sweeping
    <3>2. QED
      BY <1>1, <3>1 DEF IInv, Aim
  <2>4. Hand \in Injection(Ours, Ps)
    <3>1. Hand \in [Ours -> Ps]
      BY <2>2
    <3>2. QED
      BY <3>1, <2>3 DEF Injection, IsInjective
  <2>5. IsFiniteSet(Ps) /\ IsFiniteSet(Lost) /\ IsFiniteSet(Ours)
    BY <2>1, FiniteAssumption, FS_Subset
  <2> HIDE DEF Hand, Ps, Ours, All
  <2>6. Cardinality(Ours) <= Cardinality(Ps)
    BY <2>4, <2>5, FS_Injection
  <2>7. All = Lost \cup Ours /\ Lost \cap Ours = {}
    BY <2>1 DEF Ours
  <2>8. /\ Cardinality(Ours) \in Nat /\ Cardinality(Ps) \in Nat /\ Cardinality(Lost) \in Nat
        /\ faults \in Nat
    BY <1>1, <2>5, FS_CardinalityType, ActorAssumption DEF IInv, TypeOK, GhostTypes
  <2>9. Cardinality(All) = Cardinality(Lost) + Cardinality(Ours)
    <3>1. Cardinality(Lost \cup Ours) = Cardinality(Lost) + Cardinality(Ours) - Cardinality(Lost \cap Ours)
      BY <2>5, FS_Union
    <3>2. QED
      BY <2>7, <2>8, <3>1, FS_EmptySet
  <2>10. QED
    BY <1>1, <2>6, <2>8, <2>9 DEF IInv, OneInFlight, All, Ps
<1>2. QED
  BY <1>1, ExhibitsInductive, PTL

\* A row a call waits for comes after every row it holds.
THEOREM LockOrder == Spec => []InLockOrder
<1>1. ASSUME IInv PROVE InLockOrder
  <2> SUFFICES ASSUME NEW p \in Calls, NEW r \in Wanted(p), NEW l \in LocksOf(p), l.row # r
               PROVE  Before(l.row, r)
    BY DEF InLockOrder
  <2>1. Holds(p, l.row, l.mode) /\ l.row \in Rows /\ l.mode \in {"share", "update"}
    BY <1>1, LockType DEF LocksOf, IInv, TypeOK
  <2>2. /\ \A a \in Requests : l.row = ApprovalRow(a) => pc[p] \in {"case", "rows"} \cup InStore
        /\ \A k \in Cases : l.row = CaseRow(k) => pc[p] \in {"claim", "rows"} \cup InStore
        /\ \A x \in Exhibits : l.row = ExhibitRow(x) =>
             /\ pc[p] \in {"rows", "put", "lodge"} \cup InStore
             /\ pc[p] = "rows" => \A y \in todo[p] : x < y
    BY <1>1, <2>1 DEF IInv, LocksAt
  <2>3. \/ \E a \in Requests : l.row = ApprovalRow(a)
        \/ \E k \in Cases : l.row = CaseRow(k)
        \/ \E x \in Exhibits : l.row = ExhibitRow(x)
    BY <2>1 DEF Rows
  <2>4. pc[p] \notin {"approval", "next", "records", "reacquire"}
    BY <2>2, <2>3 DEF InStore
  <2>5. CASE pc[p] = "case"
    <3>1. PICK x \in Batch[task[p]] : r = CaseRow(CaseOf[x])
      BY <2>5 DEF Wanted
    <3>2. \E a \in Requests : l.row = ApprovalRow(a)
      BY <2>2, <2>3, <2>5 DEF InStore
    <3>3. QED
      BY <3>1, <3>2 DEF Before, ApprovalRow, CaseRow
  <2>6. CASE pc[p] \in {"claim", "rows"}
    <3>1. todo[p] # {} /\ r = ExhibitRow(InOrder(p, todo[p]))
      BY <2>6 DEF Wanted
    <3>2. InOrder(p, todo[p]) \in todo[p]
      BY <1>1, <3>1, LeastIs DEF IInv, TypeOK, ListTypes
    <3>3. CASE \E a \in Requests : l.row = ApprovalRow(a)
      BY <3>1, <3>3 DEF Before, ApprovalRow, ExhibitRow
    <3>4. CASE \E k \in Cases : l.row = CaseRow(k)
      BY <3>1, <3>4 DEF Before, CaseRow, ExhibitRow
    <3>5. CASE \E x \in Exhibits : l.row = ExhibitRow(x)
      <4>1. PICK x \in Exhibits : l.row = ExhibitRow(x)
        BY <3>5
      <4>2. x < InOrder(p, todo[p])
        BY <2>2, <2>6, <3>2, <4>1 DEF InStore
      <4>3. QED
        BY <3>1, <4>1, <4>2 DEF Before, ExhibitRow
    <3>6. QED
      BY <2>3, <3>3, <3>4, <3>5
  <2>7. CASE pc[p] \notin {"approval", "next", "records", "reacquire", "case", "claim", "rows"}
    BY <2>7 DEF Wanted
  <2>8. QED
    BY <2>4, <2>5, <2>6, <2>7
<1>2. QED
  BY <1>1, ExhibitsInductive, PTL

\* The destructive step is the store's delete, of an exhibit in a purge's hands.
LEMMA OnlyTheStoreDestroys ==
    ASSUME IInv, Next, NEW x \in Exhibits, bytes[x] = "stored", bytes'[x] = "gone"
    PROVE  \E p \in Calls : StoreDestroys(p)
<1>1. \A p \in Calls : CommitLodging(p) \/ CrashLodging(p) => bytes' = bytes
  BY DEF CommitLodging, CrashLodging
<1>2. \A p \in Calls : ~PutObject(p)
  <2> SUFFICES ASSUME NEW p \in Calls, PutObject(p) PROVE FALSE
    OBVIOUS
  <2>1. item[p] \in Exhibits /\ bytes[item[p]] = "none"
    BY DEF PutObject, IInv, Duty, Aim, AtDesk
  <2>2. bytes'[x] \in {bytes[x], "stored", "none"}
    BY <2>1 DEF PutObject, Set, IInv, TypeOK, RowTypes
  <2>3. QED
    BY <2>2
<1>3. \A p \in Calls : SweepStep(p) => bytes' = bytes
  BY DEF SweepStep, ClaimCase, ClaimExhibit, MarkExhibit, WriteTombstone, EmptyRecords, custody
<1>4. \A p \in Calls : PurgeStep(p) => bytes' = bytes
  BY DEF PurgeStep, LockApproval, LockCase, LockRow, RereadHolds, Spend, custody
<1>5. \A p \in Calls : StoreRefuses(p) \/ Crash(p) => bytes' = bytes
  BY DEF StoreRefuses, Crash
<1>6. \A p \in Calls : DeskStep(p) /\ ~PutObject(p) => bytes' = bytes
  BY <1>1 DEF DeskStep, Fetch, AskRetention, InsertRow, LookAgain, Reacquire, custody
<1>7. \A p \in Calls, y \in Exhibits : BeginRead(p, y) \/ BeginLodge(p, y) => bytes' = bytes
  BY DEF BeginRead, BeginLodge, custody
<1>8. \A p \in Calls : /\ \A k \in Cases : BeginSweep(p, k) => bytes' = bytes
                       /\ \A r \in Requests : BeginPurge(p, r) => bytes' = bytes
  BY DEF BeginSweep, BeginPurge, custody
<1>9. \A on \in BOOLEAN : /\ \A y \in Exhibits : SetHold(y, on) => bytes' = bytes
                          /\ \A k \in Cases : SetCaseHold(k, on) => bytes' = bytes
  BY DEF SetHold, SetCaseHold, custody
<1>10. QED
  BY <1>1, <1>2, <1>3, <1>4, <1>5, <1>6, <1>7, <1>8, <1>9 DEF Next, OperatorStep, StoreStep

\* The records of a case are emptied by a sweep that has its row and finds no hold.
LEMMA OnlySweepsEmpty ==
    ASSUME Next, NEW k \in Cases, emptied[k] = 0, emptied'[k] # 0
    PROVE  \E p \in Calls : EmptyRecords(p)
<1>1. \A p \in Calls : SweepStep(p) /\ ~EmptyRecords(p) => emptied' = emptied
  BY DEF SweepStep, ClaimCase, ClaimExhibit, MarkExhibit, WriteTombstone
<1>2. \A p \in Calls : PurgeStep(p) => emptied' = emptied
  BY DEF PurgeStep, LockApproval, LockCase, LockRow, RereadHolds, Spend
<1>3. \A p \in Calls : StoreStep(p) \/ Crash(p) \/ CrashLodging(p) => emptied' = emptied
  BY DEF StoreStep, StoreDestroys, StoreRefuses, AfterDelete, Crash, CrashLodging
<1>4. \A p \in Calls : DeskStep(p) => emptied' = emptied
  BY DEF DeskStep, Fetch, AskRetention, InsertRow, LookAgain, PutObject, CommitLodging, Reacquire
<1>5. \A p \in Calls, y \in Exhibits : BeginRead(p, y) \/ BeginLodge(p, y) => emptied' = emptied
  BY DEF BeginRead, BeginLodge
<1>6. \A p \in Calls : /\ \A c \in Cases : BeginSweep(p, c) => emptied' = emptied
                       /\ \A r \in Requests : BeginPurge(p, r) => emptied' = emptied
  BY DEF BeginSweep, BeginPurge
<1>7. \A on \in BOOLEAN : /\ \A y \in Exhibits : SetHold(y, on) => emptied' = emptied
                          /\ \A c \in Cases : SetCaseHold(c, on) => emptied' = emptied
  BY DEF SetHold, SetCaseHold
<1>8. QED
  BY <1>1, <1>2, <1>3, <1>4, <1>5, <1>6, <1>7 DEF Next, OperatorStep

\* Only an exhibit nobody holds is destroyed, and only the records of a case nobody
\* holds are emptied, whatever came between the sweep's reading and its deletes.
THEOREM HoldWins == Spec => HoldBeatsPurge
<1> DEFINE Obeys == /\ \A x \in Exhibits : bytes[x] = "stored" /\ bytes'[x] = "gone" => ~Held(x)
                    /\ \A k \in Cases : emptied[k] = 0 /\ emptied'[k] # 0 => k \notin caseHold
<1>1. ASSUME IInv, [Next]_vars PROVE [Obeys]_vars
  <2> SUFFICES ASSUME Next PROVE Obeys
    BY <1>1
  <2>1. ASSUME NEW x \in Exhibits, bytes[x] = "stored", bytes'[x] = "gone" PROVE ~Held(x)
    <3>1. PICK p \in Calls : StoreDestroys(p)
      BY <1>1, <2>1, OnlyTheStoreDestroys
    <3>2. bytes' = [bytes EXCEPT ![InOrder(p, doomed[p])] = "gone"] /\ pc[p] = "delete"
      BY <3>1 DEF StoreDestroys, Set
    <3>3. x = InOrder(p, doomed[p])
      BY <1>1, <2>1, <3>2 DEF IInv, TypeOK, RowTypes
    <3>4. x \in doomed[p]
      BY <1>1, <3>2, <3>3, LeastIs DEF IInv, TypeOK, ListTypes, Duty
    <3>5. QED
      BY <1>1, <3>4 DEF IInv, Fated, Dying
  <2>2. ASSUME NEW k \in Cases, emptied[k] = 0, emptied'[k] # 0 PROVE k \notin caseHold
    <3>1. PICK p \in Calls : EmptyRecords(p)
      BY <2>2, OnlySweepsEmpty
    <3>2. k = task[p] /\ task[p] \notin caseHold
      BY <1>1, <2>2, <3>1 DEF EmptyRecords, Set, IInv, TypeOK, RowTypes
    <3>3. QED
      BY <3>2
  <2>3. QED
    BY <2>1, <2>2
<1>2. QED
  BY <1>1, ExhibitsInductive, PTL DEF Spec, HoldBeatsPurge
=============================================================================
