------------------------------ MODULE Exhibits ------------------------------
(***************************************************************************)
(* The life of an exhibit: lodging and reading it (evidence.py), placing   *)
(* and lifting legal holds, and destroying it, on schedule (purge_due) or  *)
(* before its time under a second person's approval                       *)
(* (purge_out_of_schedule; retention.py, 0140-0142).                       *)
(*                                                                         *)
(* The object store answers outside the database: a delete it has done is  *)
(* not undone when the transaction around it rolls back.  Row locks are    *)
(* explicit, a lock that conflicts is waited for, and a transaction's      *)
(* writes are made in the step that commits it.  A hold is one statement   *)
(* under one row lock, so it is one step, enabled when the lock is free.   *)
(* The audit and custody chains' locks come last in every transaction and  *)
(* are left out.  The store may refuse any delete: it stands for a lock    *)
(* that has not ended and for a failure that left the bytes.               *)
(***************************************************************************)
EXTENDS Naturals, FiniteSets

CONSTANTS
    Exhibits,   \* ids of core.evidence rows, numbers for their order
    Lodged,     \* those lodged and committed at the start
    Cases,
    CaseOf,     \* [Exhibits -> Cases]; fixed once lodged (0140)
    Due,        \* cases whose retention_until has passed
    BytesOf,    \* [Exhibits -> ...]: digest and labels, one live row for each (0141)
    Requests,   \* approvals of evidence.purge, signed at the start
    Batch,      \* [Requests -> SUBSET Exhibits]: the exhibits each names
    Calls,      \* calls in progress: purges of either kind, readings, lodgings
    Named,      \* exhibits that orders and readers name: a bound of the runs
    MaxFaults   \* bound on crashes halfway and on answers lost after a delete

Nobody == "nobody"
Nothing == 0

ASSUME ExhibitAssumption ==
    /\ Exhibits \subseteq Nat \ {Nothing} /\ Lodged \cup Named \subseteq Exhibits
    /\ CaseOf \in [Exhibits -> Cases] /\ Due \subseteq Cases
    /\ BytesOf = [x \in Exhibits |-> BytesOf[x]]
ASSUME FiniteAssumption == IsFiniteSet(Exhibits) /\ IsFiniteSet(Calls)
ASSUME RequestAssumption ==
    /\ Batch \in [Requests -> SUBSET Exhibits]
    /\ \A r \in Requests : Batch[r] # {} /\ \A x, y \in Batch[r] : CaseOf[x] = CaseOf[y]
ASSUME ActorAssumption ==
    /\ Cases \cap Requests = {} /\ Nobody \notin Cases \cup Requests /\ MaxFaults \in Nat

CaseRow(k)     == <<"case", k>>
ExhibitRow(x)  == <<"exhibit", x>>
ApprovalRow(r) == <<"approval", r>>
Rows == {CaseRow(k) : k \in Cases} \cup {ExhibitRow(x) : x \in Exhibits}
          \cup {ApprovalRow(r) : r \in Requests}

VARIABLES
    row,        \* "absent", "open" (inserted, not committed), "live", "purged", "void"
    bytes,      \* the store: "none", "stored", "gone"
    hold,       \* exhibits under a hold of their own
    caseHold,   \* cases under a hold
    approval,   \* "APPROVED", "CONSUMED"
    emptied,    \* each case's clocked records: tombstones that count them, 0 while they are there
    stones,     \* DELETED tombstones that count each exhibit
    orphans,    \* exhibits named by an EVIDENCE_OBJECT_ORPHANED event
    alarms,     \* exhibits an EVIDENCE_INTEGRITY_ALARM was raised for
    locks,      \* row locks held: [proc, row, mode]
    pc,
    task,       \* the case a sweep purges, the approval a purge presents
    item,       \* the exhibit a reading or a lodging is about
    todo, doomed,
    destroyed,  \* of the open transaction: what the store confirmed
    marked,     \* of the sweep: committed as purged, tombstone not yet written
    records,    \* of the sweep: it found the case's records due
    faults,     \* crashes halfway and lost answers so far
    by, spoilt, \* ghosts: the case or request the bytes were destroyed for; exhibits a fault caught halfway
    misled      \* ghost: exhibits a lodging was answered with when they were purged

custody == <<row, bytes, stones, orphans, alarms, by, spoilt, misled>>
holds   == <<hold, caseHold>>
rest    == <<todo, doomed, destroyed, marked, records>>
local   == <<item, rest>>
vars    == <<row, bytes, hold, caseHold, approval, emptied, stones, orphans, alarms, locks,
             pc, task, item, todo, doomed, destroyed, marked, records, faults, by, spoilt, misled>>

-----------------------------------------------------------------------------
(* Row locks *)

Lock(p, r, mode) == [proc |-> p, row |-> r, mode |-> mode]

Granted(p, r, mode) == \A l \in locks :
    l.row = r /\ l.proc # p => mode = "share" /\ l.mode = "share"

LocksOf(p) == {l \in locks : l.proc = p}

Take(p, r, mode) == Granted(p, r, mode) /\ locks' = locks \cup {Lock(p, r, mode)}

\* A purge is a sweep of a case, or presents an approval.
Sweeping(p) == task[p] \in Cases

\* Commit and rollback both.
Release(p) == locks' = locks \ LocksOf(p)

Goto(p, l) == pc' = [pc EXCEPT ![p] = l]
Set(f, p, v) == [f EXCEPT ![p] = v]

\* Rows are locked and destroyed in the order of their ids.
Least(S) == CHOOSE x \in S : \A y \in S : x <= y
Greatest(S) == CHOOSE x \in S : \A y \in S : x >= y
AsNamed(p, S) == IF task[p] = (CHOOSE r \in Requests : TRUE) THEN Greatest(S) ELSE Least(S) \* a mutant
InOrder(p, S) == Least(S)

Held(x) == x \in hold \/ CaseOf[x] \in caseHold

\* What a purge marks: what the store confirmed removed, in this transaction.
WholeBatch(p) == IF Sweeping(p) THEN destroyed[p] ELSE Batch[task[p]]    \* a mutant
Confirmed(p) == destroyed[p]

Answered(p) == Goto(p, "idle") /\ task' = Set(task, p, Nobody)
Done(d)     == Goto(d, "idle") /\ item' = Set(item, d, Nothing)

-----------------------------------------------------------------------------
Init ==
    /\ row = [x \in Exhibits |-> IF x \in Lodged THEN "live" ELSE "absent"]
    /\ bytes = [x \in Exhibits |-> IF x \in Lodged THEN "stored" ELSE "none"]
    /\ hold = {} /\ caseHold = {}
    /\ approval = [r \in Requests |-> "APPROVED"]
    /\ emptied = [k \in Cases |-> 0] /\ stones = [x \in Exhibits |-> 0]
    /\ orphans = {} /\ alarms = {} /\ locks = {}
    /\ pc = [p \in Calls |-> "idle"] /\ task = [p \in Calls |-> Nobody]
    /\ item = [d \in Calls |-> Nothing]
    /\ todo = [p \in Calls |-> {}] /\ doomed = [p \in Calls |-> {}]
    /\ destroyed = [p \in Calls |-> {}] /\ marked = [p \in Calls |-> {}]
    /\ records = [p \in Calls |-> FALSE]
    /\ faults = 0 /\ by = [x \in Exhibits |-> Nobody] /\ spoilt = {} /\ misled = {}

-----------------------------------------------------------------------------
(* Legal holds: one UPDATE each under its row's FOR UPDATE lock.  A purged  *)
(* exhibit is refused; a case may be held whatever it has left.            *)

SetHold(x, on) ==
    /\ ~\E l \in locks : l.row = ExhibitRow(x)
    /\ row[x] = "live" /\ x \in Named /\ on # (x \in hold)
    /\ hold' = IF on THEN hold \cup {x} ELSE hold \ {x}
    /\ UNCHANGED <<custody, caseHold, approval, emptied, locks, pc, task, local, faults>>

SetCaseHold(k, on) ==
    /\ ~\E l \in locks : l.row = CaseRow(k)
    /\ on # (k \in caseHold)
    /\ caseHold' = IF on THEN caseHold \cup {k} ELSE caseHold \ {k}
    /\ UNCHANGED <<custody, hold, approval, emptied, locks, pc, task, local, faults>>

-----------------------------------------------------------------------------
(* purge_due: what is due is read without a lock; then the exhibits, each  *)
(* in a transaction of its own; their tombstone; the records of the case   *)

BeginSweep(p, k) ==
    /\ pc[p] = "idle" /\ k \in Due
    /\ LET found == {x \in Exhibits : CaseOf[x] = k /\ row[x] = "live" /\ ~Held(x)}
           clocked == emptied[k] = 0 /\ k \notin caseHold
       IN /\ found # {} \/ clocked
          /\ todo' = Set(todo, p, found)
          /\ records' = Set(records, p, clocked)
    /\ task' = Set(task, p, k) /\ Goto(p, "next")
    /\ UNCHANGED <<custody, holds, approval, emptied, locks, doomed, destroyed, marked, faults, item>>

\* _claim_for_destruction: the case, then the exhibit, then the holds again.
ClaimCase(p) ==
    /\ pc[p] = "next" /\ todo[p] # {}
    /\ Take(p, CaseRow(task[p]), "share")
    /\ Goto(p, "claim")
    /\ UNCHANGED <<custody, holds, approval, emptied, task, local, faults>>

AsFound(x) == row[x] = "live"                                            \* a mutant
MayDestroy(x) == row[x] = "live" /\ ~Held(x)

WholeSweep(p, x) == {x} \cup todo[p]                                     \* a mutant
Claimed(p, x) == {x}

ClaimExhibit(p) ==
    LET x == InOrder(p, todo[p])
    IN /\ pc[p] = "claim"
       /\ Granted(p, ExhibitRow(x), "update")
       /\ todo' = Set(todo, p, todo[p] \ Claimed(p, x))
       /\ IF MayDestroy(x)
          THEN /\ locks' = locks \cup {Lock(p, ExhibitRow(x), "update")}
               /\ doomed' = Set(doomed, p, Claimed(p, x))
               /\ Goto(p, "delete")
          ELSE Release(p) /\ Goto(p, "next") /\ UNCHANGED doomed
       /\ UNCHANGED <<custody, holds, approval, emptied, task, destroyed, marked, records, faults, item>>

Mark(p) == row' = [x \in Exhibits |-> IF x \in Confirmed(p) THEN "purged" ELSE row[x]]

\* One exhibit's purged_at and custody row, committed before the next is touched.
MarkExhibit(p) ==
    /\ pc[p] = "mark" /\ Sweeping(p)
    /\ Mark(p) /\ Release(p)
    /\ marked' = Set(marked, p, marked[p] \cup Confirmed(p))
    /\ destroyed' = Set(destroyed, p, {})
    /\ Goto(p, "next")
    /\ UNCHANGED <<bytes, stones, orphans, alarms, by, spoilt, misled, holds, approval, emptied, task,
                   todo, doomed, records, faults, item>>

Counted(S) == [x \in Exhibits |-> IF x \in S THEN stones[x] + 1 ELSE stones[x]]

\* _evidence_tombstones, in a transaction of its own after the marks.
WriteTombstone(p) ==
    /\ pc[p] = "next" /\ todo[p] = {}
    /\ stones' = Counted(marked[p])
    /\ marked' = Set(marked, p, {})
    /\ Goto(p, "records")
    /\ UNCHANGED <<row, bytes, orphans, alarms, by, spoilt, misled, holds, approval, emptied, locks, task,
                   todo, doomed, destroyed, records, faults, item>>

\* The case's hold is read again under a share lock; the records are emptied
\* and counted in the same transaction, whoever else has emptied them.
EmptyRecords(p) ==
    LET k == task[p]
    IN /\ pc[p] = "records"
       /\ Granted(p, CaseRow(k), "share")
       /\ emptied' = IF records[p] /\ k \notin caseHold
                     THEN Set(emptied, k, emptied[k] + 1) ELSE emptied
       /\ records' = Set(records, p, FALSE)
       /\ Answered(p)
       /\ UNCHANGED <<custody, holds, approval, locks, todo, doomed, destroyed, marked, faults, item>>

-----------------------------------------------------------------------------
(* purge_out_of_schedule: the holds are read without a lock; then one      *)
(* transaction locks the approval, the case and every exhibit, refuses all *)
(* if any came under a hold, destroys each, and spends the approval        *)

BeginPurge(p, r) ==
    /\ pc[p] = "idle" /\ ~\E x \in Batch[r] : Held(x)
    /\ \A x \in Batch[r] : row[x] \in {"live", "purged"}
    /\ task' = Set(task, p, r) /\ Goto(p, "approval")
    /\ UNCHANGED <<custody, holds, approval, emptied, locks, local, faults>>

Presented(r) == TRUE                                                     \* a mutant
Unspent(r) == approval[r] = "APPROVED"

LockApproval(p) ==
    LET r == task[p]
    IN /\ pc[p] = "approval"
       /\ Granted(p, ApprovalRow(r), "update")
       /\ IF Unspent(r)
          THEN /\ locks' = locks \cup {Lock(p, ApprovalRow(r), "update")}
               /\ Goto(p, "case") /\ UNCHANGED task
          ELSE Answered(p) /\ UNCHANGED locks
       /\ UNCHANGED <<custody, holds, approval, emptied, local, faults>>

LockCase(p) ==
    LET k == CaseOf[CHOOSE x \in Batch[task[p]] : TRUE]
    IN /\ pc[p] = "case"
       /\ Take(p, CaseRow(k), "share")
       /\ todo' = Set(todo, p, Batch[task[p]])
       /\ Goto(p, "rows")
       /\ UNCHANGED <<custody, holds, approval, emptied, task, doomed, destroyed, marked, records, faults, item>>

LockRow(p) ==
    LET x == InOrder(p, todo[p])
    IN /\ pc[p] = "rows" /\ todo[p] # {}
       /\ Take(p, ExhibitRow(x), "update")
       /\ todo' = Set(todo, p, todo[p] \ {x})
       /\ UNCHANGED <<custody, holds, approval, emptied, pc, task, doomed, destroyed, marked, records, faults, item>>

RereadHolds(p) ==
    LET left == {x \in Batch[task[p]] : row[x] = "live"}
    IN /\ pc[p] = "rows" /\ todo[p] = {}
       /\ IF \E x \in left : ~MayDestroy(x)
          THEN Answered(p) /\ Release(p) /\ UNCHANGED doomed
          ELSE /\ doomed' = Set(doomed, p, left)
               /\ Goto(p, IF left = {} THEN "mark" ELSE "delete")
               /\ UNCHANGED <<task, locks>>
       /\ UNCHANGED <<custody, holds, approval, emptied, todo, destroyed, marked, records, faults, item>>

\* The marks, the spend and the tombstone are one transaction.
Spend(p) ==
    /\ pc[p] = "mark" /\ ~Sweeping(p)
    /\ Mark(p) /\ Release(p)
    /\ approval' = Set(approval, task[p], "CONSUMED")
    /\ stones' = Counted(Confirmed(p))
    /\ destroyed' = Set(destroyed, p, {})
    /\ Answered(p)
    /\ UNCHANGED <<bytes, orphans, alarms, by, spoilt, misled, holds, emptied, todo, doomed, marked, records, faults, item>>

-----------------------------------------------------------------------------
(* The store's delete, for both purges *)

\* Nothing is left to delete: the transaction goes on to its marks.
AfterDelete(p, x) ==
    /\ doomed' = Set(doomed, p, doomed[p] \ {x})
    /\ Goto(p, IF doomed[p] = {x} THEN "mark" ELSE "delete")
    /\ UNCHANGED <<row, stones, orphans, alarms, misled, holds, approval, emptied, locks, task, todo, marked, records, item>>

StoreDestroys(p) ==
    LET x == InOrder(p, doomed[p])
    IN /\ pc[p] = "delete" /\ bytes[x] = "stored"
       /\ bytes' = Set(bytes, x, "gone") /\ by' = Set(by, x, task[p])
       /\ AfterDelete(p, x)
       /\ \/ destroyed' = Set(destroyed, p, destroyed[p] \cup {x}) /\ UNCHANGED <<spoilt, faults>>
          \/ /\ faults < MaxFaults                     \* done, and its answer lost
             /\ faults' = faults + 1 /\ spoilt' = spoilt \cup {x}
             /\ UNCHANGED destroyed

\* A lock that has not ended, a failure, or nothing under the key.
StoreRefuses(p) ==
    /\ pc[p] = "delete"
    /\ AfterDelete(p, InOrder(p, doomed[p]))
    /\ UNCHANGED <<bytes, by, spoilt, destroyed, faults>>

\* The process dies, or its connection; a tombstone that cannot be written
\* ends its sweep the same way.  It is a fault if it comes between a destruction
\* and what would have recorded it.
Crash(p) ==
    /\ task[p] # Nobody
    /\ LET halfway == destroyed[p] \cup marked[p]
       IN IF halfway = {} THEN UNCHANGED <<spoilt, faults>>
          ELSE faults < MaxFaults /\ faults' = faults + 1 /\ spoilt' = spoilt \cup halfway
    /\ Release(p) /\ Answered(p)
    /\ todo' = Set(todo, p, {}) /\ doomed' = Set(doomed, p, {})
    /\ destroyed' = Set(destroyed, p, {}) /\ marked' = Set(marked, p, {})
    /\ records' = Set(records, p, FALSE)
    /\ UNCHANGED <<row, bytes, stones, orphans, alarms, by, misled, holds, approval, emptied, item>>
-----------------------------------------------------------------------------
(* Reading an exhibit: the row, the store, and the row again if the store  *)
(* has nothing                                                             *)

BeginRead(d, x) ==
    /\ pc[d] = "idle" /\ x \in Named /\ row[x] = "live"
    /\ item' = Set(item, d, x) /\ Goto(d, "fetch")
    /\ UNCHANGED <<custody, holds, approval, emptied, locks, task, rest, faults>>

Fetch(d) ==
    /\ pc[d] = "fetch"
    /\ IF bytes[item[d]] = "stored" THEN Done(d) ELSE Goto(d, "ask") /\ UNCHANGED item
    /\ UNCHANGED <<custody, holds, approval, emptied, locks, task, rest, faults>>

\* _refuse_if_retention_has_it asks FOR SHARE NOWAIT: a row a purge holds is
\* "being destroyed"; a live one whose object is gone is an alarm.
NotAsked(x) == FALSE                                                     \* a mutant
BeingDestroyed(x) == \E l \in locks : l.row = ExhibitRow(x)

AskRetention(d) ==
    LET x == item[d]
    IN /\ pc[d] = "ask"
       /\ alarms' = IF BeingDestroyed(x) \/ row[x] = "purged" THEN alarms ELSE alarms \cup {x}
       /\ Done(d)
       /\ UNCHANGED <<row, bytes, stones, orphans, by, spoilt, misled, holds, approval, emptied,
                      locks, task, rest, faults>>

-----------------------------------------------------------------------------
(* Lodging: identical bytes with the same labels are one live exhibit.     *)
(* The row is inserted first, the object put, and then both are committed. *)

Twin(x, s) == \E y \in Exhibits \ {x} : BytesOf[y] = BytesOf[x] /\ row[y] = s
TwinOf(x) == CHOOSE y \in Exhibits \ {x} : BytesOf[y] = BytesOf[x] /\ row[y] = "live"

\* _existing_for: a live exhibit of these bytes is the answer.
Reuse(d, x) == item' = Set(item, d, TwinOf(x)) /\ Goto(d, "reacquire")

BeginLodge(d, x) ==
    /\ pc[d] = "idle" /\ row[x] = "absent"
    /\ IF Twin(x, "live") THEN Reuse(d, x)
       ELSE item' = Set(item, d, x) /\ Goto(d, "insert")
    /\ UNCHANGED <<custody, holds, approval, emptied, locks, task, rest, faults>>

\* evidence_live_bytes_per_labels: an insert waits for its twin's to commit
\* or roll back, and is refused by a live one.
Unindexed(x, s) == FALSE                                                 \* a mutant
Indexed(x, s) == Twin(x, s)

InsertRow(d) ==
    LET x == item[d]
    IN /\ pc[d] = "insert" /\ row[x] = "absent"
       /\ ~Indexed(x, "open")
       /\ IF Indexed(x, "live")
          THEN Goto(d, "look") /\ UNCHANGED <<row, locks, item>>
          ELSE /\ row' = Set(row, x, "open")
               /\ locks' = locks \cup {Lock(d, ExhibitRow(x), "update")}
               /\ Goto(d, "put") /\ UNCHANGED item
       /\ UNCHANGED <<bytes, stones, orphans, alarms, by, spoilt, misled, holds, approval, emptied,
                      task, rest, faults>>

\* Refused by the index: the exhibit that won is the answer, and if it is gone
\* since the insert is tried once more, and then given up.
LookAgain(d) ==
    /\ pc[d] = "look"
    /\ \/ Twin(item[d], "live") /\ Reuse(d, item[d])
       \/ ~Twin(item[d], "live") /\ ((Goto(d, "insert") /\ UNCHANGED item) \/ Done(d))
    /\ UNCHANGED <<custody, holds, approval, emptied, locks, task, rest, faults>>

\* The row's transaction ends without it.
Undo(d) == row' = Set(row, item[d], "void") /\ Release(d) /\ Done(d)

PutObject(d) ==
    LET x == item[d]
    IN /\ pc[d] = "put"
       /\ \/ bytes' = Set(bytes, x, "stored") /\ Goto(d, "lodge")
             /\ UNCHANGED <<row, locks, item, orphans>>
          \/ /\ Undo(d)                                \* the store was never reached
             /\ UNCHANGED <<bytes, orphans>>
          \/ \E sent \in {"none", "stored"} :          \* sent, and failed or not read back
                /\ bytes' = Set(bytes, x, sent) /\ Undo(d)
                /\ orphans' = orphans \cup {x}
       /\ UNCHANGED <<stones, alarms, by, spoilt, misled, holds, approval, emptied, task, rest, faults>>

\* The custody and audit rows, and the commit; refused, the object is named.
CommitLodging(d) ==
    /\ pc[d] = "lodge"
    /\ \/ row' = Set(row, item[d], "live") /\ Release(d) /\ Done(d) /\ UNCHANGED orphans
       \/ Undo(d) /\ orphans' = orphans \cup {item[d]}
    /\ UNCHANGED <<bytes, stones, alarms, by, spoilt, misled, holds, approval, emptied, task, rest, faults>>

\* The API dies between the put and the commit; before the put it is as if the
\* store was never reached.
CrashLodging(d) ==
    /\ pc[d] = "lodge" /\ faults < MaxFaults
    /\ faults' = faults + 1 /\ Undo(d)
    /\ spoilt' = spoilt \cup {item[d]}
    /\ UNCHANGED <<bytes, stones, orphans, alarms, by, misled, holds, approval, emptied, task, rest>>

\* _reacquired: a custody row, whose foreign key waits for a purge of the exhibit.
Reacquire(d) ==
    LET x == item[d]
    IN /\ pc[d] = "reacquire" /\ Granted(d, ExhibitRow(x), "share")
       /\ misled' = IF row[x] = "purged" THEN misled \cup {x} ELSE misled
       /\ Done(d)
       /\ UNCHANGED <<row, bytes, stones, orphans, alarms, by, spoilt, holds, approval, emptied,
                      locks, task, rest, faults>>

-----------------------------------------------------------------------------
StoreStep(p) == StoreDestroys(p) \/ StoreRefuses(p)
SweepStep(p) == \/ ClaimCase(p) \/ ClaimExhibit(p) \/ MarkExhibit(p)
                \/ WriteTombstone(p) \/ EmptyRecords(p)
PurgeStep(p) == LockApproval(p) \/ LockCase(p) \/ LockRow(p) \/ RereadHolds(p) \/ Spend(p)
OperatorStep(p) == SweepStep(p) \/ PurgeStep(p) \/ StoreStep(p)
DeskStep(d)  == \/ Fetch(d) \/ AskRetention(d) \/ InsertRow(d) \/ LookAgain(d) \/ PutObject(d)
                \/ CommitLodging(d) \/ Reacquire(d)

Next ==
    \/ \E p \in Calls : \/ \E k \in Cases : BeginSweep(p, k)
                      \/ \E r \in Requests : BeginPurge(p, r)
                      \/ \E x \in Exhibits : BeginRead(p, x) \/ BeginLodge(p, x)
                      \/ OperatorStep(p) \/ DeskStep(p) \/ Crash(p) \/ CrashLodging(p)
    \/ \E on \in BOOLEAN : \/ \E x \in Exhibits : SetHold(x, on)
                          \/ \E k \in Cases : SetCaseHold(k, on)

Spec == Init /\ [][Next]_vars
=============================================================================
